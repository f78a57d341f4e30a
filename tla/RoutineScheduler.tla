--------------------------- MODULE RoutineScheduler ---------------------------
(***************************************************************************)
(* When a routine's runs start and what keeps them apart                   *)
(* (packages/harness-server/src: schedule.ts, the scheduler's tick, begin, *)
(* execute and finish, and the locks of repository.ts).                    *)
(*                                                                         *)
(* A routine fires at the beats of its schedule, at the retry a failed run *)
(* earned, or when a person asks.  Each firing takes the routine's lock,   *)
(* which is a lease that a timer renews while the run is executed.  What   *)
(* the run does is left out: it ends somehow, pauses for a person, or has  *)
(* an agent that asks a person, and is held where it is until it is let go.*)
(*                                                                         *)
(* Time passes in units.  While the host is awake a due timer fires before *)
(* time passes, and what the scheduler awaits as it starts a run returns   *)
(* within Slack; a nap is time that passes with neither.  One process owns *)
(* every lock, since start deletes those of the process before it, so the  *)
(* owner of a lock is left out.  Time 0 is when the routines were created. *)
(***************************************************************************)
EXTENDS Naturals, Sequences, FiniteSets

CONSTANTS
    Routines,
    FromFile,     \* those that run the tasks of a workflow file
    Every,        \* minutes between two beats, for each routine
    Skips,        \* those with missed: skip
    Retries,      \* retry.count, for each routine
    Backoff,      \* retry.backoffMinutes
    Lease,        \* lockTtlMs
    Renewal,      \* the heartbeat's period, a third of the lease
    Slack,        \* what the awaits of a tick and of begin take at most
    Grace,        \* MISSED_GRACE_MS
    NoticeAt,     \* FAILED_IN_A_ROW_NOTICE
    Pausing,      \* whether a run may stop at a gate
    UnattendedGate, \* unattended: "gate" holds a run whose agent asks, "deny" fails its task
    MaxRuns,      \* bound: runs of each routine
    MaxNow,       \* bound: how long time passes
    MaxEvents     \* bound: what people ask for, naps of the host, restarts

ASSUME RoutineAssumption ==
    /\ FromFile \subseteq Routines
    /\ Skips \subseteq Routines
    /\ Every \in [Routines -> Nat \ {0}]
    /\ Retries \in [Routines -> Nat]
    /\ Backoff \in Nat
    /\ Lease \in Nat /\ Renewal \in Nat \ {0} /\ Slack \in Nat \ {0} /\ Grace \in Nat
    /\ Slack + Renewal < Lease
    /\ NoticeAt \in Nat \ {0}
    /\ Pausing \in BOOLEAN /\ UnattendedGate \in BOOLEAN
    /\ MaxRuns \in [Routines -> Nat]
    /\ MaxNow \in Nat /\ MaxEvents \in Nat

VARIABLES
    now,
    routine,   \* the row of each routine
    runs,      \* the rows of the runs of routines, in the order they were written
    lock,      \* the locks table: when each routine's lease ends, 0 for no row
    tick,      \* the tick that is under way: when it began, what it has still to fire
    begins,    \* the calls of begin that await something
    held,      \* when the heartbeat of each run in execute fires next
    driven,    \* the runs in drive
    stopping,  \* the runs asked to stop
    removing,  \* the routines whose deletion waits for their runs to be interrupted
    noticed,   \* the runs on which routine.failing was told
    naps,
    events

rows  == <<routine, runs, noticed>>
calls == <<tick, begins, held, driven, stopping, removing>>
vars  == <<now, routine, runs, lock, tick, begins, held, driven, stopping, removing, noticed,
           naps, events>>

\* How a run ends.  "failed" is also a run whose verdict failed, "asks" one
\* whose verdict is needs-user: what follows looks at nothing else of them.
Endings  == {"success", "asks", "failed", "stopped"}
Bad      == {"asks", "failed"}
Runs     == 1 .. Len(runs)
NoTick   == [at |-> 0, due |-> {}, waits |-> FALSE, on |-> FALSE]
Firings  == [routine : Routines, attempt : Nat \ {0}]

\* "request" is a run that is awaiting with the pause of that name: held while
\* a turn of it waits on a person, and let go by the turn, not by approve.
Active   == {"running", "awaiting", "request"}
RunRows  == [routine : Routines, by : {"schedule", "person"}, status : Endings \cup Active \cup {"gone"},
             startedAt : Nat, finishedAt : Nat, attempt : Nat \ {0}]

TypeOK ==
    /\ now \in Nat
    /\ routine \in [Routines -> [state : {"on", "off", "gone"}, lastRunAt : Nat]]
    /\ runs \in Seq(RunRows)
    /\ lock \in [Routines -> Nat]
    /\ tick \in [at : Nat, due : SUBSET Firings, waits : BOOLEAN, on : BOOLEAN]
    /\ begins \in SUBSET [routine : Routines, at : Nat, by : {"schedule", "person"}, attempt : Nat \ {0},
                          run : Nat]
    /\ held \in [Runs -> Nat]
    /\ driven \in SUBSET Runs
    /\ stopping \in SUBSET Runs
    /\ removing \in SUBSET Routines
    /\ noticed \in SUBSET Runs
    /\ naps \in Nat
    /\ events \in Nat

Init ==
    /\ now = 0
    /\ routine = [r \in Routines |-> [state |-> "on", lastRunAt |-> 0]]
    /\ runs = <<>>
    /\ lock = [r \in Routines |-> 0]
    /\ tick = NoTick
    /\ begins = {}
    /\ held = <<>>
    /\ driven = {}
    /\ stopping = {}
    /\ removing = {}
    /\ noticed = {}
    /\ naps = 0
    /\ events = 0

------------------------------------------------------------------------------
(* schedule.ts: when a routine fires, from its row and its runs.           *)

RunsOf(rs, r)    == {k \in DOMAIN rs : rs[k].routine = r /\ rs[k].status # "gone"}
Newer(rs, j, k)  == rs[j].startedAt > rs[k].startedAt \/ (rs[j].startedAt = rs[k].startedAt /\ j >= k)
SettledOf(rs, r) == {k \in RunsOf(rs, r) : rs[k].status \in {"success"} \cup Bad}

\* The newest runs of a routine that failed one after the other; failedInARow
\* is how many they are.
Streak(rs, r) ==
    {k \in SettledOf(rs, r) : \A j \in SettledOf(rs, r) : Newer(rs, j, k) => rs[j].status \in Bad}
failedInARow(rs, r) == Cardinality(Streak(rs, r))

\* Mutant: no beat is too soon.
nextBeat_atOnce(r, at) ==
    LET anchor == routine[r].lastRunAt
        from   == IF r \in Skips /\ at > anchor + Grace THEN at - Grace ELSE anchor
    IN anchor + ((from - anchor + Every[r] - 1) \div Every[r]) * Every[r]

\* The first beat after the last run, or after as far back as a late tick
\* may look when missed beats are skipped.
nextBeat(r, at) ==
    LET anchor == routine[r].lastRunAt
        from   == IF r \in Skips /\ at > anchor + Grace THEN at - Grace ELSE anchor
        steps  == (from - anchor + Every[r] - 1) \div Every[r]
    IN anchor + (IF steps > 1 THEN steps ELSE 1) * Every[r]

\* The attempt the newest run has earned, and when.
pendingRetry(r) ==
    {[at |-> runs[k].finishedAt + Backoff * 2 ^ (runs[k].attempt - 1), attempt |-> runs[k].attempt + 1] :
        k \in {k \in RunsOf(runs, r) : /\ \A j \in RunsOf(runs, r) : Newer(runs, k, j)
                                       /\ runs[k].status = "failed"
                                       /\ runs[k].attempt <= Retries[r]}}

\* What of a routine is due: a retry that comes before the next beat, or the
\* beat.
nextFiring(r, at) ==
    LET sooner == {t \in pendingRetry(r) : t.at < nextBeat(r, at)}
    IN IF routine[r].state # "on" THEN {}
       ELSE IF sooner # {} THEN sooner ELSE {[at |-> nextBeat(r, at), attempt |-> 1]}

Due(r, at) == {f \in nextFiring(r, at) : f.at <= at}

\* The bounds on what the clock and the routines do not bring, and on runs.
Event == events < MaxEvents /\ events' = events + 1
Room(r) == Cardinality({k \in Runs : runs[k].routine = r})
           + Cardinality({b \in begins : b.routine = r /\ b.run = 0}) < MaxRuns[r]

------------------------------------------------------------------------------
(* begin: from the lock to a run.                                          *)

\* acquire: a lease that has ended is nobody's.
acquire(r, at) == lock[r] <= at

Row(r, by, at, attempt, status) ==
    [routine |-> r, by |-> by, status |-> status, startedAt |-> at,
     finishedAt |-> IF status = "failed" THEN at ELSE 0, attempt |-> attempt]

\* startRun: the row, and the beat it was, unless it is a retry.  beat is when
\* the heartbeat of its execution fires, 0 when nothing executes it yet.
StartRun(r, by, at, attempt, status, beat) ==
    /\ runs' = Append(runs, Row(r, by, at, attempt, status))
    /\ held' = Append(held, beat)
    /\ routine' = IF attempt = 1 /\ routine[r].state # "gone"
                  THEN [routine EXCEPT ![r].lastRunAt = at] ELSE routine

\* Mutant: every run past the notice says so again.
Notice_again(rs, k) ==
    noticed' = IF routine[rs[k].routine].state # "gone" /\ failedInARow(rs, rs[k].routine) >= NoticeAt
               THEN noticed \cup {k} ELSE noticed

\* noticeFailures, on the run k that reaches the notice.
Notice(rs, k) ==
    noticed' = IF routine[rs[k].routine].state # "gone" /\ failedInARow(rs, rs[k].routine) = NoticeAt
               THEN noticed \cup {k} ELSE noticed

\* begin up to its first await.  A prompt or an action is started and
\* executed at once; a workflow's file is read first.
Begin(r, by, at, attempt) ==
    IF ~acquire(r, at) \/ routine[r].state = "gone" \/ ~Room(r)
    THEN UNCHANGED <<routine, runs, lock, begins, held>>
    ELSE /\ lock' = [lock EXCEPT ![r] = at + Lease]
         /\ IF r \in FromFile
            THEN /\ begins' = begins \cup {[routine |-> r, at |-> at, by |-> by, attempt |-> attempt, run |-> 0]}
                 /\ UNCHANGED <<routine, runs, held>>
            ELSE /\ StartRun(r, by, at, attempt, "running", now + Renewal)
                 /\ UNCHANGED begins

TickOf(t) == IF t.due = {} /\ ~t.waits THEN NoTick ELSE t

\* A call of begin returns: the tick that awaited it goes on.
Returns(b, after) ==
    /\ begins' = (begins \ {b}) \cup after
    /\ tick' = IF b.by = "schedule" /\ after = {} THEN TickOf([tick EXCEPT !.waits = FALSE]) ELSE tick

\* tick: what is due, by the rows as they are when the tick begins.
TickBegins ==
    LET due == UNION {{[routine |-> r, attempt |-> f.attempt] : f \in Due(r, now)} :
                        r \in {r \in Routines : Room(r)}}
    IN /\ ~tick.on
       /\ due # {}
       /\ tick' = [at |-> now, due |-> due, waits |-> FALSE, on |-> TRUE]
       /\ UNCHANGED <<now, routine, runs, lock, begins, held, driven, stopping, removing, noticed, naps, events>>

TickFires ==
    /\ tick.on
    /\ ~tick.waits
    /\ \E f \in tick.due :
          /\ Begin(f.routine, "schedule", tick.at, f.attempt)
          /\ tick' = TickOf([tick EXCEPT !.due = @ \ {f}, !.waits = begins' # begins])
    /\ UNCHANGED <<now, driven, stopping, removing, noticed, naps, events>>

\* The API's "run now", of a routine that is not gone.
runNow(r) ==
    /\ Event
    /\ routine[r].state # "gone"
    /\ acquire(r, now)
    /\ Room(r)
    /\ Begin(r, "person", now, 1)
    /\ UNCHANGED <<now, tick, driven, stopping, removing, noticed, naps>>

\* Mutant: a tick that throws stays under way.
ReadThrows_ticking(b) ==
    /\ b.run = 0
    /\ begins' = begins \ {b}
    /\ UNCHANGED <<now, routine, runs, lock, tick, held, driven, stopping, removing, noticed, naps, events>>

\* readWorkflow throws, its folder being unreadable: nothing catches it, and
\* the tick it was read in ends.
ReadThrows(b) ==
    /\ b.run = 0
    /\ begins' = begins \ {b}
    /\ tick' = IF b.by = "schedule" THEN NoTick ELSE tick
    /\ UNCHANGED <<now, routine, runs, lock, held, driven, stopping, removing, noticed, naps, events>>

\* There is no such workflow, or an input is missing.
ReadFails(b) ==
    /\ b.run = 0
    /\ StartRun(b.routine, b.by, b.at, b.attempt, "failed", 0)
    /\ lock' = [lock EXCEPT ![b.routine] = 0]
    /\ Notice(runs', Len(runs'))
    /\ Returns(b, {})
    /\ UNCHANGED <<now, driven, stopping, removing, naps, events>>

\* A file of one task: its run is executed at once, which for a routine that
\* was deleted meanwhile means that it fails.
ReadStarts(b) ==
    LET gone == routine[b.routine].state = "gone"
    IN /\ b.run = 0
       /\ StartRun(b.routine, b.by, b.at, b.attempt, IF gone THEN "failed" ELSE "running",
                   IF gone THEN 0 ELSE now + Renewal)
       /\ lock' = IF gone THEN [lock EXCEPT ![b.routine] = 0] ELSE lock
       /\ Returns(b, {})
       /\ UNCHANGED <<now, driven, stopping, removing, noticed, naps, events>>

\* A file of several tasks: the run's thread is opened first.
ReadOpens(b) ==
    /\ b.run = 0
    /\ StartRun(b.routine, b.by, b.at, b.attempt, "running", 0)
    /\ Returns(b, {[b EXCEPT !.run = Len(runs) + 1]})
    /\ UNCHANGED <<now, lock, driven, stopping, removing, noticed, naps, events>>

------------------------------------------------------------------------------
(* execute and drive.                                                      *)

\* What finishRun writes: nothing, to a row that was deleted.
Finished(k, ending) ==
    IF runs[k].status = "gone" THEN runs
    ELSE [runs EXCEPT ![k].status = ending, ![k].finishedAt = now]

\* finish: the row, the lock, the flag, the notice.
finish(k, ending) ==
    /\ runs' = Finished(k, ending)
    /\ lock' = [lock EXCEPT ![runs[k].routine] = 0]
    /\ held' = [held EXCEPT ![k] = 0]
    /\ stopping' = stopping \ {k}
    /\ Notice(runs', k)

\* The thread is open, or the engine refused it: begin returns the row as it
\* is, and it is executed if it still runs.
ThreadOpens(b) ==
    /\ b.run # 0
    /\ Returns(b, {})
    /\ CASE runs[b.run].status # "running" -> UNCHANGED <<runs, lock, held, stopping, noticed>>
         [] runs[b.run].status = "running" /\ routine[b.routine].state = "gone" -> finish(b.run, "failed")
         [] OTHER -> /\ held' = [held EXCEPT ![b.run] = now + Renewal]
                     /\ UNCHANGED <<runs, lock, stopping, noticed>>
    /\ UNCHANGED <<now, routine, driven, removing, naps, events>>

\* Mutant: the beat renews what is left of the lease, not the lease.
Heartbeat_short(k) ==
    LET r == runs[k].routine
    IN /\ held[k] # 0
       /\ held[k] <= now
       /\ held' = [held EXCEPT ![k] = now + Renewal]
       /\ UNCHANGED <<now, rows, lock, tick, begins, driven, stopping, removing, naps, events>>

\* The heartbeat renews the lease, if there is a row to renew.
Heartbeat(k) ==
    LET r == runs[k].routine
    IN /\ held[k] # 0
       /\ held[k] <= now
       /\ held' = [held EXCEPT ![k] = now + Renewal]
       /\ lock' = IF lock[r] # 0 THEN [lock EXCEPT ![r] = now + Lease] ELSE lock
       /\ UNCHANGED <<now, rows, tick, begins, driven, stopping, removing, naps, events>>

\* An agent of a run asks a person, and its turn waits with its deadline
\* standing still: the run is held inside execute or drive, its heartbeat going
\* on.
holdForRequest(k) ==
    /\ UnattendedGate
    /\ held[k] # 0 \/ k \in driven
    /\ runs[k].status = "running"
    /\ k \notin stopping
    /\ runs' = [runs EXCEPT ![k].status = "request"]
    /\ UNCHANGED <<now, routine, noticed, lock, calls, naps, events>>

\* Somebody answered, or the turn was interrupted by a stop.
releaseRequest(k) ==
    /\ runs[k].status = "request"
    /\ runs' = [runs EXCEPT ![k].status = "running"]
    /\ UNCHANGED <<now, routine, noticed, lock, calls, naps, events>>

\* A run that was asked to stop ends as stopped, whatever it was doing; one
\* that is held for a request is let go first.
RunEnds(k) ==
    /\ held[k] # 0
    /\ runs[k].status # "request"
    /\ \E ending \in (IF k \in stopping THEN {"stopped"} ELSE Endings) : finish(k, ending)
    /\ UNCHANGED <<now, routine, tick, begins, driven, removing, naps, events>>

\* A gate, a budget: the run waits for a person, and the lock is let go.
RunPauses(k) ==
    /\ Pausing
    /\ held[k] # 0
    /\ k \notin stopping
    /\ runs[k].status # "request"
    /\ runs' = IF runs[k].status = "running" THEN [runs EXCEPT ![k].status = "awaiting"] ELSE runs
    /\ lock' = [lock EXCEPT ![runs[k].routine] = 0]
    /\ held' = [held EXCEPT ![k] = 0]
    /\ UNCHANGED <<now, routine, noticed, tick, begins, driven, stopping, removing, naps, events>>

\* approve drives what waits, without the lock; it refuses what is held for a
\* request, which is still driven.
approve(k) ==
    /\ runs[k].status = "awaiting"
    /\ runs' = [runs EXCEPT ![k].status = "running"]
    /\ driven' = driven \cup {k}
    /\ UNCHANGED <<now, routine, noticed, lock, tick, begins, held, stopping, removing, naps, events>>

DriveEnds(k) ==
    /\ k \in driven
    /\ runs[k].status # "request"
    /\ \E ending \in (IF k \in stopping THEN {"stopped", "failed"} ELSE Endings) : runs' = Finished(k, ending)
    /\ driven' = driven \ {k}
    /\ stopping' = stopping \ {k}
    /\ UNCHANGED <<now, routine, noticed, lock, tick, begins, held, removing, naps, events>>

DrivePauses(k) ==
    /\ Pausing
    /\ k \in driven
    /\ k \notin stopping
    /\ runs[k].status # "request"
    /\ runs' = IF runs[k].status = "running" THEN [runs EXCEPT ![k].status = "awaiting"] ELSE runs
    /\ driven' = driven \ {k}
    /\ UNCHANGED <<now, routine, noticed, lock, tick, begins, held, stopping, removing, naps, events>>

------------------------------------------------------------------------------
(* What a person asks for.                                                 *)

\* stopRun of some runs: the flag for what is driven, held for a request or
\* not, the end of what waits.
Stopped(ks) ==
    /\ runs' = [k \in Runs |-> IF k \in ks /\ runs[k].status = "awaiting"
                               THEN [runs[k] EXCEPT !.status = "stopped", !.finishedAt = now] ELSE runs[k]]
    /\ stopping' = stopping \cup {k \in ks : runs[k].status \in {"running", "request"}}

stopRun(k) ==
    /\ Event
    /\ runs[k].status \in Active
    /\ k \notin stopping
    /\ Stopped({k})
    /\ UNCHANGED <<now, routine, noticed, lock, tick, begins, held, driven, removing, naps>>

\* DELETE of a routine: its runs are stopped, which waits for the engine, and
\* then its rows, its runs' and its lock go.
RemoveAsked(r) ==
    /\ Event
    /\ routine[r].state # "gone"
    /\ r \notin removing
    /\ Stopped(RunsOf(runs, r))
    /\ removing' = removing \cup {r}
    /\ UNCHANGED <<now, routine, noticed, lock, tick, begins, held, driven, naps>>

remove(r) ==
    /\ r \in removing
    /\ removing' = removing \ {r}
    /\ routine' = [routine EXCEPT ![r].state = "gone"]
    /\ runs' = [k \in Runs |-> IF runs[k].routine = r THEN [runs[k] EXCEPT !.status = "gone"] ELSE runs[k]]
    /\ lock' = [lock EXCEPT ![r] = 0]
    /\ UNCHANGED <<now, noticed, tick, begins, held, driven, stopping, naps, events>>

setEnabled(r) ==
    /\ Event
    /\ routine[r].state # "gone"
    /\ routine' = [routine EXCEPT ![r].state = IF @ = "on" THEN "off" ELSE "on"]
    /\ UNCHANGED <<now, runs, noticed, lock, calls, naps>>

------------------------------------------------------------------------------
(* Time and the process.                                                   *)

\* Time passes while the host is awake: no timer is overdue, no await too long.
Pass ==
    /\ now < MaxNow
    /\ \A k \in Runs : held[k] # 0 => held[k] > now
    /\ \A b \in begins : now < b.at + Slack
    /\ tick.on => now < tick.at + Slack
    /\ now' = now + 1
    /\ UNCHANGED <<rows, lock, calls, naps, events>>

\* The host sleeps: no timer fires, however long.
Nap ==
    /\ Event
    /\ \E later \in (now + 1) .. MaxNow : now' = later
    /\ naps' = naps + 1
    /\ UNCHANGED <<rows, lock, calls>>

\* The server dies and starts again: recoverRunning fails what was active and
\* deletes every lock.
Restart ==
    /\ Event
    /\ runs' = [k \in Runs |-> IF runs[k].status \in Active
                               THEN [runs[k] EXCEPT !.status = "failed", !.finishedAt = now] ELSE runs[k]]
    /\ lock' = [r \in Routines |-> 0]
    /\ tick' = NoTick
    /\ begins' = {}
    /\ held' = [k \in Runs |-> 0]
    /\ driven' = {}
    /\ stopping' = {}
    /\ removing' = {}
    /\ UNCHANGED <<now, routine, noticed, naps>>

Beginning(b) == ReadThrows(b) \/ ReadFails(b) \/ ReadStarts(b) \/ ReadOpens(b) \/ ThreadOpens(b)
Asked(r)     == runNow(r) \/ RemoveAsked(r) \/ remove(r) \/ setEnabled(r)
Running(k)   == Heartbeat(k) \/ RunEnds(k) \/ RunPauses(k) \/ DriveEnds(k) \/ DrivePauses(k)
                \/ holdForRequest(k) \/ releaseRequest(k) \/ approve(k) \/ stopRun(k)

Next ==
    \/ TickBegins
    \/ TickFires
    \/ \E b \in begins : Beginning(b)
    \/ \E r \in Routines : Asked(r)
    \/ \E k \in Runs : Running(k)
    \/ Pass
    \/ Nap
    \/ Restart

Spec == Init /\ [][Next]_vars

\* The steps that bring an executed run to its end: a run held for a request
\* has none unless it was asked to stop, and of a row that was deleted nobody
\* knows whether its turn waits.
Proceeds(k) ==
    /\ runs[k].status # "gone"
    /\ \/ RunEnds(k)
       \/ RunPauses(k)
       \/ k \in stopping /\ releaseRequest(k)

\* The server's timers go off and what it awaits comes back, the work of a run
\* with it, the commands it starts included.  That an agent's question is ever
\* answered is not promised, nor anything else people do.
FairSpec ==
    /\ Spec
    /\ WF_vars(TickBegins \/ TickFires)
    /\ WF_vars(\E b \in begins : Beginning(b))
    /\ WF_vars(\E k \in Runs : Proceeds(k))
    /\ WF_vars(Pass \/ \E k \in Runs : Heartbeat(k))

------------------------------------------------------------------------------
(* Properties.                                                             *)

\* The calls of begin and of execute that took a routine's lock.
Starting(r)  == {b \in begins : b.routine = r}
Executing(r) == {k \in Runs : held[k] # 0 /\ runs[k].routine = r}

\* "One whose last run still holds its lock is skipped by begin": while the host
\* stays awake, so that the heartbeat renews every lease before it ends, a tick,
\* a person's run now, a retry and the deletion of a routine never have two runs
\* of it started or executed at once.
OneAtATime ==
    naps = 0 =>
        \A r \in Routines :
            /\ Cardinality(Starting(r)) + Cardinality(Executing(r)) <= 1
            /\ Starting(r) \cup Executing(r) # {} => lock[r] > now \/ routine[r].state = "gone"

\* A run that started before k and ended well when k had failed already: it
\* parts the failures that were counted together when k was told.
PartedSince(k) ==
    \E s \in RunsOf(runs, runs[k].routine) :
        runs[s].status = "success" /\ Newer(runs, k, s) /\ runs[s].finishedAt >= runs[k].finishedAt

\* "Once per streak, on the run that reaches the notice": however ticks, retries,
\* restarts and runs approved late interleave, of the runs that make a routine's
\* streak at most one was told of, unless a run that started before them ended
\* well after one of them had failed.
NoticeOncePerStreak ==
    \A r \in Routines : \A j, k \in Streak(runs, r) \cap noticed :
        j # k => PartedSince(j) \/ PartedSince(k)

\* While the host stays awake, two beats of one routine are a period apart, by
\* the time each is said to have started, though retries, late ticks and restarts come between.
BeatsAreApart ==
    naps = 0 => \A j, k \in Runs :
        (/\ j < k
         /\ runs[j].routine = runs[k].routine
         /\ runs[j].by = "schedule" /\ runs[k].by = "schedule"
         /\ runs[j].attempt = 1 /\ runs[k].attempt = 1)
        => runs[k].startedAt >= runs[j].startedAt + Every[runs[j].routine]

\* A run that holds a routine's lock for as long as nobody answers its agent.
WaitsOnAnswer(r) ==
    lock[r] > now /\ \E k \in Executing(r) : runs[k].status = "request" /\ k \notin stopping

\* The bound on time: a lease that a read that threw left behind has none left
\* to lapse in.
OutOfTime(r) == now = MaxNow /\ lock[r] > now /\ Starting(r) = {} /\ Executing(r) = {}

\* A routine that catches up fires what is due as soon as its lock is free: a
\* beat missed while another run held the lock or the host slept, or lost with
\* a read that threw, is not forgotten, unless the routine is switched off or
\* removed.  Only an agent that asks a person can keep the lock: the beat then
\* waits for the answer or for a stop, which may never come.
DueFires ==
    \A r \in Routines \ Skips :
        Due(r, now) # {} ~> \/ Due(r, now) = {}
                            \/ WaitsOnAnswer(r)
                            \/ ~Room(r)
                            \/ OutOfTime(r)

===============================================================================
