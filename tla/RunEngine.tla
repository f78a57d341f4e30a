------------------------------ MODULE RunEngine ------------------------------
(***************************************************************************)
(* One run of the harness server, from the thread it opens to the status   *)
(* it ends with: the task loop of runner.ts and the calls of scheduler.ts  *)
(* that start it, let it through, stop it and pick it up again.            *)
(*                                                                         *)
(* The server is one JavaScript process, so what runs between two awaits   *)
(* is one action here.  A driver is one activation of drive(): the loop of *)
(* runGraph over its own RunContext.  A body is one call of runTask, cut   *)
(* at the awaits during which something else may happen: its turn, the     *)
(* auditor's judgement, the closing note and the checkpoint.  The rows of  *)
(* the database are "run" and "tasks"; all else dies with the process.     *)
(***************************************************************************)
EXTENDS RunGraph

CONSTANTS
    Plans,          \* the task lists a run may be started with
    Drivers,        \* bound: activations of drive() at one time
    Concurrency,    \* RUN_CONCURRENCY
    NearPolicy,     \* what the policy does near a budget, from {"serial", "gate"}
    UnattendedGate, \* unattended: "gate" holds the run for a person, "deny" fails the task
    Budgeted,       \* whether a budget covers the run
    MissingFolder,  \* whether an external task's folder may be gone
    Calls,          \* what a person asks of the run
    Callers,        \* bound: resumes under way at one time
    MaxTasks,       \* bound: rows a person's calls may bring the run to
    MaxSteps,       \* bound: steps of a foreach plan
    MaxCrashes      \* bound: restarts of the server

ASSUME EngineAssumption ==
    /\ Plans # {} /\ \A p \in Plans : p \in Seq(TaskRows) /\ p # <<>>
    /\ \A p \in Plans : \A t \in DOMAIN p : p[t].status = "queued" /\ ~p[t].started
    /\ IsFiniteSet(Drivers) /\ Drivers # {} /\ IsFiniteSet(Callers)
    /\ Concurrency \in Nat \ {0}
    /\ NearPolicy \subseteq {"serial", "gate"}
    /\ UnattendedGate \in BOOLEAN /\ Budgeted \in BOOLEAN /\ MissingFolder \in BOOLEAN
    /\ Calls \subseteq {"approve", "stop", "cancel", "retry", "resume"}
    /\ MaxTasks \in Nat /\ MaxSteps \in Nat /\ MaxCrashes \in Nat

VARIABLES
    run,       \* the run's row
    tasks,     \* its task rows, by position
    drivers,   \* each driver's RunContext and where its loop stands
    bodies,    \* the tasks being executed
    opening,   \* whether openThread is still waiting for the engine
    stopping,  \* whether the run is in the scheduler's stopping set
    crossed,   \* whether it is in the scheduler's overBudget map
    spend,     \* where the ledger stands against the run's budget
    resumes,   \* what each caller's resume will put back, while it restores the folder
    passed,    \* history: gated tasks a person has let the run past
    crashes    \* restarts so far

rows   == <<run, tasks>>
memory == <<drivers, bodies, opening, stopping, crossed, resumes>>
vars   == <<rows, memory, spend, passed, crashes>>

Pauses == {"none", "gate", "budget", "threshold", "request"}
Stages == {"turn", "judge", "note", "close", "cut"}

\* A RunContext, and the loop over it: "loop" is about to go round, "wait"
\* is at Promise.race, "left" has returned.
Off == [pc |-> "left", approved |-> FALSE, near |-> FALSE, pause |-> "none",
        failure |-> FALSE, halted |-> FALSE, notes |-> {}, waiting |-> {}]

NoResume == [open |-> FALSE, fresh |-> {}, anew |-> {}]

RunRows == [status : {"running", "awaiting", "success", "failed", "stopped"}, paused : Pauses,
            overBudget : BOOLEAN, approved : BOOLEAN, near : BOOLEAN]

Contexts(D) == [pc : {"loop", "wait", "left"}, approved : BOOLEAN, near : BOOLEAN,
                pause : Pauses \ {"request"}, failure : BOOLEAN, halted : BOOLEAN,
                notes : SUBSET D, waiting : SUBSET D]

BodyRows(D)   == [drv : Drivers, task : D, stage : Stages]
ResumeRows(D) == [open : BOOLEAN, fresh : SUBSET D, anew : SUBSET D]

TypeOK ==
    /\ run \in RunRows
    /\ tasks \in Seq(TaskRows)
    /\ drivers \in [Drivers -> Contexts(DOMAIN tasks)]
    /\ bodies \subseteq BodyRows(DOMAIN tasks)
    /\ opening \in BOOLEAN /\ stopping \in BOOLEAN /\ crossed \in BOOLEAN
    /\ spend \in {"low", "near", "over"}
    /\ resumes \in [Callers -> ResumeRows(DOMAIN tasks)]
    /\ passed \subseteq DOMAIN tasks
    /\ crashes \in Nat

Init ==
    /\ run = [status |-> "running", paused |-> "none", overBudget |-> FALSE,
              approved |-> FALSE, near |-> FALSE]
    /\ tasks \in Plans
    /\ drivers = [d \in Drivers |-> Off]
    /\ bodies = {}
    /\ opening = TRUE
    /\ stopping = FALSE
    /\ crossed = FALSE
    /\ spend = "low"
    /\ resumes = [p \in Callers |-> NoResume]
    /\ passed = {}
    /\ crashes = 0

------------------------------------------------------------------------------
(* Rows.                                                                   *)

Active == run.status \in {"running", "awaiting"}

\* finishTask and setTaskVerdict.
Finish(ts, S, st)      == [t \in DOMAIN ts |-> IF t \in S THEN [ts[t] EXCEPT !.status = st] ELSE ts[t]]
Judged(ts, t, v, by)   == [ts EXCEPT ![t].verdict = v, ![t].by = by]
Begin(ts, S)           == [t \in DOMAIN ts |->
                             IF t \in S THEN [ts[t] EXCEPT !.status = "running", !.started = TRUE]
                                        ELSE ts[t]]

\* Mutant: whatever did not come to a good end is called off, settled or not.
CallOff_all(ts) == Finish(ts, {t \in DOMAIN ts : ts[t].status \notin {"running", "success"}}, "stopped")

CallOff(ts) == Finish(ts, With(ts, "queued"), "stopped")

\* setPaused: a reason, and the budget's words or none.
Paused(r, why, over) == [r EXCEPT !.paused = why, !.overBudget = over]

\* The first k members of a set of positions, and its k-th.
FirstOf(S, k) == {t \in S : Cardinality({u \in S : u < t}) < k}
KthOf(S, k)   == CHOOSE t \in S : Cardinality({u \in S : u < t}) = k - 1

------------------------------------------------------------------------------
(* A driver.                                                               *)

\* The loop goes round before anything else can happen to the process.
Quiet == \A d \in Drivers : drivers[d].pc # "loop"

Mine(d) == {b \in bodies : b.drv = d}
Free    == {d \in Drivers : drivers[d].pc = "left" /\ Mine(d) = {}}

\* Mutant: the notes of what is finished are not read back.
Entered_empty(r, ts) == [Off EXCEPT !.pc = "loop", !.approved = r.approved, !.near = r.near]

\* drive and runGraph up to the loop: the run as it is now, and what the
\* finished tasks handed on read back (rehydrate).
Entered(r, ts) ==
    [Off EXCEPT !.pc = "loop", !.approved = r.approved, !.near = r.near,
                !.notes = With(ts, "success")]

Drive(r, ts) == \E d \in Free : drivers' = [drivers EXCEPT ![d] = Entered(r, ts)]

\* Mutant: only the halt says that the budget is spent.
AtBudget_halted(c) == c.pause = "budget" \/ (~c.approved /\ crossed)

\* Mutant: what the ledger said of a budget as it halted the run is trusted to
\* stand on the row still.
HeldAtBudget_said(c, r) ==
    IF c.pause # "budget" /\ ~c.approved /\ spend = "over" /\ ~crossed
    THEN Paused(r, "budget", TRUE) ELSE r

\* pauseForBudget: the driver's copy of budgetApproved decides, and a budget
\* already said is not said again.
AtBudget(c)         == c.pause = "budget" \/ (~c.approved /\ (crossed \/ spend = "over"))
PausedAtBudget(c)   == IF AtBudget(c) THEN [c EXCEPT !.pause = "budget"] ELSE c
HeldAtBudget(c, r)  == IF AtBudget(c) /\ c.pause # "budget" THEN Paused(r, "budget", TRUE) ELSE r

\* reactNearBudget: once per run, and a gate when agent work is left.
Nears(c)     == ~c.near /\ ~c.approved /\ spend = "near" /\ NearPolicy # {}
NearGate(ts) == "gate" \in NearPolicy /\ \E t \in With(ts, "queued") : ts[t].kind = "agent"

\* The end of runGraph and of drive: what the run's row says afterwards.
\* finishRun forgets the scheduler's flags; awaitRun moves only a running run.
Leave(d, c, ts, r) ==
    LET ending == IF c.failure /\ ~stopping THEN "failed"
                  ELSE IF stopping \/ c.halted THEN "stopped"
                  ELSE IF c.pause # "none" THEN "awaiting" ELSE "success"
    IN /\ drivers' = [drivers EXCEPT ![d] = Off]
       /\ tasks' = IF ending = "stopped" /\ ~stopping THEN CallOff(ts) ELSE ts
       /\ run' = IF ending = "awaiting" /\ r.status # "running" THEN r
                 ELSE [r EXCEPT !.status = ending]
       /\ stopping' = (stopping /\ ending = "awaiting")
       /\ crossed' = (crossed /\ ending = "awaiting")

\* Or the loop waits on whichever of its tasks settles first.
Wait(d, c, ts, r) ==
    /\ drivers' = [drivers EXCEPT ![d] = [c EXCEPT !.pc = "wait"]]
    /\ tasks' = ts
    /\ run' = r
    /\ UNCHANGED <<stopping, crossed>>

\* Stopped: queued work is called off, and what is in flight is waited for.
LoopStopped(d) ==
    /\ drivers[d].pc = "loop"
    /\ stopping
    /\ IF Mine(d) = {} THEN Leave(d, drivers[d], CallOff(tasks), run)
                       ELSE Wait(d, drivers[d], CallOff(tasks), run)
    /\ UNCHANGED <<bodies, opening, spend, resumes, passed, crashes>>

\* Nothing queued: the run is over when nothing is in flight either.
LoopDrained(d) ==
    /\ drivers[d].pc = "loop"
    /\ ~stopping
    /\ With(tasks, "queued") = {}
    /\ IF Mine(d) = {} THEN Leave(d, drivers[d], tasks, run)
                       ELSE Wait(d, drivers[d], tasks, run)
    /\ UNCHANGED <<bodies, opening, spend, resumes, passed, crashes>>

\* One walk over the queue: everything that may start does, up to the ceiling
\* and the first task to be skipped.  A skip or a foreach sends it round again.
LoopPass(d) ==
    LET old    == drivers[d]
        nears  == ~AtBudget(old) /\ Nears(old)
        gates  == nears /\ NearGate(tasks)
        c      == [PausedAtBudget(old) EXCEPT !.near = @ \/ nears,
                                              !.pause = IF gates THEN "threshold" ELSE @]
        held   == [HeldAtBudget(old, run) EXCEPT !.near = @ \/ nears]
        r      == IF gates THEN Paused(held, "threshold", FALSE) ELSE held
        room   == IF c.near /\ "serial" \in NearPolicy THEN 1 ELSE Concurrency
        free   == IF c.failure \/ c.halted \/ c.pause # "none" \/ Cardinality(Mine(d)) >= room
                  THEN 0 ELSE room - Cardinality(Mine(d))
        decided(what) == {t \in With(tasks, "queued") : Decide(tasks, t) = what}
        skips  == decided("skip")
        ready  == {t \in decided("run") : \A s \in skips : t < s}
        skip   == IF skips # {} /\ Cardinality(ready) < free THEN {Oldest(skips)} ELSE {}
        start  == FirstOf(ready, free)
        plans  == {t \in start : tasks[t].foreach # ""}
        walked == Finish(Finish(Begin(tasks, start), plans, "success"), skip, "skipped")
    IN /\ drivers[d].pc = "loop"
       /\ ~stopping
       /\ With(tasks, "queued") # {}
       /\ bodies' = bodies \cup {[drv |-> d, task |-> t, stage |-> "turn"] : t \in start \ plans}
       /\ \E steps \in 0 .. (IF plans = {} THEN 0 ELSE MaxSteps) :
             LET ts == walked \o [k \in 1 .. steps |-> StepOf(tasks[Oldest(plans)])]
             IN IF plans \cup skip # {}
                THEN /\ drivers' = [drivers EXCEPT ![d] = c]
                     /\ tasks' = ts
                     /\ run' = r
                     /\ UNCHANGED <<stopping, crossed>>
                ELSE IF Mine(d) = {} /\ start = {} THEN Leave(d, c, ts, r)
                ELSE Wait(d, c, ts, r)
       /\ UNCHANGED <<opening, spend, resumes, passed, crashes>>

Loop(d) == LoopStopped(d) \/ LoopDrained(d) \/ LoopPass(d)

------------------------------------------------------------------------------
(* A task's body.                                                          *)

elsewhere == <<opening, stopping, crossed, spend, resumes, passed, crashes>>

\* The task's promise settles, and its driver's loop goes round.
Settles(b, c, ts, r) ==
    /\ bodies' = bodies \ {b}
    /\ drivers' = [drivers EXCEPT ![b.drv] = [c EXCEPT !.pc = IF @ = "wait" THEN "loop" ELSE @]]
    /\ tasks' = ts
    /\ run' = r
    /\ UNCHANGED elsewhere

\* The body goes on to its next await.
GoesOn(b, stage, c, ts, r) ==
    /\ bodies' = (bodies \ {b}) \cup {[b EXCEPT !.stage = stage]}
    /\ drivers' = [drivers EXCEPT ![b.drv] = c]
    /\ tasks' = ts
    /\ run' = r
    /\ UNCHANGED elsewhere

At(b, stage)  == b.stage = stage /\ Quiet
InTurn(b, ks) == At(b, "turn") /\ tasks[b.task].kind \in ks

\* waitingOnPerson(false), which every end of a turn calls: the last task
\* that waited lets the run go, if it is held for a request.
After(b)    == [drivers[b.drv] EXCEPT !.waiting = @ \ {b.task}]
Released(b) ==
    IF drivers[b.drv].waiting = {b.task} /\ run.status = "awaiting" /\ run.paused = "request"
    THEN [run EXCEPT !.status = "running", !.paused = "none"] ELSE run

\* The session asks a person something; the run is held while any does.
Ask(b) ==
    LET c == drivers[b.drv]
    IN /\ InTurn(b, {"agent"})
       /\ UnattendedGate
       /\ b.task \notin c.waiting
       /\ drivers' = [drivers EXCEPT ![b.drv].waiting = @ \cup {b.task}]
       /\ run' = IF c.waiting = {} /\ run.status = "running"
                 THEN [run EXCEPT !.status = "awaiting", !.paused = "request"] ELSE run
       /\ UNCHANGED <<tasks, bodies, elsewhere>>

\* The person answers in the engine.
Answered(b) ==
    /\ InTurn(b, {"agent"})
    /\ b.task \in drivers[b.drv].waiting
    /\ drivers' = [drivers EXCEPT ![b.drv] = After(b)]
    /\ run' = Released(b)
    /\ UNCHANGED <<tasks, bodies, elsewhere>>

\* Mutants: what a command or a recipe failed at does not end the run, and a
\* failure is not judged.
TurnFails_quietly(b) ==
    LET kind   == tasks[b.task].kind
        judged == kind \in {"agent", "verify"}
        off    == judged /\ stopping
        done   == Finish(tasks, {b.task}, IF off THEN "stopped" ELSE "failed")
    IN /\ InTurn(b, Kinds)
       /\ Settles(b, [After(b) EXCEPT !.failure = @ \/ (judged /\ ~off)],
                  IF judged /\ ~off THEN Judged(done, b.task, "failed", "rule") ELSE done, Released(b))

TurnFails_unjudged(b) ==
    LET off == tasks[b.task].kind \in {"agent", "verify"} /\ stopping
    IN /\ InTurn(b, Kinds)
       /\ Settles(b, [After(b) EXCEPT !.failure = @ \/ ~off],
                  Finish(tasks, {b.task}, IF off THEN "stopped" ELSE "failed"), Released(b))

\* The turn throws, runs past its limit, is refused, or its command fails.
\* Only agents and checks read the stop on this path; only they are judged.
TurnFails(b) ==
    LET kind   == tasks[b.task].kind
        judged == kind \in {"agent", "verify"}
        off    == judged /\ stopping
        done   == Finish(tasks, {b.task}, IF off THEN "stopped" ELSE "failed")
        why    == {"failed"} \cup (IF kind = "agent" /\ ~UnattendedGate THEN {"needs-user"} ELSE {})
    IN /\ InTurn(b, Kinds)
       /\ \E v \in why :
             Settles(b, [After(b) EXCEPT !.failure = @ \/ ~off],
                     IF judged /\ ~off THEN Judged(done, b.task, v, "rule") ELSE done, Released(b))

\* The turn was stopped with the run.
TurnStops(b) ==
    /\ InTurn(b, {"agent", "external"})
    /\ stopping
    /\ Settles(b, After(b), Finish(tasks, {b.task}, "stopped"), Released(b))

\* The person closed the browser an action was driving.
TurnHalts(b) ==
    /\ InTurn(b, {"action"})
    /\ Settles(b, [After(b) EXCEPT !.halted = TRUE], Finish(tasks, {b.task}, "stopped"), run)

\* The turn ended with its run over a budget: the task fails for it, and the
\* folder as it was left is kept before the run is paused.
TurnCut(b) ==
    /\ InTurn(b, {"agent"})
    /\ crossed /\ ~stopping
    /\ GoesOn(b, "cut", After(b),
              [Judged(Finish(tasks, {b.task}, "failed"), b.task, "failed", "rule")
                  EXCEPT ![b.task].cut = TRUE],
              Released(b))

\* The turn ended well.  An agent's answer is judged next; what a command
\* printed or a recipe returned is handed on as it is.
TurnSucceeds(b) ==
    \/ /\ InTurn(b, {"agent"})
       /\ ~stopping /\ ~crossed
       /\ GoesOn(b, "judge", After(b), Finish(tasks, {b.task}, "success"), Released(b))
    \/ /\ InTurn(b, {"external", "action"})
       /\ GoesOn(b, "close", [After(b) EXCEPT !.notes = @ \cup {b.task}],
                 Finish(tasks, {b.task},
                        IF stopping /\ tasks[b.task].kind = "action" THEN "stopped" ELSE "success"),
                 run)

\* Mutant: a loop that rejects leaves the run's row as it is.
TurnBreaks_unsaid(b) ==
    /\ InTurn(b, {"external"})
    /\ MissingFolder
    /\ bodies' = bodies \ {b}
    /\ drivers' = [drivers EXCEPT ![b.drv].pc = "left"]
    /\ UNCHANGED <<rows, opening, stopping, crossed, spend, resumes, passed, crashes>>

\* An external command in a folder that is gone: runExternal rejects, nothing
\* catches it, and the loop's race rejects with it.
TurnBreaks(b) ==
    /\ InTurn(b, {"external"})
    /\ MissingFolder
    /\ bodies' = bodies \ {b}
    /\ drivers' = [drivers EXCEPT ![b.drv].pc = "left"]
    /\ IF drivers[b.drv].pc = "left" THEN UNCHANGED <<run, stopping, crossed>>
       ELSE run' = [run EXCEPT !.status = "failed"] /\ stopping' = FALSE /\ crossed' = FALSE
    /\ UNCHANGED <<tasks, opening, spend, resumes, passed, crashes>>

\* Mutant: a verdict only ever gets worse.
Speaks_worse(v, about) == Badness(v) > Badness(about)

\* Whether a check's verdict speaks for the work it checked: a failure always
\* does, a better one only lifts work nobody judged or nobody could verify.
Speaks(v, about) ==
    \/ v = "failed"
    \/ about \in {"none", "unverified"}
    \/ Badness(v) > Badness(about)

\* scheduleRetry: a failed check sends its work back while it has tries left.
MayRetry(ts, v) == ts[v].retries > 0 /\ CheckedTask(ts, v) # 0

\* The project's own commands, and a look at the page, came to something.
CheckEnds(b, ok, v) ==
    LET t     == b.task
        done  == Finish(tasks, {t}, IF stopping THEN "stopped" ELSE IF ok THEN "success" ELSE "failed")
        own   == Judged(done, t, v, "check")
        work  == CheckedTask(tasks, t)
        ts    == IF stopping THEN done
                 ELSE IF work # 0 /\ Speaks(v, tasks[work].verdict) THEN Judged(own, work, v, "check")
                 ELSE own
        c     == [After(b) EXCEPT !.notes = @ \cup {t}]
    IN /\ InTurn(b, {"verify"})
       /\ IF AtBudget(c) THEN Settles(b, PausedAtBudget(c), ts, HeldAtBudget(c, run))
          ELSE IF ok \/ stopping THEN GoesOn(b, "close", c, ts, run)
          ELSE IF MayRetry(tasks, t)
               THEN Settles(b, c, ts \o RetryPair(tasks, work, t), run)
          ELSE Settles(b, [c EXCEPT !.failure = @ \/ ~ExpectsFailure(tasks, tasks[t].name)], ts, run)

\* A page that changed, or a look that could not be taken, is not "verified".
Check(b) ==
    \/ CheckEnds(b, FALSE, "failed")
    \/ \E v \in {"verified"} \cup (IF tasks[b.task].visual THEN {"unverified", "needs-user"} ELSE {}) :
          CheckEnds(b, TRUE, v)

\* The rule and the auditor have judged the answer; then the budget, and a
\* closing note is only spent on a run that goes on.
Judge(b) ==
    LET c == drivers[b.drv]
    IN /\ At(b, "judge")
       /\ \E v \in {"unverified", "needs-user", "failed"} :
             LET ts == Judged(tasks, b.task, v, "rule")
             IN IF stopping THEN Settles(b, c, ts, run)
                ELSE IF AtBudget(c) THEN Settles(b, PausedAtBudget(c), ts, HeldAtBudget(c, run))
                ELSE GoesOn(b, "note", c, ts, run)

\* The closing note is written, and handed to whatever starts next.
Note(b) ==
    /\ At(b, "note")
    /\ GoesOn(b, "close", [drivers[b.drv] EXCEPT !.notes = @ \cup {b.task}], tasks, run)

\* Mutant: the gate holds the row and not the loop.
Close_unheld(b) ==
    /\ At(b, "close")
    /\ Settles(b, drivers[b.drv], tasks,
               IF tasks[b.task].gate /\ ~stopping THEN Paused(run, "gate", FALSE) ELSE run)

\* afterTask: the checkpoint is taken, and a gate holds the run.
Close(b) ==
    LET gates == tasks[b.task].gate /\ ~stopping
    IN /\ At(b, "close")
       /\ Settles(b, IF gates THEN [drivers[b.drv] EXCEPT !.pause = "gate"] ELSE drivers[b.drv], tasks,
                  IF gates THEN Paused(run, "gate", FALSE) ELSE run)

\* The folder of a turn cut at its budget is kept, and the run waits there.
CloseCut(b) ==
    /\ At(b, "cut")
    /\ Settles(b, PausedAtBudget(drivers[b.drv]), tasks, HeldAtBudget(drivers[b.drv], run))

TurnEnds(b) == \/ TurnFails(b) \/ TurnStops(b) \/ TurnHalts(b) \/ TurnCut(b)
               \/ TurnSucceeds(b) \/ TurnBreaks(b) \/ Check(b)
GoOn(b)     == Judge(b) \/ Note(b) \/ Close(b) \/ CloseCut(b)
Body(b)     == Ask(b) \/ Answered(b) \/ TurnEnds(b) \/ GoOn(b)

------------------------------------------------------------------------------
(* What the scheduler is asked.                                            *)

Asked(call) == call \in Calls /\ Quiet

\* A person letting the run on answers for the gates it stands at.
Gated(ts) == {t \in With(ts, "success") : ts[t].gate}

\* runTasks once openThread is back from the engine.
OpenThread ==
    /\ opening /\ Quiet
    /\ opening' = FALSE
    /\ Drive(run, tasks)
    /\ UNCHANGED <<rows, bodies, stopping, crossed, spend, resumes, passed, crashes>>

\* approve: past a budget, the budget is checked no more and what it cut is
\* done again.
Approve ==
    LET over == run.paused = "budget"
        cut  == {t \in With(tasks, "failed") : tasks[t].cut /\ run.overBudget}
        ts   == IF over THEN tasks \o [k \in 1 .. Cardinality(cut) |-> AgainOf(tasks, KthOf(cut, k))]
                        ELSE tasks
        r    == [IF over THEN [Paused(run, "none", FALSE) EXCEPT !.approved = TRUE] ELSE run
                   EXCEPT !.status = "running"]
    IN /\ Asked("approve")
       /\ run.status = "awaiting" /\ run.paused # "request"
       /\ run' = r
       /\ tasks' = ts
       /\ Drive(r, ts)
       /\ crossed' = (crossed /\ ~over)
       /\ passed' = IF run.paused \in {"gate", "none"} THEN passed \cup Gated(tasks) ELSE passed
       /\ UNCHANGED <<bodies, opening, stopping, spend, resumes, crashes>>

\* Mutant: a run that ended stays so.
Reopened_never(r) == r

\* reopenRun.
Reopened(r) == IF r.status \in {"running", "awaiting"} THEN r ELSE [r EXCEPT !.status = "running"]

\* Mutant: a run that had ended is reopened and nobody drives it.
Retry_undriven(t) ==
    /\ Asked("retry")
    /\ run.status # "awaiting"
    /\ Len(tasks) < MaxTasks
    /\ tasks' = Append(tasks, RetryOf(tasks, t))
    /\ run' = Reopened(run)
    /\ UNCHANGED <<memory, spend, passed, crashes>>

\* retryTask: a new attempt on the same run, reopened if it had ended.
Retry(t) ==
    LET ts == Append(tasks, RetryOf(tasks, t))
        r  == Reopened(run)
    IN /\ Asked("retry")
       /\ run.status # "awaiting"
       /\ Len(tasks) < MaxTasks
       /\ tasks' = ts
       /\ run' = r
       /\ IF run.status = "running" THEN UNCHANGED <<drivers, passed>>
          ELSE Drive(r, ts) /\ passed' = passed \cup Gated(tasks)
       /\ UNCHANGED <<bodies, opening, stopping, crossed, spend, resumes, crashes>>

\* Mutant: a task may be taken off the run while it is being worked on.
Cancel_running(t) ==
    /\ Asked("cancel")
    /\ tasks[t].status \in {"queued", "running"}
    /\ tasks' = Finish(tasks, {t}, "stopped")
    /\ UNCHANGED <<run, memory, spend, passed, crashes>>

\* cancelTask.
Cancel(t) ==
    /\ Asked("cancel")
    /\ tasks[t].status = "queued"
    /\ tasks' = Finish(tasks, {t}, "stopped")
    /\ UNCHANGED <<run, memory, spend, passed, crashes>>

\* Mutants: a run held for an answer is finished under its driver, or a run
\* nobody drives is only flagged.
Stop_held ==
    /\ Asked("stop")
    /\ run.status = "awaiting"
    /\ run' = [run EXCEPT !.status = "stopped"]
    /\ UNCHANGED <<tasks, memory, spend, passed, crashes>>

Stop_flagged ==
    /\ Asked("stop")
    /\ Active /\ ~stopping
    /\ stopping' = TRUE
    /\ UNCHANGED <<rows, drivers, bodies, opening, crossed, resumes, spend, passed, crashes>>

\* stopRun: a run nobody drives is finished here; any other is flagged, its
\* live sessions are interrupted, and its driver finishes it.
Stop ==
    /\ Asked("stop")
    /\ \/ /\ run.status = "awaiting" /\ run.paused # "request"
          /\ run' = [run EXCEPT !.status = "stopped"]
          /\ stopping' = FALSE
          /\ crossed' = FALSE
       \/ /\ run.status = "running" \/ (run.status = "awaiting" /\ run.paused = "request")
          /\ ~stopping
          /\ stopping' = TRUE
          /\ UNCHANGED <<run, crossed>>
    /\ UNCHANGED <<tasks, drivers, bodies, opening, spend, resumes, passed, crashes>>

\* What a resume from a task puts back: rows that never ran as themselves,
\* rows that did as new attempts.
Plan(from) ==
    LET again == Again(tasks, from)
    IN [open |-> TRUE, fresh |-> {t \in again : ~tasks[t].started},
                       anew  |-> {t \in again : tasks[t].started}]

\* The second half of resume: requeueTasks, addTasks, reopenRun, drive.
PutBack(plan) ==
    LET back == {t \in plan.fresh : ~tasks[t].started /\ tasks[t].status \in {"failed", "stopped", "skipped"}}
        ts   == [t \in DOMAIN tasks |->
                    IF t \in back
                    THEN [tasks[t] EXCEPT !.status = "queued", !.verdict = "none", !.by = "none", !.cut = FALSE]
                    ELSE tasks[t]]
                \o [k \in 1 .. Cardinality(plan.anew) |-> AgainOf(tasks, KthOf(plan.anew, k))]
        r    == Reopened(run)
    IN /\ Len(ts) <= MaxTasks
       /\ tasks' = ts
       /\ run' = r
       /\ Drive(r, ts)
       /\ passed' = passed \cup Gated(tasks)
       /\ UNCHANGED <<bodies, opening, stopping, crossed, spend, crashes>>

\* resume: decided on the run as it is now; a folder to put back is restored
\* before anything else, and the run is read again only after that.
Resume(p, from) ==
    /\ Asked("resume")
    /\ ~Active
    /\ from # 0 => MayStartFrom(tasks, from)
    /\ RunsAgain(tasks, from) # {}
    /\ ~resumes[p].open
    /\ IF RestoresFolder(tasks, from)
       THEN /\ resumes' = [resumes EXCEPT ![p] = Plan(from)]
            /\ UNCHANGED <<rows, drivers, bodies, opening, stopping, crossed, spend, passed, crashes>>
       ELSE PutBack(Plan(from)) /\ UNCHANGED resumes

\* The folder is restored, or could not be.
Restored(p) ==
    /\ Asked("resume")
    /\ resumes[p].open
    /\ resumes' = [resumes EXCEPT ![p] = NoResume]
    /\ PutBack(resumes[p])

RestoreFails(p) ==
    /\ Asked("resume")
    /\ resumes[p].open
    /\ resumes' = [resumes EXCEPT ![p] = NoResume]
    /\ UNCHANGED <<rows, drivers, bodies, opening, stopping, crossed, spend, passed, crashes>>

\* The ledger stores what was spent; checkBudgets halts a run that is going
\* and that nobody let past its budget.
Spend(level) ==
    LET halts == level = "over" /\ run.status = "running" /\ ~run.approved /\ ~crossed /\ ~stopping
    IN /\ Budgeted /\ Quiet
       /\ \/ spend = "low" /\ level \in {"near", "over"}
          \/ spend = "near" /\ level = "over"
          \/ spend = "over" /\ level = "over" /\ halts
       /\ spend' = level
       /\ crossed' = (crossed \/ halts)
       /\ run' = IF halts THEN Paused(run, "budget", TRUE) ELSE run
       /\ UNCHANGED <<tasks, drivers, bodies, opening, stopping, resumes, passed, crashes>>

\* The process dies, and the next one recovers: recoverRunning and
\* requeueActiveTasks.
Crash ==
    /\ crashes < MaxCrashes
    /\ crashes' = crashes + 1
    /\ run' = IF Active THEN [run EXCEPT !.status = "failed"] ELSE run
    /\ tasks' = Finish(tasks, With(tasks, "running"), "queued")
    /\ drivers' = [d \in Drivers |-> Off]
    /\ bodies' = {}
    /\ opening' = FALSE
    /\ stopping' = FALSE
    /\ crossed' = FALSE
    /\ resumes' = [p \in Callers |-> NoResume]
    /\ UNCHANGED <<spend, passed>>

Resuming == \E p \in Callers :
    Restored(p) \/ RestoreFails(p) \/ \E from \in 0 .. Len(tasks) : Resume(p, from)

Request == \/ Approve \/ Stop \/ Resuming
           \/ \E t \in DOMAIN tasks : Retry(t) \/ Cancel(t)

\* A run that is over, or waits on a person, stays so for as long as nobody
\* asks anything more of it.
Rest == run.status # "running" /\ bodies = {} /\ Quiet /\ UNCHANGED vars

Next ==
    \/ \E d \in Drivers : Loop(d)
    \/ \E b \in bodies : Body(b)
    \/ OpenThread \/ Request \/ Crash \/ Rest
    \/ \E level \in {"near", "over"} : Spend(level)

Spec == Init /\ [][Next]_vars

\* The process goes on: the loop goes round, the engine answers, a turn ends
\* by itself, at its thirty minutes or at the stop it polls for (waitForIdle),
\* and what follows a turn is bounded work.  A turn that waits on a person may
\* wait for ever, unless the run is stopped.
TurnMustEnd(b) == (b.task \notin drivers[b.drv].waiting \/ stopping) /\ TurnEnds(b)

Fairness ==
    /\ []<>Quiet \/ []<><<\E d \in Drivers : Loop(d)>>_vars
    /\ WF_vars(OpenThread)
    /\ \A t \in 1 .. MaxTasks :
          WF_vars(\E b \in bodies : b.task = t /\ (TurnMustEnd(b) \/ GoOn(b)))

FairSpec == Spec /\ Fairness

------------------------------------------------------------------------------
(* What holds however the calls interleave.                                *)

\* A row says "running" exactly while one body is in its turn, whoever drives
\* the run and however often it is picked up: no task is executed twice at a
\* time, and none is left running with nobody behind it.
BodiesMatchRows ==
    /\ \A b, c \in bodies : b.task = c.task => b = c
    /\ \A t \in DOMAIN tasks :
          tasks[t].status = "running" <=> \E b \in bodies : b.task = t /\ b.stage = "turn"

\* A run that says it is running has somebody to finish it: no interleaving
\* of pauses, answers, retries and restarts loses the driver.
RunningIsDriven ==
    run.status = "running" => opening \/ \E d \in Drivers : drivers[d].pc # "left"

\* An attempt that ran keeps how it ended for good: retries, resumes and
\* restarts add rows, they never rewrite one that has output to lose.
SettledRowsStay ==
    [][\A t \in DOMAIN tasks :
          /\ t \in DOMAIN tasks'
          /\ tasks[t].started /\ tasks[t].status \in Terminal =>
                tasks'[t].status = tasks[t].status]_vars

\* A run is never judged better than the failure of an agent or a check that
\* still stands in it ("the run's verdict is never better than it", runner.ts):
\* a check that passed, a retry or a resume hides none.
FailureIsJudged ==
    (\E t \in Standing(tasks) :
        tasks[t].status = "failed" /\ tasks[t].kind \in {"agent", "verify"}) =>
            RunVerdict(tasks) \in {"needs-user", "failed"}

------------------------------------------------------------------------------
(* What a run of one task at a time promises.                              *)

\* The run works on one task after the other: a task waits for the one above
\* it, or for the one it names (dependencies, settled).
Serial == \A b, c \in bodies : b = c

\* A run that is going, with nothing in flight and something in its queue, has
\* a task to start or to skip: no two tasks wait for each other, and none for
\* an attempt that will not come again.
Unstuck ==
    run.status = "running" /\ bodies = {} /\ With(tasks, "queued") # {} =>
        \E t \in With(tasks, "queued") : Decide(tasks, t) # "wait"

\* A run of one task at a time goes on to the next until there is none:
\* through retries, restarts and resumes it never works on two tasks, and never
\* stands before a queue of tasks that wait for each other.
OneThenNext == Serial /\ Unstuck

\* At most one loop drives a run, and only a run that is running or held for
\* a request has one ("Only the last is still being driven", types.ts).
OneDriver ==
    /\ \A d, e \in Drivers : drivers[d].pc # "left" /\ drivers[e].pc # "left" => d = e
    /\ (\E d \in Drivers : drivers[d].pc # "left") =>
          run.status = "running" \/ (run.status = "awaiting" /\ run.paused = "request")

\* The run as its row and its drivers show it implements the life its reader
\* is promised: one driver exactly while it runs or is held, no gate for a
\* run asked to stop, and no success with work left in the queue.
Lifecycle == INSTANCE RunLifecycle WITH
    phase <- IF run.status # "awaiting" THEN run.status
             ELSE IF run.paused = "request" THEN "held" ELSE "waiting",
    driving <- Cardinality({d \in Drivers : drivers[d].pc # "left"}) + (IF opening THEN 1 ELSE 0),
    stopAsked <- stopping,
    left <- With(tasks, "queued") # {}

KeepsItsPromise == Lifecycle!Spec

Starts(t) == tasks[t].status = "queued" /\ tasks'[t].status = "running"

\* Nothing starts behind a gate until a person has let the run past it ("the
\* work is done and nothing else starts until somebody has read it",
\* runner.ts).
GateHolds ==
    [][\A t \in DOMAIN tasks : Starts(t) => Gated(tasks) \subseteq passed]_vars

\* A task starts with the note of everything it builds on: pauses, restarts
\* and retries lose none of them.
HandedOn ==
    [][\A t \in DOMAIN tasks : Starts(t) =>
          \E b \in bodies' :
              /\ b.task = t
              /\ \A u \in HandedBy(tasks, t) : tasks[u].foreach = "" => u \in drivers[b.drv].notes]_vars

\* A failure nobody declared survivable ends the run as failed ("A failed
\* task still stops the run", runner.ts).
FailedTaskStopsRun ==
    run.status = "success" =>
        \A t \in Standing(tasks) : tasks[t].status = "failed" => ExpectsFailure(tasks, tasks[t].name)

\* A check that passed speaks for the work it checked, unless that work said
\* itself that it did not finish.
CheckedWorkIsVerified ==
    \A v \in Standing(tasks) :
        tasks[v].kind = "verify" /\ tasks[v].verdict = "verified" =>
            LET work == CheckedTask(tasks, v)
            IN work # 0 => \/ tasks[work].verdict = "verified"
                           \/ tasks[work].by = "rule" /\ tasks[work].verdict \in {"needs-user", "failed"}

\* A run that waits says what for (the comment on "paused", types.ts).
AwaitingSaysWhy == run.status = "awaiting" => run.paused # "none"

\* A run over its budget starts nothing until a person lets it past ("a run
\* that starts over a spent day budget spends nothing", runner.ts).
BudgetHolds == [][\A t \in DOMAIN tasks : Starts(t) => spend # "over" \/ run.approved]_vars

\* A run asked to stop does stop, whatever its tasks are in the middle of.
StopEnds == stopping ~> ~Active

\* A run that is going comes to an end or to a person.
ComesToRest == run.status = "running" ~> run.status # "running"
=============================================================================
