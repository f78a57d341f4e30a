---------------------------- MODULE RoutineProofs ----------------------------
(***************************************************************************)
(* A routine's runs hold its lock in turn, its beats are a period apart,   *)
(* and a streak is told once, proved for any routines, prompt or file, any *)
(* schedules, and any lease longer than a heartbeat and what the scheduler *)
(* awaits together.                                                        *)
(***************************************************************************)
EXTENDS RoutineScheduler, FiniteSetTheorems, SequenceTheorems, TLAPS

(***************************************************************************)
(* The inductive invariant.  While the host stays awake, a call of begin   *)
(* has a lease that outlasts what it awaits, a run that is executed has    *)
(* one that outlasts its next heartbeat, and each is alone with its        *)
(* routine.  A lock is let go only by the call it belongs to, or with the  *)
(* routine; so a tick, whose clock is late by no more than Slack, never    *)
(* takes the lock of either for one that has lapsed.                       *)
(***************************************************************************)
Calls == [routine : Routines, at : Nat, by : {"schedule", "person"}, attempt : Nat \ {0}, run : Nat]

Gone(r) == routine[r].state = "gone"

\* The thread a call of begin opens is that of a run of its routine.
Threads == \A b \in begins : b.run # 0 => b.run \in Runs /\ runs[b.run].routine = b.routine

BeginsHold ==
    \A b \in begins : /\ now <= b.at + Slack
                      /\ b.at + Lease <= lock[b.routine] \/ Gone(b.routine)

RunsHold ==
    \A k \in Runs : held[k] # 0 => /\ now <= held[k]
                                   /\ held[k] < lock[runs[k].routine] \/ Gone(runs[k].routine)

TickHolds == tick.on => tick.at <= now /\ now <= tick.at + Slack

Alone ==
    /\ \A b, c \in begins : b.routine = c.routine => b = c
    /\ \A b \in begins : \A k \in Runs : held[k] # 0 => runs[k].routine # b.routine
    /\ \A j, k \in Runs : held[j] # 0 /\ held[k] # 0 /\ runs[j].routine = runs[k].routine => j = k

Leases == naps = 0 => BeginsHold /\ RunsHold /\ TickHolds /\ Alone

IInv == TypeOK /\ Threads /\ Leases
------------------------------------------------------------------------------
(* Rows.                                                                   *)

LEMMA FunSeq ==
    ASSUME NEW S, NEW n \in Nat, NEW f \in [1 .. n -> S]
    PROVE  f \in Seq(S) /\ Len(f) = n
<1>1. f \in Seq(S)
  BY SeqDef
<1>2. DOMAIN f = 1 .. n /\ DOMAIN f = 1 .. Len(f) /\ Len(f) \in Nat
  BY <1>1, LenProperties
<1> QED BY <1>1, <1>2

\* A table of runs of the same length is a sequence with the same positions.
LEMMA RowsAre ==
    ASSUME TypeOK, NEW rs \in [Runs -> RunRows]
    PROVE  rs \in Seq(RunRows) /\ Len(rs) = Len(runs) /\ Runs = 1 .. Len(rs)
<1>1. Len(runs) \in Nat
  BY LenProperties DEF TypeOK
<1>2. rs \in [1 .. Len(runs) -> RunRows]
  BY DEF Runs
<1> QED BY <1>1, <1>2, FunSeq DEF Runs

LEMMA RunIs ==
    ASSUME TypeOK
    PROVE  /\ Len(runs) \in Nat
           /\ runs \in [Runs -> RunRows]
           /\ \A k \in Runs : /\ k \in Nat /\ runs[k] \in RunRows /\ runs[k].routine \in Routines
                              /\ held[k] \in Nat
<1>1. runs \in Seq(RunRows) /\ held \in [Runs -> Nat]
  BY DEF TypeOK
<1>2. Len(runs) \in Nat /\ runs \in [Runs -> RunRows]
  BY <1>1, LenProperties DEF Runs
<1>3. \A k \in Runs : k \in Nat /\ runs[k] \in RunRows /\ held[k] \in Nat
  BY <1>1, <1>2 DEF Runs
<1>4. \A row \in RunRows : row.routine \in Routines
  BY DEF RunRows
<1> QED BY <1>2, <1>3, <1>4

LEMMA RowIs ==
    ASSUME NEW r \in Routines, NEW by \in {"schedule", "person"}, NEW at \in Nat,
           NEW attempt \in Nat \ {0}, NEW status \in {"running", "failed"}
    PROVE  Row(r, by, at, attempt, status) \in RunRows /\ Row(r, by, at, attempt, status).routine = r
BY DEF Row, RunRows, Endings, Active

\* A new run goes after those there are.
LEMMA Appends ==
    ASSUME TypeOK, NEW r \in Routines, NEW by \in {"schedule", "person"}, NEW at \in Nat,
           NEW attempt \in Nat \ {0}, NEW status \in {"running", "failed"}, NEW beat \in Nat,
           StartRun(r, by, at, attempt, status, beat)
    PROVE  /\ runs' \in Seq(RunRows) /\ held' \in [Runs' -> Nat]
           /\ routine' \in [Routines -> [state : {"on", "off", "gone"}, lastRunAt : Nat]]
           /\ Runs' = Runs \cup {Len(runs) + 1} /\ Len(runs) + 1 \notin Runs
           /\ Len(runs') = Len(runs) + 1
           /\ runs'[Len(runs) + 1].routine = r /\ held'[Len(runs) + 1] = beat
           /\ \A k \in Runs : runs'[k] = runs[k] /\ held'[k] = held[k]
           /\ \A q \in Routines : routine'[q].state = routine[q].state
<1> DEFINE row == Row(r, by, at, attempt, status)
           n == Len(runs)
<1>1. row \in RunRows /\ row.routine = r
  BY RowIs
<1>2. n \in Nat /\ runs \in Seq(RunRows) /\ held \in Seq(Nat) /\ Len(held) = n
  <2>1. n \in Nat
    BY RunIs
  <2>2. held \in [1 .. n -> Nat]
    BY DEF TypeOK, Runs
  <2> QED BY <2>1, <2>2, FunSeq DEF TypeOK
<1>3. runs' = Append(runs, row) /\ held' = Append(held, beat)
  BY DEF StartRun
<1> HIDE DEF row
<1>4. /\ runs' \in Seq(RunRows) /\ Len(runs') = n + 1
      /\ runs'[n + 1] = row /\ \A k \in 1 .. n : runs'[k] = runs[k]
  BY <1>1, <1>2, <1>3
<1>5. /\ held' \in [1 .. n + 1 -> Nat]
      /\ held'[n + 1] = beat /\ \A k \in 1 .. n : held'[k] = held[k]
  <2>1. held' \in Seq(Nat) /\ Len(held') = n + 1
        /\ held'[n + 1] = beat /\ \A k \in 1 .. n : held'[k] = held[k]
    BY <1>2, <1>3
  <2> QED BY <2>1, LenProperties
<1>6. Runs' = Runs \cup {n + 1} /\ n + 1 \notin Runs /\ Runs = 1 .. n
  BY <1>2, <1>4 DEF Runs
<1>7. /\ routine' \in [Routines -> [state : {"on", "off", "gone"}, lastRunAt : Nat]]
      /\ \A q \in Routines : routine'[q].state = routine[q].state
  BY DEF StartRun, TypeOK
<1>8. Runs' = 1 .. n + 1
  BY <1>4 DEF Runs
<1> QED BY <1>1, <1>4, <1>5, <1>6, <1>7, <1>8

\* Runs that only change their status keep all that matters to the lock.
Same == /\ runs' \in [Runs -> RunRows]
        /\ \A k \in Runs : runs'[k].routine = runs[k].routine

LEMMA SameRuns ==
    ASSUME TypeOK, Same
    PROVE  /\ runs' \in Seq(RunRows) /\ Runs' = Runs /\ Len(runs') = Len(runs)
BY RowsAre DEF Same, Runs

LEMMA FinishedIs ==
    ASSUME TypeOK, NEW k \in Runs, NEW ending \in Endings, runs' = Finished(k, ending)
    PROVE  Same
<1>1. ASSUME NEW at \in Nat
      PROVE  LET row == [runs[k] EXCEPT !.status = ending, !.finishedAt = at]
             IN row \in RunRows /\ row.routine = runs[k].routine
  BY RunIs DEF RunRows
<1>2. now \in Nat /\ 0 \in Nat
  BY DEF TypeOK
<1>3. runs' = runs \/ \E at \in Nat :
         runs' = [runs EXCEPT ![k] = [runs[k] EXCEPT !.status = ending, !.finishedAt = at]]
  BY <1>2, RunIs DEF Finished
<1> QED BY <1>1, <1>3, RunIs DEF Same

LEMMA StoppedIs ==
    ASSUME TypeOK, NEW ks, Stopped(ks)
    PROVE  Same
<1> DEFINE over(k) == [runs[k] EXCEPT !.status = "stopped", !.finishedAt = now]
<1>1. ASSUME NEW k \in Runs PROVE over(k) \in RunRows /\ over(k).routine = runs[k].routine
  <2>1. runs[k] \in RunRows /\ now \in Nat
    BY RunIs DEF TypeOK
  <2> QED BY <2>1 DEF RunRows, Endings
<1>2. runs' = [k \in Runs |-> IF k \in ks /\ runs[k].status = "awaiting"
                              THEN [runs[k] EXCEPT !.status = "stopped", !.finishedAt = now] ELSE runs[k]]
  BY DEF Stopped
<1> QED BY <1>1, <1>2, RunIs DEF Same
------------------------------------------------------------------------------
(* Types.                                                                  *)

RoutineRows == [Routines -> [state : {"on", "off", "gone"}, lastRunAt : Nat]]
Ticks       == [at : Nat, due : SUBSET Firings, waits : BOOLEAN, on : BOOLEAN]

\* What the steps of a run leave alone.
LEMMA StatusTypes ==
    ASSUME TypeOK, Same, held' \in [Runs -> Nat], lock' \in [Routines -> Nat], tick' \in Ticks,
           begins' \in SUBSET Calls, driven' \in SUBSET Runs, stopping' \in SUBSET Runs,
           removing' \in SUBSET Routines, noticed' \in SUBSET Runs, routine' \in RoutineRows,
           now' = now, naps' = naps, events' \in Nat
    PROVE  TypeOK' /\ Runs' = Runs
BY SameRuns DEF TypeOK, Ticks, Calls, RoutineRows

LEMMA NoticeIs ==
    ASSUME NEW rs, NEW k, Notice(rs, k)
    PROVE  noticed' = noticed \/ noticed' = noticed \cup {k}
BY DEF Notice

LEMMA LockTypes ==
    ASSUME TypeOK, NEW r \in Routines, NEW n \in Nat
    PROVE  /\ [lock EXCEPT ![r] = n] \in [Routines -> Nat]
           /\ [lock EXCEPT ![r] = n][r] = n
           /\ \A q \in Routines : q # r => [lock EXCEPT ![r] = n][q] = lock[q]
BY DEF TypeOK

LEMMA HeldTypes ==
    ASSUME TypeOK, NEW k \in Runs, NEW n \in Nat
    PROVE  /\ [held EXCEPT ![k] = n] \in [Runs -> Nat]
           /\ [held EXCEPT ![k] = n][k] = n
           /\ \A j \in Runs : j # k => [held EXCEPT ![k] = n][j] = held[j]
BY DEF TypeOK

\* What is due of a routine is an attempt of it.
LEMMA DueIs ==
    ASSUME TypeOK, NEW r \in Routines, NEW at \in Nat, NEW f \in Due(r, at)
    PROVE  f.attempt \in Nat \ {0}
<1>1. f \in pendingRetry(r) \/ f = [at |-> nextBeat(r, at), attempt |-> 1]
  BY DEF Due, nextFiring
<1>2. CASE f \in pendingRetry(r)
  <2>1. PICK k \in RunsOf(runs, r) : f.attempt = runs[k].attempt + 1
    BY <1>2 DEF pendingRetry
  <2>2. k \in Runs
    BY <2>1, RunIs DEF RunsOf, Runs
  <2>3. \A row \in RunRows : row.attempt \in Nat
    BY DEF RunRows
  <2> QED BY <2>1, <2>2, <2>3, RunIs
<1> QED BY <1>1, <1>2

LEMMA TickOfIs ==
    ASSUME NEW t \in Ticks
    PROVE  /\ TickOf(t) \in Ticks
           /\ TickOf(t).on => t.on /\ TickOf(t).at = t.at
<1>1. NoTick \in Ticks /\ ~NoTick.on
  BY DEF NoTick, Ticks
<1> QED BY <1>1 DEF TickOf

\* The tick a call of begin returns to is the one that was under way, or none.
TickGoesOn == tick' \in Ticks /\ (tick'.on => tick.on /\ tick'.at = tick.at)

LEMMA ReturnsIs ==
    ASSUME TypeOK, NEW b, NEW after, Returns(b, after)
    PROVE  TickGoesOn
<1>1. tick \in Ticks
  BY DEF TypeOK, Ticks
<1>2. /\ [tick EXCEPT !.waits = FALSE] \in Ticks
      /\ [tick EXCEPT !.waits = FALSE].on = tick.on
      /\ [tick EXCEPT !.waits = FALSE].at = tick.at
  BY <1>1 DEF Ticks
<1> QED BY <1>1, <1>2, TickOfIs DEF Returns, TickGoesOn
------------------------------------------------------------------------------
(* Steps that take no lock.                                                *)

\* Calls that end, runs that stop being executed, and a lock that is let go
\* by the call it belonged to or with its routine.
LEMMA LetsGo ==
    ASSUME IInv, TypeOK', Same, Runs' = Runs, TickGoesOn, now' = now, naps' = naps,
           begins' \subseteq begins, \A k \in Runs : held'[k] \in {0, held[k]},
           \A r \in Routines : Gone(r) => Gone(r)',
           naps = 0 => \A r \in Routines :
               \/ lock'[r] = lock[r]
               \/ Gone(r)'
               \/ /\ \A b \in begins' : b.routine # r
                  /\ \A k \in Runs : held'[k] # 0 => runs[k].routine # r
    PROVE  IInv'
<1>1. \A b \in begins : b.routine \in Routines
  BY DEF IInv, TypeOK, Calls
<1>2. Threads'
  BY DEF IInv, Threads, Same
<1>3. ASSUME naps' = 0
      PROVE  BeginsHold' /\ RunsHold' /\ TickHolds' /\ Alone'
  <2>1. naps = 0 /\ BeginsHold /\ RunsHold /\ TickHolds /\ Alone
    BY <1>3 DEF IInv, Leases
  <2>2. BeginsHold'
    BY <1>1, <2>1 DEF BeginsHold
  <2>3. RunsHold'
    BY <2>1, RunIs DEF RunsHold, Same, IInv
  <2>4. TickHolds'
    BY <2>1 DEF TickHolds, TickGoesOn
  <2>5. Alone'
    BY <2>1 DEF Alone, Same
  <2> QED BY <2>2, <2>3, <2>4, <2>5
<1> QED BY <1>2, <1>3 DEF IInv, Leases

LEMMA TypesAre ==
    ASSUME TypeOK
    PROVE  /\ lock \in [Routines -> Nat] /\ held \in [Runs -> Nat] /\ routine \in RoutineRows
           /\ tick \in Ticks /\ begins \in SUBSET Calls /\ driven \in SUBSET Runs
           /\ stopping \in SUBSET Runs /\ removing \in SUBSET Routines /\ noticed \in SUBSET Runs
           /\ events \in Nat /\ now \in Nat /\ naps \in Nat
BY DEF TypeOK, RoutineRows, Ticks, Calls

\* The end of a run whose routine's lock nobody else holds.
LEMMA Finishes ==
    ASSUME IInv, NEW k \in Runs, NEW ending \in Endings, finish(k, ending),
           TickGoesOn, begins' \subseteq begins, routine' = routine, driven' = driven,
           removing' = removing, now' = now, naps' = naps, events' = events,
           naps = 0 => /\ \A b \in begins' : b.routine # runs[k].routine
                       /\ \A j \in Runs : j # k /\ held[j] # 0 => runs[j].routine # runs[k].routine
    PROVE  IInv'
<1>1. Same
  BY FinishedIs DEF finish, IInv
<1>2. /\ lock' = [lock EXCEPT ![runs[k].routine] = 0] /\ held' = [held EXCEPT ![k] = 0]
      /\ stopping' = stopping \ {k} /\ noticed' \in {noticed, noticed \cup {k}}
  BY NoticeIs DEF finish
<1>3. runs[k].routine \in Routines
  BY RunIs DEF IInv
<1>4. /\ lock' \in [Routines -> Nat]
      /\ \A q \in Routines : q # runs[k].routine => lock'[q] = lock[q]
  BY <1>2, <1>3, LockTypes DEF IInv
<1>5. /\ held' \in [Runs -> Nat] /\ held'[k] = 0
      /\ \A j \in Runs : j # k => held'[j] = held[j]
  BY <1>2, HeldTypes DEF IInv
<1>6. TypeOK' /\ Runs' = Runs
  <2>1. /\ tick' \in Ticks /\ begins' \in SUBSET Calls /\ driven' \in SUBSET Runs
        /\ stopping' \in SUBSET Runs /\ removing' \in SUBSET Routines
        /\ noticed' \in SUBSET Runs /\ routine' \in RoutineRows /\ events' \in Nat
    BY <1>2, TypesAre DEF IInv, TickGoesOn
  <2> QED BY <1>1, <1>4, <1>5, <2>1, StatusTypes DEF IInv
<1>7. \A j \in Runs : held'[j] \in {0, held[j]}
  BY <1>5
<1>8. \A r \in Routines : Gone(r) => Gone(r)'
  BY DEF Gone
<1>9. naps = 0 => \A r \in Routines :
               \/ lock'[r] = lock[r]
               \/ Gone(r)'
               \/ /\ \A b \in begins' : b.routine # r
                  /\ \A j \in Runs : held'[j] # 0 => runs[j].routine # r
  BY <1>4, <1>5
<1> QED BY <1>1, <1>6, <1>7, <1>8, <1>9, LetsGo

LEMMA RunEndsHolds ==
    ASSUME IInv, NEW k \in Runs, RunEnds(k)
    PROVE  IInv'
<1>1. PICK ending \in Endings : finish(k, ending)
  BY DEF RunEnds, Endings
<1>2. TickGoesOn
  BY TypesAre DEF IInv, RunEnds, TickGoesOn
<1>3. naps = 0 => /\ \A b \in begins' : b.routine # runs[k].routine
                  /\ \A j \in Runs : j # k /\ held[j] # 0 => runs[j].routine # runs[k].routine
  BY DEF IInv, Leases, Alone, RunEnds
<1> QED BY <1>1, <1>2, <1>3, Finishes DEF RunEnds

LEMMA RunPausesHolds ==
    ASSUME IInv, NEW k \in Runs, RunPauses(k)
    PROVE  IInv'
<1>1. Same
  <2>1. [runs[k] EXCEPT !.status = "awaiting"] \in RunRows
        /\ [runs[k] EXCEPT !.status = "awaiting"].routine = runs[k].routine
    BY RunIs DEF IInv, RunRows, Active
  <2>2. runs' = runs \/ runs' = [runs EXCEPT ![k] = [runs[k] EXCEPT !.status = "awaiting"]]
    BY RunIs DEF RunPauses, IInv
  <2> QED BY <2>1, <2>2, RunIs DEF Same, IInv
<1>2. runs[k].routine \in Routines
  BY RunIs DEF IInv
<1>3. /\ lock' \in [Routines -> Nat]
      /\ \A q \in Routines : q # runs[k].routine => lock'[q] = lock[q]
      /\ held' \in [Runs -> Nat] /\ held'[k] = 0
      /\ \A j \in Runs : j # k => held'[j] = held[j]
  BY <1>2, LockTypes, HeldTypes DEF IInv, RunPauses
<1>4. /\ UNCHANGED <<routine, noticed, tick, begins, driven, stopping, removing, now, naps, events>>
      /\ held[k] # 0
  BY DEF RunPauses
<1>5. TypeOK' /\ Runs' = Runs
  BY <1>1, <1>3, <1>4, StatusTypes, TypesAre DEF IInv
<1>6. TickGoesOn /\ begins' \subseteq begins /\ \A r \in Routines : Gone(r) => Gone(r)'
  BY <1>4, TypesAre DEF IInv, TickGoesOn, Gone
<1>7. \A j \in Runs : held'[j] \in {0, held[j]}
  BY <1>3
<1>8. naps = 0 => \A r \in Routines :
               \/ lock'[r] = lock[r]
               \/ Gone(r)'
               \/ /\ \A b \in begins' : b.routine # r
                  /\ \A j \in Runs : held'[j] # 0 => runs[j].routine # r
  BY <1>3, <1>4 DEF IInv, Leases, Alone
<1> QED BY <1>1, <1>4, <1>5, <1>6, <1>7, <1>8, LetsGo

\* What touches neither calls, nor the beats, nor a lock that is held.
LEMMA Asks ==
    ASSUME IInv, Same, UNCHANGED <<begins, held, tick, now, naps>>,
           driven' \subseteq Runs, stopping' \subseteq Runs, removing' \subseteq Routines,
           noticed' = noticed, events' \in Nat, routine' \in RoutineRows,
           lock' \in [Routines -> Nat],
           \A r \in Routines : (Gone(r) => Gone(r)') /\ (lock'[r] = lock[r] \/ Gone(r)')
    PROVE  IInv'
<1>1. TypeOK' /\ Runs' = Runs
  BY StatusTypes, TypesAre DEF IInv
<1>2. TickGoesOn
  BY TypesAre DEF IInv, TickGoesOn
<1> QED BY <1>1, <1>2, LetsGo

LEMMA AsksHold ==
    ASSUME IInv,
           \/ \E k \in Runs : \/ holdForRequest(k) \/ releaseRequest(k) \/ approve(k)
                             \/ DriveEnds(k) \/ DrivePauses(k) \/ stopRun(k)
           \/ \E r \in Routines : RemoveAsked(r) \/ remove(r) \/ setEnabled(r)
           \/ UNCHANGED vars
    PROVE  IInv'
<1> USE TypesAre DEF IInv
<1>1. ASSUME NEW k \in Runs, NEW status \in Active
      PROVE  /\ [runs EXCEPT ![k].status = status] \in [Runs -> RunRows]
             /\ \A j \in Runs : [runs EXCEPT ![k].status = status][j].routine = runs[j].routine
  <2>1. [runs[k] EXCEPT !.status = status] \in RunRows
        /\ [runs[k] EXCEPT !.status = status].routine = runs[k].routine
    BY RunIs DEF RunRows, Active
  <2>2. [runs EXCEPT ![k].status = status] = [runs EXCEPT ![k] = [runs[k] EXCEPT !.status = status]]
    BY RunIs
  <2> QED BY <2>1, <2>2, RunIs
<1>2. runs' = runs => Same
  BY RunIs DEF Same
<1>3. ASSUME NEW k \in Runs, holdForRequest(k) \/ releaseRequest(k) \/ approve(k)
      PROVE  IInv'
  <2>1. PICK status \in Active : runs' = [runs EXCEPT ![k].status = status]
    BY <1>3 DEF holdForRequest, releaseRequest, approve, Active
  <2>2. Same
    BY <1>1, <2>1 DEF Same
  <2>3. /\ UNCHANGED <<now, routine, noticed, lock, tick, begins, held, stopping, removing, naps, events>>
        /\ driven' \in {driven, driven \cup {k}}
    BY <1>3 DEF holdForRequest, releaseRequest, approve, calls
  <2> QED BY <2>2, <2>3, Asks DEF Gone
<1>4. ASSUME NEW k \in Runs, DriveEnds(k)
      PROVE  IInv'
  <2>1. Same
    BY <1>4, FinishedIs DEF DriveEnds, Endings
  <2> QED BY <1>4, <2>1, Asks DEF DriveEnds, Gone
<1>5. ASSUME NEW k \in Runs, DrivePauses(k)
      PROVE  IInv'
  <2>1. runs' = runs \/ \E status \in Active : runs' = [runs EXCEPT ![k].status = status]
    BY <1>5 DEF DrivePauses, Active
  <2>2. Same
    <3>1. CASE runs' = runs
      BY <1>2, <3>1
    <3>2. ASSUME NEW status \in Active, runs' = [runs EXCEPT ![k].status = status]
          PROVE  Same
      BY <1>1, <3>2 DEF Same
    <3> QED BY <2>1, <3>1, <3>2
  <2> QED BY <1>5, <2>2, Asks DEF DrivePauses, Gone
<1>6. ASSUME NEW k \in Runs, stopRun(k)
      PROVE  IInv'
  <2>1. Same /\ stopping' \subseteq Runs
    BY <1>6, StoppedIs DEF stopRun, Stopped
  <2> QED BY <1>6, <2>1, Asks DEF stopRun, Event, Gone
<1>7. ASSUME NEW r \in Routines, RemoveAsked(r)
      PROVE  IInv'
  <2>1. RunsOf(runs, r) \subseteq Runs
    BY RunIs DEF RunsOf
  <2>2. Same /\ stopping' \subseteq Runs
    BY <1>7, <2>1, StoppedIs DEF RemoveAsked, Stopped
  <2> QED BY <1>7, <2>2, Asks DEF RemoveAsked, Event, Gone
<1>8. ASSUME NEW r \in Routines, remove(r)
      PROVE  IInv'
  <2>1. \A k \in Runs : /\ [runs[k] EXCEPT !.status = "gone"] \in RunRows
                        /\ [runs[k] EXCEPT !.status = "gone"].routine = runs[k].routine
    BY RunIs DEF RunRows
  <2>2. Same
    BY <1>8, <2>1, RunIs DEF remove, Same
  <2>3. /\ routine' \in RoutineRows /\ Gone(r)'
        /\ \A q \in Routines : q # r => routine'[q] = routine[q]
    BY <1>8 DEF remove, RoutineRows, Gone
  <2>4. lock' \in [Routines -> Nat] /\ \A q \in Routines : q # r => lock'[q] = lock[q]
    BY <1>8, LockTypes DEF remove
  <2>5. UNCHANGED <<begins, held, tick, now, naps, noticed, events, driven, stopping>>
        /\ removing' \subseteq Routines
    BY <1>8 DEF remove
  <2> QED BY <2>2, <2>3, <2>4, <2>5, Asks DEF Gone
<1>9. ASSUME NEW r \in Routines, setEnabled(r)
      PROVE  IInv'
  <2>1. routine' \in RoutineRows /\ \A q \in Routines : Gone(q) => Gone(q)'
    BY <1>9 DEF setEnabled, RoutineRows, Gone
  <2> QED BY <1>2, <1>9, <2>1, Asks DEF setEnabled, Event, calls
<1>10. CASE UNCHANGED vars
  BY <1>2, <1>10, Asks DEF vars, Gone
<1> QED BY <1>3, <1>4, <1>5, <1>6, <1>7, <1>8, <1>9, <1>10
------------------------------------------------------------------------------
(* Steps that start a run.                                                 *)

\* A call of begin, or a run that is executed, holds its routine's lock.
LEMMA Holds ==
    ASSUME IInv, naps = 0
    PROVE  /\ \A b \in begins : lock[b.routine] > now \/ Gone(b.routine)
           /\ \A k \in Runs : held[k] # 0 => lock[runs[k].routine] > now \/ Gone(runs[k].routine)
<1>1. BeginsHold /\ RunsHold
  BY DEF IInv, Leases
<1>2. \A b \in begins : b.routine \in Routines /\ b.at \in Nat
  BY TypesAre DEF IInv, Calls
<1>3. Slack \in Nat /\ Lease \in Nat /\ Slack < Lease /\ now \in Nat
  BY RoutineAssumption, TypesAre DEF IInv
<1>4. \A r \in Routines : lock[r] \in Nat
  BY TypesAre DEF IInv
<1>5. \A b \in begins : lock[b.routine] > now \/ Gone(b.routine)
  BY <1>1, <1>2, <1>3, <1>4 DEF BeginsHold
<1>6. \A k \in Runs : held[k] # 0 => lock[runs[k].routine] > now \/ Gone(runs[k].routine)
  BY <1>1, <1>3, <1>4, RunIs DEF RunsHold, IInv
<1> QED BY <1>5, <1>6

\* A run is started for a routine of which no other is executed, by a call
\* that stays the only one or has become the run.
LEMMA Starts ==
    ASSUME IInv, NEW r \in Routines, NEW by \in {"schedule", "person"}, NEW at \in Nat,
           NEW attempt \in Nat \ {0}, NEW status \in {"running", "failed"}, NEW beat \in Nat,
           StartRun(r, by, at, attempt, status, beat),
           UNCHANGED <<driven, stopping, removing, now, naps>>,
           lock' \in [Routines -> Nat], tick' \in Ticks, begins' \in SUBSET Calls, events' \in Nat,
           noticed' \in {noticed, noticed \cup {Len(runs) + 1}},
           \A b \in begins' : \/ b \in begins
                              \/ b.run = 0 \/ (b.run = Len(runs) + 1 /\ b.routine = r),
           naps = 0 =>
              /\ TickHolds'
              /\ \A q \in Routines : q # r => lock'[q] = lock[q]
              /\ \A k \in Runs : held[k] # 0 => runs[k].routine # r
              /\ \A b \in begins' : b.routine # r => b \in begins
              /\ \A b \in begins' : b.routine = r =>
                    /\ beat = 0 /\ now <= b.at + Slack
                    /\ b.at + Lease <= lock'[r] \/ Gone(r)
              /\ \A b, c \in begins' : b.routine = r /\ c.routine = r => b = c
              /\ beat # 0 => now <= beat /\ (beat < lock'[r] \/ Gone(r))
    PROVE  IInv'
<1> DEFINE n == Len(runs) + 1
<1> USE DEF IInv
<1>1. /\ runs' \in Seq(RunRows) /\ held' \in [Runs' -> Nat] /\ routine' \in RoutineRows
      /\ Runs' = Runs \cup {n} /\ n \notin Runs
      /\ runs'[n].routine = r /\ held'[n] = beat
      /\ \A k \in Runs : runs'[k] = runs[k] /\ held'[k] = held[k]
      /\ \A q \in Routines : routine'[q].state = routine[q].state
  BY Appends DEF RoutineRows
<1>2. \A q \in Routines : Gone(q)' = Gone(q)
  BY <1>1 DEF Gone
<1>3. TypeOK'
  <2>1. driven' \in SUBSET Runs' /\ stopping' \in SUBSET Runs' /\ noticed' \in SUBSET Runs'
    BY <1>1, TypesAre
  <2> QED BY <1>1, <2>1, TypesAre DEF TypeOK, RoutineRows, Ticks, Calls
<1>4. Threads'
  BY <1>1 DEF Threads
<1>5. \A b \in begins' : b.routine \in Routines
  BY DEF Calls
<1>6. ASSUME naps' = 0
      PROVE  BeginsHold' /\ RunsHold' /\ TickHolds' /\ Alone'
  <2>1. naps = 0 /\ BeginsHold /\ RunsHold /\ Alone
    BY <1>6 DEF Leases
  <2>2. BeginsHold'
    BY <1>2, <1>5, <2>1 DEF BeginsHold
  <2>3. RunsHold'
    <3>1. ASSUME NEW k \in Runs, held[k] # 0
          PROVE  now <= held[k] /\ (held[k] < lock'[runs[k].routine] \/ Gone(runs[k].routine))
      <4>1. runs[k].routine # r /\ runs[k].routine \in Routines
        BY <2>1, <3>1, RunIs
      <4> QED BY <2>1, <3>1, <4>1 DEF RunsHold
    <3>2. beat # 0 => now <= beat /\ (beat < lock'[r] \/ Gone(r))
      BY <2>1
    <3>3. \A k \in Runs : runs[k].routine \in Routines
      BY RunIs
    <3> QED BY <1>1, <1>2, <3>1, <3>2, <3>3 DEF RunsHold
  <2>4. Alone'
    <3>1. \A b, c \in begins' : b.routine = c.routine => b = c
      BY <2>1 DEF Alone
    <3>2. \A b \in begins' : \A k \in Runs' : held'[k] # 0 => runs'[k].routine # b.routine
      <4> SUFFICES ASSUME NEW b \in begins', NEW k \in Runs', held'[k] # 0
                   PROVE  runs'[k].routine # b.routine
        OBVIOUS
      <4>1. CASE k = n
        BY <1>1, <2>1, <4>1
      <4>2. CASE k \in Runs
        <5>1. held[k] # 0 /\ runs'[k].routine = runs[k].routine /\ runs[k].routine # r
          BY <1>1, <2>1, <4>2
        <5>2. b.routine = r \/ b \in begins
          BY <2>1
        <5> QED BY <2>1, <4>2, <5>1, <5>2 DEF Alone
      <4> QED BY <1>1, <4>1, <4>2
    <3>3. \A j, k \in Runs' :
             held'[j] # 0 /\ held'[k] # 0 /\ runs'[j].routine = runs'[k].routine => j = k
      <4>1. \A k \in Runs : held'[k] # 0 => runs'[k].routine # r
        BY <1>1, <2>1
      <4>2. \A j, k \in Runs :
               held'[j] # 0 /\ held'[k] # 0 /\ runs'[j].routine = runs'[k].routine => j = k
        <5>1. \A j, k \in Runs :
                 held[j] # 0 /\ held[k] # 0 /\ runs[j].routine = runs[k].routine => j = k
          BY <2>1 DEF Alone
        <5>2. \A k \in Runs : runs'[k] = runs[k] /\ held'[k] = held[k]
          BY <1>1
        <5> QED BY <5>1, <5>2
      <4> SUFFICES ASSUME NEW j \in Runs', NEW k \in Runs', held'[j] # 0, held'[k] # 0,
                          runs'[j].routine = runs'[k].routine
                   PROVE  j = k
        OBVIOUS
      <4>3. (j \in Runs \/ j = n) /\ (k \in Runs \/ k = n)
        BY <1>1
      <4>4. CASE j = n \/ k = n
        BY <1>1, <4>1, <4>3, <4>4
      <4>5. CASE j \in Runs /\ k \in Runs
        BY <4>2, <4>5
      <4> QED BY <4>3, <4>4, <4>5
    <3> QED BY <3>1, <3>2, <3>3 DEF Alone
  <2> QED BY <2>1, <2>2, <2>3, <2>4
<1> QED BY <1>3, <1>4, <1>6 DEF Leases

\* begin takes a lock only once nobody holds it.
LEMMA Begins ==
    ASSUME IInv, NEW r \in Routines, NEW by \in {"schedule", "person"}, NEW at \in Nat,
           NEW attempt \in Nat \ {0}, Begin(r, by, at, attempt),
           UNCHANGED <<driven, stopping, removing, noticed, now, naps>>,
           tick' \in Ticks, events' \in Nat,
           naps = 0 => TickHolds' /\ at <= now /\ now <= at + Slack
    PROVE  IInv'
<1> USE DEF IInv
<1>1. CASE UNCHANGED <<routine, runs, lock, begins, held>>
  <2>1. TypeOK' /\ Threads'
    BY <1>1, TypesAre DEF TypeOK, Ticks, Threads, Runs
  <2>2. Leases'
    BY <1>1 DEF Leases, BeginsHold, RunsHold, Alone, Gone, Runs
  <2> QED BY <2>1, <2>2
<1>2. CASE lock[r] <= at /\ ~Gone(r) /\ lock' = [lock EXCEPT ![r] = at + Lease]
           /\ ~UNCHANGED <<routine, runs, lock, begins, held>>
  <2>1. /\ at + Lease \in Nat /\ Lease \in Nat /\ Slack \in Nat /\ Renewal \in Nat \ {0}
        /\ Slack + Renewal < Lease /\ now \in Nat
    BY RoutineAssumption, TypesAre
  <2>2. /\ lock' \in [Routines -> Nat] /\ lock'[r] = at + Lease
        /\ \A q \in Routines : q # r => lock'[q] = lock[q]
    BY <1>2, <2>1, LockTypes
  <2>3. naps = 0 => /\ \A b \in begins : b.routine # r
                    /\ \A k \in Runs : held[k] # 0 => runs[k].routine # r
    <3> SUFFICES ASSUME naps = 0
                 PROVE  /\ \A b \in begins : b.routine # r
                        /\ \A k \in Runs : held[k] # 0 => runs[k].routine # r
      OBVIOUS
    <3>1. ~(lock[r] > now)
      BY <1>2, <2>1, TypesAre
    <3> QED BY <1>2, <3>1, Holds
  <2>4. CASE r \in FromFile
    <3> DEFINE new == [routine |-> r, at |-> at, by |-> by, attempt |-> attempt, run |-> 0]
    <3>1. begins' = begins \cup {new} /\ UNCHANGED <<routine, runs, held>>
      BY <1>2, <2>4 DEF Begin
    <3>2. new \in Calls /\ new.routine = r /\ new.at = at /\ new.run = 0
      BY DEF Calls
    <3> HIDE DEF new
    <3>3. Runs' = Runs
      BY <3>1 DEF Runs
    <3>4. TypeOK' /\ Threads'
      BY <2>2, <3>1, <3>2, <3>3, TypesAre DEF TypeOK, Ticks, Calls, Threads
    <3>5. ASSUME naps' = 0
          PROVE  BeginsHold' /\ RunsHold' /\ TickHolds' /\ Alone'
      <4>1. naps = 0 /\ BeginsHold /\ RunsHold /\ Alone
        BY <3>5 DEF Leases
      <4>2. \A b \in begins : b.routine \in Routines
        BY TypesAre DEF Calls
      <4>3. BeginsHold'
        BY <2>2, <2>3, <3>1, <3>2, <4>1, <4>2 DEF BeginsHold, Gone
      <4>4. RunsHold'
        BY <2>2, <2>3, <3>1, <3>3, <4>1, RunIs DEF RunsHold, Gone
      <4>5. Alone'
        BY <2>3, <3>1, <3>2, <3>3, <4>1 DEF Alone
      <4> QED BY <4>1, <4>3, <4>4, <4>5
    <3> QED BY <3>4, <3>5 DEF Leases
  <2>5. CASE r \notin FromFile
    <3>1. StartRun(r, by, at, attempt, "running", now + Renewal) /\ begins' = begins
      BY <1>2, <2>5 DEF Begin
    <3>2. now + Renewal \in Nat /\ now + Renewal # 0
      BY <2>1
    <3>3. naps = 0 => now + Renewal < lock'[r]
      BY <2>1, <2>2
    <3>4. begins' \in SUBSET Calls
      BY <3>1, TypesAre
    <3>5. now <= now + Renewal
      BY <2>1
    <3>6. naps = 0 =>
              /\ TickHolds'
              /\ \A q \in Routines : q # r => lock'[q] = lock[q]
              /\ \A k \in Runs : held[k] # 0 => runs[k].routine # r
              /\ \A b \in begins' : b.routine # r
              /\ now + Renewal < lock'[r]
      BY <2>2, <2>3, <3>1, <3>3
    <3> HIDE DEF IInv
    <3> QED BY <2>2, <3>1, <3>2, <3>4, <3>5, <3>6, Starts
  <2> QED BY <2>4, <2>5
<1> QED BY <1>1, <1>2 DEF Begin, acquire, Gone

\* A call of begin that goes on is alone, and its lease outlasts it.
LEMMA CallIs ==
    ASSUME IInv, NEW b \in begins
    PROVE  /\ b \in Calls /\ b.routine \in Routines /\ b.at \in Nat /\ b.attempt \in Nat \ {0}
           /\ b.by \in {"schedule", "person"} /\ b.run \in Nat
           /\ now + Renewal \in Nat /\ now + Renewal # 0
           /\ naps = 0 =>
                 /\ now <= b.at + Slack
                 /\ b.at + Lease <= lock[b.routine] \/ Gone(b.routine)
                 /\ now + Renewal < lock[b.routine] \/ Gone(b.routine)
                 /\ \A c \in begins : c # b => c.routine # b.routine
                 /\ \A k \in Runs : held[k] # 0 => runs[k].routine # b.routine
<1>1. b \in Calls
  BY TypesAre DEF IInv
<1>2. /\ b.routine \in Routines /\ b.at \in Nat /\ b.attempt \in Nat \ {0}
      /\ b.by \in {"schedule", "person"} /\ b.run \in Nat
  BY <1>1 DEF Calls
<1>3. /\ now \in Nat /\ Renewal \in Nat \ {0} /\ Slack \in Nat /\ Lease \in Nat
      /\ Slack + Renewal < Lease
  BY RoutineAssumption, TypesAre DEF IInv
<1>4. lock[b.routine] \in Nat
  BY <1>2, TypesAre DEF IInv
<1>5. naps = 0 =>
         /\ now <= b.at + Slack
         /\ b.at + Lease <= lock[b.routine] \/ Gone(b.routine)
         /\ \A c \in begins : c # b => c.routine # b.routine
         /\ \A k \in Runs : held[k] # 0 => runs[k].routine # b.routine
  BY DEF IInv, Leases, BeginsHold, Alone
<1>6. naps = 0 => now + Renewal < lock[b.routine] \/ Gone(b.routine)
  BY <1>2, <1>3, <1>4, <1>5
<1> QED BY <1>1, <1>2, <1>3, <1>5, <1>6

LEMMA TickStays ==
    ASSUME IInv, TickGoesOn, now' = now, naps = 0
    PROVE  TickHolds'
BY DEF IInv, Leases, TickHolds, TickGoesOn

LEMMA BeginningHolds ==
    ASSUME IInv, NEW b \in begins, Beginning(b)
    PROVE  IInv'
<1> DEFINE r == b.routine
<1> USE CallIs
<1>1. CASE ReadThrows(b)
  <2>1. TickGoesOn
    <3>1. NoTick \in Ticks /\ ~NoTick.on
      BY DEF NoTick, Ticks
    <3> QED BY <1>1, <3>1, TypesAre DEF IInv, ReadThrows, TickGoesOn
  <2>2. Same
    BY <1>1, RunIs DEF IInv, ReadThrows, Same
  <2>3. begins' \subseteq begins /\ UNCHANGED <<now, routine, runs, lock, held, driven, stopping,
                                                removing, noticed, naps, events>>
    BY <1>1 DEF ReadThrows
  <2>4. TypeOK' /\ Runs' = Runs
    BY <2>1, <2>2, <2>3, StatusTypes, TypesAre DEF IInv, TickGoesOn
  <2> QED BY <2>1, <2>2, <2>3, <2>4, LetsGo DEF Gone
<1>2. CASE ReadFails(b)
  <2>1. /\ StartRun(r, b.by, b.at, b.attempt, "failed", 0)
        /\ lock' = [lock EXCEPT ![r] = 0] /\ begins' = begins \ {b}
        /\ UNCHANGED <<now, driven, stopping, removing, naps, events>>
    BY <1>2 DEF ReadFails, Returns
  <2>2. TickGoesOn
    BY <1>2, ReturnsIs DEF ReadFails, IInv
  <2>3. noticed' \in {noticed, noticed \cup {Len(runs) + 1}}
    <3>1. Len(runs') = Len(runs) + 1
      BY <2>1, Appends DEF IInv
    <3> QED BY <1>2, <3>1, NoticeIs DEF ReadFails
  <2>4. lock' \in [Routines -> Nat] /\ \A q \in Routines : q # r => lock'[q] = lock[q]
    BY <2>1, LockTypes DEF IInv
  <2>5. begins' \in SUBSET Calls /\ events' \in Nat /\ tick' \in Ticks
    BY <2>1, <2>2, TypesAre DEF IInv, TickGoesOn
  <2>6. naps = 0 => /\ TickHolds'
                    /\ \A k \in Runs : held[k] # 0 => runs[k].routine # r
                    /\ \A c \in begins' : c.routine # r
    BY <2>1, <2>2, TickStays
  <2>7. \A c \in begins' : c \in begins
    BY <2>1
  <2> QED BY <2>1, <2>3, <2>4, <2>5, <2>6, <2>7, Starts
<1>3. CASE ReadStarts(b)
  <2> DEFINE gone   == Gone(r)
             beat   == IF gone THEN 0 ELSE now + Renewal
             status == IF gone THEN "failed" ELSE "running"
  <2>1. /\ StartRun(r, b.by, b.at, b.attempt, status, beat)
        /\ lock' = (IF gone THEN [lock EXCEPT ![r] = 0] ELSE lock) /\ begins' = begins \ {b}
        /\ UNCHANGED <<now, driven, stopping, removing, noticed, naps, events>>
    BY <1>3 DEF ReadStarts, Returns, Gone
  <2>2. TickGoesOn
    BY <1>3, ReturnsIs DEF ReadStarts, IInv
  <2>3. lock' \in [Routines -> Nat] /\ (\A q \in Routines : q # r => lock'[q] = lock[q])
        /\ (~gone => lock' = lock)
    BY <2>1, LockTypes, TypesAre DEF IInv
  <2>4. begins' \in SUBSET Calls /\ events' \in Nat /\ tick' \in Ticks
    BY <2>1, <2>2, TypesAre DEF IInv, TickGoesOn
  <2>5. naps = 0 => /\ TickHolds'
                    /\ \A k \in Runs : held[k] # 0 => runs[k].routine # r
                    /\ \A c \in begins' : c.routine # r
    BY <2>1, <2>2, TickStays
  <2>6. /\ status \in {"running", "failed"} /\ beat \in Nat
        /\ naps = 0 => (beat # 0 => now <= beat /\ (beat < lock'[r] \/ Gone(r)))
    <3>1. now <= now + Renewal
      BY RoutineAssumption, TypesAre DEF IInv
    <3> QED BY <2>3, <3>1
  <2>7. \A c \in begins' : c \in begins
    BY <2>1
  <2> HIDE DEF beat, status
  <2> QED BY <2>1, <2>3, <2>4, <2>5, <2>6, <2>7, Starts
<1>4. CASE ReadOpens(b)
  <2> DEFINE new == [b EXCEPT !.run = Len(runs) + 1]
  <2>1. /\ StartRun(r, b.by, b.at, b.attempt, "running", 0)
        /\ begins' = (begins \ {b}) \cup {new}
        /\ UNCHANGED <<now, lock, driven, stopping, removing, noticed, naps, events>>
    BY <1>4 DEF ReadOpens, Returns
  <2>2. TickGoesOn
    BY <1>4, ReturnsIs DEF ReadOpens, IInv
  <2>3. new \in Calls /\ new.routine = r /\ new.at = b.at /\ new.run = Len(runs) + 1
    <3>1. Len(runs) + 1 \in Nat
      BY RunIs DEF IInv
    <3> QED BY <3>1 DEF Calls
  <2> HIDE DEF new
  <2>4. begins' \in SUBSET Calls /\ events' \in Nat /\ tick' \in Ticks /\ lock' \in [Routines -> Nat]
    BY <2>1, <2>2, <2>3, TypesAre DEF IInv, TickGoesOn
  <2>5. naps = 0 => /\ TickHolds'
                    /\ \A k \in Runs : held[k] # 0 => runs[k].routine # r
                    /\ \A c \in begins' : c.routine # r => c \in begins
                    /\ \A c \in begins' : c.routine = r => c = new
    BY <2>1, <2>2, <2>3, TickStays
  <2>6. \A c \in begins' : c \in begins \/ (c.run = Len(runs) + 1 /\ c.routine = r)
    BY <2>1, <2>3
  <2>7. naps = 0 => /\ now <= new.at + Slack
                    /\ new.at + Lease <= lock'[r] \/ Gone(r)
    BY <2>1, <2>3
  <2> QED BY <2>1, <2>4, <2>5, <2>6, <2>7, Starts
<1>5. CASE ThreadOpens(b)
  <2> DEFINE k == b.run
  <2>1. k \in Runs /\ runs[k].routine = r
    BY <1>5 DEF ThreadOpens, IInv, Threads
  <2>2. begins' = begins \ {b}
        /\ UNCHANGED <<now, routine, driven, removing, naps, events>>
    BY <1>5 DEF ThreadOpens, Returns
  <2>3. TickGoesOn
    BY <1>5, ReturnsIs DEF ThreadOpens, IInv
  <2>4. naps = 0 => /\ \A c \in begins' : c.routine # r
                    /\ \A j \in Runs : held[j] # 0 => runs[j].routine # r
    BY <2>2
  <2>5. CASE finish(k, "failed")
    <3>1. "failed" \in Endings
      BY DEF Endings
    <3> QED BY <2>1, <2>2, <2>3, <2>4, <2>5, <3>1, Finishes
  <2>6. Same \/ ~(runs' = runs)
    BY RunIs DEF Same, IInv
  <2>7. CASE UNCHANGED <<runs, lock, held, stopping, noticed>>
    <3>1. TypeOK' /\ Runs' = Runs
      BY <2>2, <2>3, <2>6, <2>7, StatusTypes, TypesAre DEF IInv, TickGoesOn
    <3> QED BY <2>2, <2>3, <2>6, <2>7, <3>1, LetsGo DEF Gone
  <2>8. CASE ~Gone(r) /\ held' = [held EXCEPT ![k] = now + Renewal]
             /\ UNCHANGED <<runs, lock, stopping, noticed>>
    <3>1. /\ held' \in [Runs -> Nat] /\ held'[k] = now + Renewal
          /\ \A j \in Runs : j # k => held'[j] = held[j]
      BY <2>1, <2>8, HeldTypes DEF IInv
    <3>2. TypeOK' /\ Runs' = Runs
      BY <2>2, <2>3, <2>6, <2>8, <3>1, StatusTypes, TypesAre DEF IInv, TickGoesOn
    <3>3. Threads'
      BY <2>2, <2>8, <3>2 DEF IInv, Threads
    <3>4. ASSUME naps' = 0
          PROVE  BeginsHold' /\ RunsHold' /\ TickHolds' /\ Alone'
      <4>1. naps = 0 /\ BeginsHold /\ RunsHold /\ Alone /\ TickHolds'
        BY <2>2, <2>3, <3>4, TickStays DEF IInv, Leases
      <4>2. BeginsHold'
        BY <2>2, <2>8, <4>1 DEF BeginsHold, Gone
      <4>3. now <= now + Renewal /\ now + Renewal < lock[r]
        BY <2>8, <4>1, RoutineAssumption, TypesAre DEF IInv
      <4>4. RunsHold'
        BY <2>1, <2>2, <2>8, <3>1, <3>2, <4>1, <4>3 DEF RunsHold, Gone
      <4>5. Alone'
        BY <2>1, <2>2, <2>4, <2>8, <3>1, <3>2, <4>1 DEF Alone
      <4> QED BY <4>1, <4>2, <4>4, <4>5
    <3> QED BY <3>2, <3>3, <3>4 DEF IInv, Leases
  <2> QED BY <1>5, <2>5, <2>7, <2>8 DEF ThreadOpens, Gone
<1> QED BY <1>1, <1>2, <1>3, <1>4, <1>5 DEF Beginning
------------------------------------------------------------------------------
(* Ticks, time and the process.                                            *)

LEMMA TickBeginsHolds ==
    ASSUME IInv, TickBegins
    PROVE  IInv'
<1> DEFINE due == UNION {{[routine |-> r, attempt |-> f.attempt] : f \in Due(r, now)} :
                          r \in {r \in Routines : Room(r)}}
<1>1. /\ tick' = [at |-> now, due |-> due, waits |-> FALSE, on |-> TRUE]
      /\ UNCHANGED <<now, routine, runs, lock, begins, held, driven, stopping, removing,
                     noticed, naps, events>>
  BY DEF TickBegins
<1>2. due \in SUBSET Firings
  <2> SUFFICES ASSUME NEW r \in Routines, NEW f \in Due(r, now)
               PROVE  [routine |-> r, attempt |-> f.attempt] \in Firings
    OBVIOUS
  <2> QED BY DueIs, TypesAre DEF IInv, Firings
<1> HIDE DEF due
<1>3. tick' \in Ticks /\ tick'.at = now
  BY <1>1, <1>2, TypesAre DEF IInv, Ticks
<1>4. TypeOK' /\ Threads'
  BY <1>1, <1>3 DEF IInv, TypeOK, Ticks, Threads, Runs
<1>5. TickHolds'
  BY <1>1, <1>3, RoutineAssumption, TypesAre DEF IInv, TickHolds
<1>6. Leases'
  BY <1>1, <1>5 DEF IInv, Leases, BeginsHold, RunsHold, Alone, Gone, Runs
<1> QED BY <1>4, <1>6 DEF IInv

LEMMA TickFiresHolds ==
    ASSUME IInv, TickFires
    PROVE  IInv'
<1>1. PICK f \in tick.due :
         /\ Begin(f.routine, "schedule", tick.at, f.attempt)
         /\ tick' = TickOf([tick EXCEPT !.due = @ \ {f}, !.waits = begins' # begins])
  BY DEF TickFires
<1>2. tick.on /\ UNCHANGED <<now, driven, stopping, removing, noticed, naps, events>>
  BY DEF TickFires
<1>3. f.routine \in Routines /\ f.attempt \in Nat \ {0} /\ tick.at \in Nat
  BY TypesAre DEF IInv, Ticks, Firings
<1>4. TickGoesOn
  <2> DEFINE t == [tick EXCEPT !.due = @ \ {f}, !.waits = begins' # begins]
  <2>1. t \in Ticks /\ t.on = tick.on /\ t.at = tick.at
    BY TypesAre DEF IInv, Ticks
  <2> HIDE DEF t
  <2>2. tick' = TickOf(t)
    BY <1>1 DEF t
  <2> QED BY <2>1, <2>2, TickOfIs DEF TickGoesOn
<1>5. naps = 0 => TickHolds' /\ tick.at <= now /\ now <= tick.at + Slack
  BY <1>2, <1>4, TickStays DEF IInv, Leases, TickHolds
<1> QED BY <1>1, <1>2, <1>3, <1>4, <1>5, Begins, TypesAre DEF IInv, TickGoesOn

LEMMA RunNowHolds ==
    ASSUME IInv, NEW r \in Routines, runNow(r)
    PROVE  IInv'
<1>1. /\ Begin(r, "person", now, 1) /\ events' = events + 1
      /\ UNCHANGED <<now, tick, driven, stopping, removing, noticed, naps>>
  BY DEF runNow, Event
<1>2. tick' \in Ticks /\ TickGoesOn /\ events' \in Nat /\ now \in Nat
  BY <1>1, TypesAre DEF IInv, TickGoesOn
<1>3. naps = 0 => TickHolds' /\ now <= now /\ now <= now + Slack
  BY <1>1, <1>2, TickStays, RoutineAssumption
<1> QED BY <1>1, <1>2, <1>3, Begins

\* The beat of a run that is executed comes before its lease ends.
LEMMA HeartbeatHolds ==
    ASSUME IInv, NEW k \in Runs, Heartbeat(k)
    PROVE  IInv'
<1> DEFINE r == runs[k].routine
<1>1. /\ held[k] # 0 /\ held[k] <= now /\ held' = [held EXCEPT ![k] = now + Renewal]
      /\ lock' = (IF lock[r] # 0 THEN [lock EXCEPT ![r] = now + Lease] ELSE lock)
      /\ UNCHANGED <<now, routine, runs, noticed, tick, begins, driven, stopping, removing,
                     naps, events>>
  BY DEF Heartbeat, rows
<1>2. /\ now \in Nat /\ Renewal \in Nat \ {0} /\ Lease \in Nat /\ Renewal < Lease
      /\ now + Renewal \in Nat /\ now + Lease \in Nat
      /\ r \in Routines /\ held[k] \in Nat
  BY RoutineAssumption, TypesAre, RunIs, SMTT(30) DEF IInv
<1>3. /\ held' \in [Runs -> Nat] /\ held'[k] = now + Renewal
      /\ \A j \in Runs : j # k => held'[j] = held[j]
  BY <1>1, <1>2, HeldTypes DEF IInv
<1>4. /\ lock' \in [Routines -> Nat] /\ \A q \in Routines : q # r => lock'[q] = lock[q]
      /\ lock[r] # 0 => lock'[r] = now + Lease
  BY <1>1, <1>2, LockTypes, TypesAre DEF IInv
<1>5. Same
  BY <1>1, RunIs DEF Same, IInv
<1>6. TypeOK' /\ Runs' = Runs
  BY <1>1, <1>3, <1>4, <1>5, StatusTypes, TypesAre DEF IInv
<1>7. Threads'
  BY <1>1, <1>6 DEF IInv, Threads
<1>8. ASSUME naps' = 0
      PROVE  BeginsHold' /\ RunsHold' /\ TickHolds' /\ Alone'
  <2>1. naps = 0 /\ BeginsHold /\ RunsHold /\ TickHolds /\ Alone
    BY <1>1, <1>8 DEF IInv, Leases
  <2>2. lock[r] # 0 \/ Gone(r)
    BY <1>1, <1>2, <2>1, TypesAre DEF IInv, RunsHold
  <2>3. \A b \in begins : b.routine \in Routines /\ b.routine # r
    BY <1>1, <2>1, CallIs DEF Alone
  <2>4. BeginsHold'
    BY <1>1, <1>4, <2>1, <2>3 DEF BeginsHold, Gone
  <2>5. now <= now + Renewal /\ now + Renewal < now + Lease
    BY <1>2
  <2>6. \A j \in Runs : j # k /\ held[j] # 0 => runs[j].routine # r /\ runs[j].routine \in Routines
    BY <1>1, <2>1, RunIs DEF Alone, IInv
  <2>7. RunsHold'
    BY <1>1, <1>3, <1>4, <1>6, <2>1, <2>2, <2>5, <2>6 DEF RunsHold, Gone
  <2>8. TickHolds' /\ Alone'
    BY <1>1, <1>3, <1>6, <2>1 DEF TickHolds, Alone
  <2> QED BY <2>4, <2>7, <2>8
<1> QED BY <1>6, <1>7, <1>8 DEF IInv, Leases

LEMMA PassHolds ==
    ASSUME IInv, Pass
    PROVE  IInv'
<1>1. /\ now' = now + 1
      /\ UNCHANGED <<routine, runs, noticed, lock, tick, begins, held, driven, stopping,
                     removing, naps, events>>
  BY DEF Pass, rows, calls
<1>2. /\ \A k \in Runs : held[k] # 0 => held[k] > now
      /\ \A b \in begins : now < b.at + Slack
      /\ tick.on => now < tick.at + Slack
  BY DEF Pass
<1>3. now \in Nat /\ now' \in Nat /\ Slack \in Nat /\ tick.at \in Nat
  BY <1>1, RoutineAssumption, TypesAre DEF IInv, Ticks
<1>4. TypeOK' /\ Threads'
  BY <1>1, <1>3 DEF IInv, TypeOK, Threads, Runs
<1>5. ASSUME naps' = 0
      PROVE  BeginsHold' /\ RunsHold' /\ TickHolds' /\ Alone'
  <2>1. naps = 0 /\ BeginsHold /\ RunsHold /\ TickHolds /\ Alone
    BY <1>1, <1>5 DEF IInv, Leases
  <2>2. BeginsHold'
    BY <1>1, <1>2, <1>3, <2>1, CallIs DEF BeginsHold, Gone
  <2>3. RunsHold'
    <3>1. \A k \in Runs : held[k] # 0 => now + 1 <= held[k]
      BY <1>2, <1>3, RunIs DEF IInv
    <3> QED BY <1>1, <2>1, <3>1 DEF RunsHold, Gone, Runs
  <2>4. TickHolds'
    BY <1>1, <1>2, <1>3, <2>1 DEF TickHolds
  <2>5. Alone'
    BY <1>1, <2>1 DEF Alone, Runs
  <2> QED BY <2>2, <2>3, <2>4, <2>5
<1> QED BY <1>4, <1>5 DEF IInv, Leases

LEMMA NapHolds ==
    ASSUME IInv, Nap
    PROVE  IInv'
<1>1. /\ now' \in Nat /\ naps' = naps + 1 /\ events' = events + 1
      /\ UNCHANGED <<routine, runs, noticed, lock, tick, begins, held, driven, stopping, removing>>
  BY RoutineAssumption, TypesAre DEF IInv, Nap, Event, rows, calls
<1>2. naps' \in Nat /\ naps' # 0 /\ events' \in Nat
  BY <1>1, TypesAre DEF IInv
<1> QED BY <1>1, <1>2 DEF IInv, TypeOK, Threads, Leases, Runs

LEMMA RestartHolds ==
    ASSUME IInv, Restart
    PROVE  IInv'
<1>1. /\ lock' = [r \in Routines |-> 0] /\ tick' = NoTick /\ begins' = {}
      /\ held' = [k \in Runs |-> 0] /\ driven' = {} /\ stopping' = {} /\ removing' = {}
      /\ UNCHANGED <<now, routine, noticed, naps>> /\ events' = events + 1
  BY DEF Restart, Event
<1>2. Same
  <2>1. \A k \in Runs : LET row == [runs[k] EXCEPT !.status = "failed", !.finishedAt = now]
                        IN row \in RunRows /\ row.routine = runs[k].routine
    <3>1. now \in Nat /\ "failed" \in Endings
      BY TypesAre DEF IInv, Endings
    <3> QED BY <3>1, RunIs DEF IInv, RunRows
  <2>2. runs' = [k \in Runs |-> IF runs[k].status \in Active
                                THEN [runs[k] EXCEPT !.status = "failed", !.finishedAt = now]
                                ELSE runs[k]]
    BY DEF Restart
  <2> QED BY <2>1, <2>2, RunIs DEF IInv, Same
<1>3. NoTick \in Ticks /\ ~NoTick.on
  BY DEF NoTick, Ticks
<1>4. held' \in [Runs -> Nat] /\ lock' \in [Routines -> Nat] /\ events' \in Nat
  BY <1>1, TypesAre DEF IInv
<1>5. TypeOK' /\ Runs' = Runs
  BY <1>1, <1>2, <1>3, <1>4, StatusTypes, TypesAre DEF IInv
<1>6. Threads' /\ Leases'
  BY <1>1, <1>3, <1>5 DEF Threads, Leases, BeginsHold, RunsHold, TickHolds, Alone
<1> QED BY <1>5, <1>6 DEF IInv
------------------------------------------------------------------------------
(* The theorems.                                                           *)

LEMMA Starting0 == Init => IInv
<1> SUFFICES ASSUME Init PROVE IInv
  OBVIOUS
<1>1. /\ runs = <<>> /\ held = <<>> /\ begins = {} /\ tick = NoTick /\ now = 0 /\ naps = 0
      /\ events = 0 /\ driven = {} /\ stopping = {} /\ removing = {} /\ noticed = {}
      /\ routine = [r \in Routines |-> [state |-> "on", lastRunAt |-> 0]]
      /\ lock = [r \in Routines |-> 0]
  BY DEF Init
<1>2. runs \in Seq(RunRows) /\ Len(runs) = 0 /\ Runs = {}
  BY <1>1, EmptySeq DEF Runs
<1>3. held \in [Runs -> Nat]
  <2>1. held \in Seq(Nat) /\ Len(held) = 0
    BY <1>1, EmptySeq
  <2> QED BY <1>2, <2>1, LenProperties
<1>4. NoTick \in Ticks /\ ~NoTick.on
  BY DEF NoTick, Ticks
<1>5. routine \in RoutineRows
  BY <1>1 DEF RoutineRows
<1>6. TypeOK
  BY <1>1, <1>2, <1>3, <1>4, <1>5 DEF TypeOK, Ticks, RoutineRows
<1>7. Threads /\ Leases
  BY <1>1, <1>2, <1>4 DEF Threads, Leases, BeginsHold, RunsHold, TickHolds, Alone
<1> QED BY <1>6, <1>7 DEF IInv

LEMMA Keeps == IInv /\ [Next]_vars => IInv'
<1> SUFFICES ASSUME IInv, [Next]_vars PROVE IInv'
  OBVIOUS
<1>1. ASSUME NEW r \in Routines, Asked(r)
      PROVE  IInv'
  BY <1>1, RunNowHolds, AsksHold DEF Asked
<1>2. ASSUME NEW k \in Runs, Running(k)
      PROVE  IInv'
  BY <1>2, HeartbeatHolds, RunEndsHolds, RunPausesHolds, AsksHold DEF Running
<1> QED BY <1>1, <1>2, TickBeginsHolds, TickFiresHolds, BeginningHolds, PassHolds, NapHolds,
           RestartHolds, AsksHold DEF Next

\* Every row, lease, tick and call keeps its type, and what is noted of runs
\* is of runs there are.
THEOREM RoutineTypes == Spec => []TypeOK
<1>1. IInv => TypeOK
  BY DEF IInv
<1> QED BY <1>1, Starting0, Keeps, PTL DEF Spec

\* While the host stays awake, no tick, retry, run now, deletion or restart
\* has two runs of one routine started or executed at once, and the one there
\* is holds a lease that has not lapsed (scheduler.ts, begin and execute).
THEOREM RunsTakeTurns == Spec => []OneAtATime
<1>1. IInv => OneAtATime
  <2> SUFFICES ASSUME IInv, naps = 0, NEW r \in Routines
               PROVE  /\ Cardinality(Starting(r)) + Cardinality(Executing(r)) <= 1
                      /\ Starting(r) \cup Executing(r) # {} => lock[r] > now \/ routine[r].state = "gone"
    BY DEF OneAtATime
  <2>1. Alone
    BY DEF IInv, Leases
  <2>2. Cardinality({}) = 0 /\ \A x : Cardinality({x}) = 1
    BY FS_EmptySet, FS_Singleton
  <2>3. CASE \E b \in begins : b.routine = r
    <3>1. PICK b \in begins : b.routine = r
      BY <2>3
    <3>2. Starting(r) = {b} /\ Executing(r) = {}
      BY <2>1, <3>1 DEF Alone, Starting, Executing
    <3>3. lock[r] > now \/ routine[r].state = "gone"
      BY <3>1, Holds DEF Gone
    <3>4. Cardinality(Starting(r)) = 1 /\ Cardinality(Executing(r)) = 0
      BY <2>2, <3>2
    <3> QED BY <3>3, <3>4
  <2>4. CASE /\ ~\E b \in begins : b.routine = r
             /\ \E k \in Runs : held[k] # 0 /\ runs[k].routine = r
    <3>1. PICK k \in Runs : held[k] # 0 /\ runs[k].routine = r
      BY <2>4
    <3>2. Starting(r) = {} /\ Executing(r) = {k}
      BY <2>1, <2>4, <3>1 DEF Alone, Starting, Executing
    <3>3. lock[r] > now \/ routine[r].state = "gone"
      BY <3>1, Holds DEF Gone
    <3>4. Cardinality(Starting(r)) = 0 /\ Cardinality(Executing(r)) = 1
      BY <2>2, <3>2
    <3> QED BY <3>3, <3>4
  <2>5. CASE /\ ~\E b \in begins : b.routine = r
             /\ ~\E k \in Runs : held[k] # 0 /\ runs[k].routine = r
    <3>1. Starting(r) = {} /\ Executing(r) = {}
      BY <2>5 DEF Starting, Executing
    <3> QED BY <2>2, <3>1
  <2> QED BY <2>3, <2>4, <2>5
<1> QED BY <1>1, Starting0, Keeps, PTL DEF Spec
------------------------------------------------------------------------------
(* The beats of a routine are a period apart.  A beat is due a period      *)
(* after the run its row says was the last, and no beat started after that *)
(* one; it stays so until the beat is started, since a routine is due once *)
(* in a tick, a tick ends before the next begins, and the call that starts *)
(* it keeps every other of the routine out.                                *)

\* The runs that started at a beat of their routine.
Beat(k) == runs[k].by = "schedule" /\ runs[k].attempt = 1

BeatsBefore(r, gap, at) ==
    \A k \in Runs : Beat(k) /\ runs[k].routine = r => runs[k].startedAt + gap <= at

Dated ==
    /\ \A k \in Runs : runs[k].startedAt <= now
    /\ \A b \in begins : b.at <= now
    /\ tick.on => tick.at <= now

\* A tick waits for the one call of begin it made.
Ticking ==
    /\ \A b \in begins : b.by = "schedule" => tick.on /\ tick.waits
    /\ \A b, c \in begins : b.by = "schedule" /\ c.by = "schedule" => b = c

Gap(b) == IF b.by = "schedule" THEN Every[b.routine] ELSE 0

LastIsKept == \A r \in Routines : Gone(r) \/ BeatsBefore(r, 0, routine[r].lastRunAt)

BeatOf(r) == [routine |-> r, attempt |-> 1]

DuesApart ==
    tick.on => \A r \in Routines : BeatOf(r) \in tick.due => BeatsBefore(r, Every[r], tick.at)

CallApart(b) ==
    b.run = 0 /\ b.attempt = 1 => BeatsBefore(b.routine, Gap(b), b.at)

CallsApart ==
    \A b \in begins :
        /\ CallApart(b)
        /\ b.run = 0 /\ b.attempt = 1 /\ b.by = "schedule" => BeatOf(b.routine) \notin tick.due

Paced ==
    /\ Dated
    /\ Ticking
    /\ naps = 0 => LastIsKept /\ DuesApart /\ CallsApart /\ BeatsAreApart

\* Rows that keep when and how they started.
SameDates ==
    /\ DOMAIN runs' = Runs
    /\ \A k \in Runs : /\ runs'[k].routine = runs[k].routine
                       /\ runs'[k].by = runs[k].by /\ runs'[k].attempt = runs[k].attempt
                       /\ runs'[k].startedAt = runs[k].startedAt

LEMMA SameDatesRuns ==
    ASSUME TypeOK', SameDates
    PROVE  Runs' = Runs
<1>1. runs' \in Seq(RunRows)
  BY DEF TypeOK
<1> QED BY <1>1 DEF SameDates, Runs

LEMMA DatesStay ==
    ASSUME Runs' = Runs, SameDates
    PROVE  /\ \A r, gap, at : BeatsBefore(r, gap, at) => BeatsBefore(r, gap, at)'
           /\ BeatsAreApart /\ naps = 0 => BeatsAreApart'
<1>1. \A k \in Runs : Beat(k)' = Beat(k)
  BY DEF SameDates, Beat
<1>2. ASSUME NEW r, NEW gap, NEW at, BeatsBefore(r, gap, at)
      PROVE  BeatsBefore(r, gap, at)'
  BY <1>1, <1>2 DEF SameDates, BeatsBefore
<1>3. ASSUME BeatsAreApart, naps = 0
      PROVE  BeatsAreApart'
  BY <1>3 DEF SameDates, BeatsAreApart
<1> QED BY <1>2, <1>3

\* Steps that start no run.
LEMMA PacedStays ==
    ASSUME IInv, IInv', Paced, Ticking', SameDates,
           now' \in Nat, now <= now', naps' = 0 => naps = 0,
           \A r \in Routines : \/ Gone(r)'
                               \/ ~Gone(r) /\ routine'[r].lastRunAt = routine[r].lastRunAt,
           tick'.on => tick'.at <= now',
           naps = 0 => DuesApart',
           \A b \in begins' :
              \/ b \in begins
              \/ b.at <= now' /\ (naps = 0 => CallApart(b)),
           naps = 0 => \A b \in begins' :
              b.run = 0 /\ b.attempt = 1 /\ b.by = "schedule" => BeatOf(b.routine) \notin tick'.due
    PROVE  Paced'
<1>0. Runs' = Runs
  BY SameDatesRuns DEF IInv
<1>1. Dated'
  <2>1. \A k \in Runs : runs[k].startedAt \in Nat
    <3>1. \A row \in RunRows : row.startedAt \in Nat
      BY DEF RunRows
    <3> QED BY <3>1, RunIs DEF IInv
  <2>2. \A b \in begins : b.at \in Nat
    BY TypesAre DEF IInv, Calls
  <2>3. now \in Nat
    BY TypesAre DEF IInv
  <2> QED BY <1>0, <2>1, <2>2, <2>3 DEF Paced, Dated, SameDates
<1>2. ASSUME naps' = 0
      PROVE  LastIsKept' /\ CallsApart' /\ BeatsAreApart'
  <2>1. naps = 0 /\ LastIsKept /\ CallsApart /\ BeatsAreApart
    BY <1>2 DEF Paced
  <2>2. LastIsKept'
    <3> SUFFICES ASSUME NEW r \in Routines, ~Gone(r)'
                 PROVE  BeatsBefore(r, 0, routine[r].lastRunAt)'
      BY DEF LastIsKept
    <3>1. ~Gone(r) /\ routine'[r].lastRunAt = routine[r].lastRunAt
      OBVIOUS
    <3>2. BeatsBefore(r, 0, routine[r].lastRunAt)
      BY <2>1, <3>1 DEF LastIsKept
    <3> QED BY <1>0, <3>1, <3>2, DatesStay DEF BeatsBefore, SameDates, Beat
  <2>3. \A b \in begins' : CallApart(b)
    BY <2>1 DEF CallsApart
  <2>4. \A b \in begins' : CallApart(b)'
    <3> SUFFICES ASSUME NEW b \in begins', b.run = 0, b.attempt = 1
                 PROVE  BeatsBefore(b.routine, Gap(b), b.at)'
      BY DEF CallApart, Gap
    <3>1. BeatsBefore(b.routine, Gap(b), b.at)
      BY <2>3 DEF CallApart
    <3> QED BY <1>0, <3>1, DatesStay DEF Gap
  <2>5. CallsApart'
    BY <2>1, <2>4 DEF CallsApart
  <2> QED BY <1>0, <2>1, <2>2, <2>5, DatesStay
<1>3. naps' = 0 => DuesApart'
  OBVIOUS
<1> QED BY <1>1, <1>2, <1>3 DEF Paced

\* What ends, pauses, stops, approves, removes or recovers runs changes their
\* status only, and when they finished.
LEMMA StatusOnly ==
    ASSUME TypeOK, NEW ks, NEW f, NEW g,
           runs' = [k \in Runs |-> IF k \in ks THEN [runs[k] EXCEPT !.status = f, !.finishedAt = g] ELSE runs[k]]
    PROVE  SameDates
<1>1. \A k \in Runs : LET row == [runs[k] EXCEPT !.status = f, !.finishedAt = g]
                      IN /\ row.routine = runs[k].routine /\ row.by = runs[k].by
                         /\ row.attempt = runs[k].attempt /\ row.startedAt = runs[k].startedAt
  BY RunIs DEF RunRows
<1> QED BY <1>1 DEF SameDates

LEMMA StatusesOnly ==
    ASSUME TypeOK, NEW ks, NEW f,
           runs' = [k \in Runs |-> IF k \in ks THEN [runs[k] EXCEPT !.status = f] ELSE runs[k]]
    PROVE  SameDates
<1>1. \A k \in Runs : LET row == [runs[k] EXCEPT !.status = f]
                      IN /\ row.routine = runs[k].routine /\ row.by = runs[k].by
                         /\ row.attempt = runs[k].attempt /\ row.startedAt = runs[k].startedAt
  BY RunIs DEF RunRows
<1> QED BY <1>1 DEF SameDates

LEMMA OneStatus ==
    ASSUME TypeOK, NEW k \in Runs, NEW f,
           runs' = runs \/ runs' = [runs EXCEPT ![k].status = f]
    PROVE  SameDates
<1>1. CASE runs' = runs
  BY <1>1, RunIs DEF SameDates
<1>2. CASE runs' = [runs EXCEPT ![k].status = f]
  <2>1. runs' = [j \in Runs |-> IF j \in {k} THEN [runs[j] EXCEPT !.status = f] ELSE runs[j]]
    BY <1>2, RunIs
  <2> QED BY <2>1, StatusesOnly
<1> QED BY <1>1, <1>2

LEMMA FinishedDates ==
    ASSUME TypeOK, NEW k \in Runs, NEW ending, runs' = Finished(k, ending)
    PROVE  SameDates
<1>1. CASE runs' = runs
  BY <1>1, RunIs DEF SameDates
<1>2. CASE runs' # runs
  <2>1. runs' = [runs EXCEPT ![k].status = ending, ![k].finishedAt = now]
    BY <1>2 DEF Finished
  <2>2. runs' = [runs EXCEPT ![k] = [runs[k] EXCEPT !.status = ending, !.finishedAt = now]]
    BY <2>1, RunIs
  <2>3. LET row == [runs[k] EXCEPT !.status = ending, !.finishedAt = now]
        IN /\ row.routine = runs[k].routine /\ row.by = runs[k].by
           /\ row.attempt = runs[k].attempt /\ row.startedAt = runs[k].startedAt
    BY RunIs DEF RunRows
  <2> QED BY <2>2, <2>3, RunIs DEF SameDates
<1> QED BY <1>1, <1>2

LEMMA StoppedDates ==
    ASSUME TypeOK, NEW ks, Stopped(ks)
    PROVE  SameDates
<1>1. runs' = [k \in Runs |-> IF k \in {j \in ks : runs[j].status = "awaiting"}
                              THEN [runs[k] EXCEPT !.status = "stopped", !.finishedAt = now] ELSE runs[k]]
  BY DEF Stopped
<1> QED BY <1>1, StatusOnly

\* A run starts: after every beat of its routine, by a period if it is a beat.
LEMMA PacedStarts ==
    ASSUME IInv, IInv', Paced, Ticking', NEW r \in Routines, NEW by \in {"schedule", "person"},
           NEW at \in Nat, NEW attempt \in Nat \ {0}, NEW status \in {"running", "failed"}, NEW beat \in Nat,
           NEW n, n = Len(runs) + 1, StartRun(r, by, at, attempt, status, beat),
           now' = now, naps' = naps, at <= now,
           tick'.on => tick.on /\ tick'.at = tick.at /\ tick'.due \subseteq tick.due,
           \A b \in begins' : b \in begins \/ (b.at <= now /\ b.run # 0),
           naps = 0 =>
              /\ \A b \in begins' : b.run = 0 => b.routine # r
              /\ by = "schedule" /\ attempt = 1 /\ tick'.on => BeatOf(r) \notin tick'.due
              /\ attempt = 1 => BeatsBefore(r, IF by = "schedule" THEN Every[r] ELSE 0, at)
    PROVE  Paced'
<1>1. /\ Runs' = Runs \cup {n} /\ n \notin Runs
      /\ runs'[n] = Row(r, by, at, attempt, status)
      /\ \A k \in Runs : runs'[k] = runs[k]
      /\ \A q \in Routines : routine'[q].state = routine[q].state
  <2>1. runs \in Seq(RunRows) /\ n \in Nat
    BY RunIs DEF IInv, TypeOK
  <2>2. runs' = Append(runs, Row(r, by, at, attempt, status))
    BY DEF StartRun
  <2>3. Row(r, by, at, attempt, status) \in RunRows
    BY RowIs
  <2>4. runs'[n] = Row(r, by, at, attempt, status)
    BY <2>1, <2>2, <2>3
  <2> QED BY <2>4, Appends DEF IInv
<1>2. runs'[n].routine = r /\ runs'[n].by = by /\ runs'[n].attempt = attempt /\ runs'[n].startedAt = at
  BY <1>1 DEF Row
<1>3. /\ Beat(n)' <=> by = "schedule" /\ attempt = 1
      /\ \A k \in Runs : Beat(k)' = Beat(k)
  BY <1>1, <1>2 DEF Beat
<1>4. /\ attempt = 1 /\ ~Gone(r) => routine'[r].lastRunAt = at
      /\ \A q \in Routines : /\ Gone(q)' = Gone(q)
                             /\ (q # r \/ attempt # 1 \/ Gone(r)) => routine'[q].lastRunAt = routine[q].lastRunAt
  <2>1. routine \in RoutineRows
    BY TypesAre DEF IInv
  <2>2. routine' = IF attempt = 1 /\ ~Gone(r) THEN [routine EXCEPT ![r].lastRunAt = at] ELSE routine
    BY DEF StartRun, Gone
  <2>3. \A q \in Routines : Gone(q)' = Gone(q)
    BY <1>1 DEF Gone
  <2> QED BY <2>1, <2>2, <2>3 DEF RoutineRows
<1>5. \A k \in Runs : runs[k].startedAt \in Nat /\ runs[k].routine \in Routines
  <2>1. \A row \in RunRows : row.startedAt \in Nat
    BY DEF RunRows
  <2> QED BY <2>1, RunIs DEF IInv
<1>6. Dated'
  BY <1>1, <1>2 DEF Paced, Dated
<1>7. ASSUME naps' = 0
      PROVE  LastIsKept' /\ DuesApart' /\ CallsApart' /\ BeatsAreApart'
  <2>1. naps = 0 /\ LastIsKept /\ DuesApart /\ CallsApart /\ BeatsAreApart
    BY <1>7 DEF Paced
  <2>2. ASSUME NEW q, NEW gap, NEW t, BeatsBefore(q, gap, t),
               q = r /\ by = "schedule" /\ attempt = 1 => at + gap <= t
        PROVE  BeatsBefore(q, gap, t)'
    BY <2>2, <1>1, <1>2, <1>3 DEF BeatsBefore
  <2>3. Every \in [Routines -> Nat \ {0}]
    BY RoutineAssumption
  <2>4. LastIsKept'
    <3> SUFFICES ASSUME NEW q \in Routines, ~Gone(q)
                 PROVE  BeatsBefore(q, 0, routine[q].lastRunAt)'
      BY <1>4 DEF LastIsKept
    <3>1. CASE q = r /\ attempt = 1
      <4>1. BeatsBefore(r, 0, at)
        BY <2>1, <2>3, <1>5, <3>1 DEF BeatsBefore
      <4>2. BeatsBefore(r, 0, at)'
        BY <2>2, <4>1
      <4>3. routine'[q].lastRunAt = at
        BY <1>4, <3>1
      <4> QED BY <3>1, <4>2, <4>3 DEF BeatsBefore
    <3>2. CASE q # r \/ attempt # 1
      <4>1. BeatsBefore(q, 0, routine[q].lastRunAt)
        BY <2>1 DEF LastIsKept
      <4>2. BeatsBefore(q, 0, routine[q].lastRunAt) /\ routine'[q].lastRunAt = routine[q].lastRunAt
        BY <1>4, <3>2, <4>1
      <4> QED BY <3>2, <4>2, <1>1, <1>2, <1>3 DEF BeatsBefore
    <3> QED BY <3>1, <3>2
  <2>5. DuesApart'
    <3> SUFFICES ASSUME tick'.on, NEW q \in Routines, BeatOf(q) \in tick'.due
                 PROVE  BeatsBefore(q, Every[q], tick.at)'
      BY DEF DuesApart, BeatOf
    <3>1. BeatsBefore(q, Every[q], tick.at) /\ tick'.at = tick.at
      BY <2>1 DEF DuesApart
    <3>2. ~(q = r /\ by = "schedule" /\ attempt = 1)
      BY <2>1
    <3> QED BY <3>1, <3>2, <1>1, <1>2, <1>3 DEF BeatsBefore
  <2>6. CallsApart'
    <3> SUFFICES ASSUME NEW b \in begins', b.run = 0, b.attempt = 1
                 PROVE  BeatsBefore(b.routine, Gap(b), b.at)'
                        /\ (b.by = "schedule" => BeatOf(b.routine) \notin tick'.due)
      BY DEF CallsApart, CallApart, Gap, BeatOf
    <3>1. b \in begins /\ b.routine # r
      BY <2>1
    <3>2. BeatsBefore(b.routine, Gap(b), b.at)
          /\ (b.by = "schedule" => BeatOf(b.routine) \notin tick.due)
      BY <2>1, <3>1 DEF CallsApart, CallApart
    <3>3. b.by = "schedule" => tick'.on
      BY DEF Ticking
    <3> QED BY <2>2, <3>1, <3>2, <3>3 DEF Gap
  <2>7. BeatsAreApart'
    <3> SUFFICES ASSUME NEW j \in Runs', NEW k \in Runs', j < k, runs'[j].routine = runs'[k].routine,
                        Beat(j)', Beat(k)'
                 PROVE  runs'[k].startedAt >= runs'[j].startedAt + Every[runs'[j].routine]
      BY DEF BeatsAreApart, Beat
    <3>1. \A i \in Runs : i < n
      BY RunIs, <1>1 DEF IInv, Runs
    <3>2. n \in Nat
      BY RunIs DEF IInv
    <3>3. CASE k \in Runs
      <4>1. j \in Runs
        BY <1>1, <3>1, <3>2, <3>3, RunIs DEF IInv
      <4> QED BY <2>1, <1>1, <1>3, <3>3, <4>1 DEF BeatsAreApart, Beat
    <3>4. CASE k = n
      <4>1. j \in Runs
        BY <1>1, <3>2, <3>4
      <4>2. by = "schedule" /\ attempt = 1 /\ Beat(j) /\ runs[j].routine = r
        BY <1>1, <1>2, <1>3, <3>4, <4>1
      <4>3. runs[j].startedAt + Every[r] <= at
        BY <2>1, <4>1, <4>2 DEF BeatsBefore
      <4> QED BY <1>1, <1>2, <1>5, <2>3, <3>4, <4>1, <4>2, <4>3
    <3> QED BY <1>1, <3>3, <3>4
  <2> QED BY <2>4, <2>5, <2>6, <2>7
<1> QED BY <1>6, <1>7 DEF Paced

\* Steps that leave the tick, the calls and the clock alone.
LEMMA PacedAside ==
    ASSUME IInv, IInv', Paced, SameDates, UNCHANGED <<tick, begins, now, naps>>,
           \A r \in Routines : \/ Gone(r)'
                               \/ ~Gone(r) /\ routine'[r].lastRunAt = routine[r].lastRunAt
    PROVE  Paced'
<1>1. Ticking'
  BY DEF Paced, Ticking
<1>2. now \in Nat
  BY TypesAre DEF IInv
<1>3. Runs' = Runs
  BY SameDatesRuns DEF IInv
<1>4. naps = 0 => DuesApart'
  <2> SUFFICES ASSUME naps = 0, tick'.on, NEW r \in Routines, BeatOf(r) \in tick'.due
               PROVE  BeatsBefore(r, Every[r], tick.at)'
    BY DEF DuesApart, BeatOf
  <2>1. BeatsBefore(r, Every[r], tick.at) /\ tick'.at = tick.at
    BY DEF Paced, DuesApart
  <2> QED BY <1>3, <2>1 DEF BeatsBefore, SameDates, Beat
<1> QED BY <1>1, <1>2, <1>4, PacedStays DEF Paced, Dated, CallsApart

LEMMA PacedRuns ==
    ASSUME IInv, IInv', Paced, NEW k \in Runs, Running(k)
    PROVE  Paced'
<1> USE DEF IInv
<1>1. UNCHANGED <<routine, tick, begins, now, naps>>
  BY DEF Running, Heartbeat, RunEnds, RunPauses, DriveEnds, DrivePauses,
         holdForRequest, releaseRequest, approve, stopRun, rows, calls
<1>2. ASSUME Heartbeat(k)
      PROVE  SameDates
  BY <1>2, RunIs DEF Heartbeat, rows, SameDates
<1>3. ASSUME RunEnds(k)
      PROVE  SameDates
  BY <1>3, FinishedDates DEF RunEnds, finish
<1>4. ASSUME RunPauses(k) \/ DrivePauses(k) \/ holdForRequest(k) \/ releaseRequest(k) \/ approve(k)
      PROVE  SameDates
  BY <1>4, OneStatus DEF RunPauses, DrivePauses, holdForRequest, releaseRequest, approve
<1>5. ASSUME DriveEnds(k)
      PROVE  SameDates
  BY <1>5, FinishedDates DEF DriveEnds
<1>6. ASSUME stopRun(k)
      PROVE  SameDates
  BY <1>6, StoppedDates DEF stopRun
<1>7. SameDates
  BY <1>2, <1>3, <1>4, <1>5, <1>6 DEF Running
<1> QED BY <1>1, <1>7, PacedAside DEF Gone

LEMMA PacedAsks ==
    ASSUME IInv, IInv', Paced, NEW r \in Routines, RemoveAsked(r) \/ remove(r) \/ setEnabled(r)
    PROVE  Paced'
<1> USE DEF IInv
<1>1. UNCHANGED <<tick, begins, now, naps>>
  BY DEF RemoveAsked, remove, setEnabled, calls
<1>2. CASE RemoveAsked(r)
  <2>1. SameDates /\ routine' = routine
    BY <1>2, StoppedDates DEF RemoveAsked
  <2> QED BY <1>1, <2>1, PacedAside DEF Gone
<1>3. CASE remove(r)
  <2>1. runs' = [k \in Runs |-> IF k \in {j \in Runs : runs[j].routine = r}
                                THEN [runs[k] EXCEPT !.status = "gone"] ELSE runs[k]]
    BY <1>3 DEF remove
  <2>2. SameDates
    BY <2>1, StatusesOnly
  <2>3. routine' = [routine EXCEPT ![r].state = "gone"] /\ routine \in RoutineRows
    BY <1>3, TypesAre DEF remove
  <2>4. \A q \in Routines : \/ Gone(q)'
                            \/ ~Gone(q) /\ routine'[q].lastRunAt = routine[q].lastRunAt
    BY <2>3 DEF RoutineRows, Gone
  <2> QED BY <1>1, <2>2, <2>4, PacedAside
<1>4. CASE setEnabled(r)
  <2>1. SameDates
    BY <1>4, RunIs DEF setEnabled, SameDates
  <2>2. /\ routine' = [routine EXCEPT ![r].state = IF @ = "on" THEN "off" ELSE "on"]
        /\ ~Gone(r) /\ routine \in RoutineRows
    BY <1>4, TypesAre DEF setEnabled, Gone
  <2>3. \A q \in Routines : \/ Gone(q)'
                            \/ ~Gone(q) /\ routine'[q].lastRunAt = routine[q].lastRunAt
    BY <2>2 DEF RoutineRows, Gone
  <2> QED BY <1>1, <2>1, <2>3, PacedAside
<1> QED BY <1>2, <1>3, <1>4

LEMMA PacedTime ==
    ASSUME IInv, IInv', Paced, Pass \/ Nap \/ Restart \/ UNCHANGED vars
    PROVE  Paced'
<1> USE DEF IInv
<1>1. CASE UNCHANGED vars
  BY <1>1, RunIs, PacedAside DEF vars, SameDates, Gone
<1>2. CASE Restart
  <2>1. tick' = NoTick /\ begins' = {} /\ UNCHANGED <<now, routine, naps>>
    BY <1>2 DEF Restart
  <2>2. PICK ks \in SUBSET Runs :
           runs' = [k \in Runs |-> IF k \in ks
                                   THEN [runs[k] EXCEPT !.status = "failed", !.finishedAt = now] ELSE runs[k]]
    <3>1. runs' = [k \in Runs |-> IF k \in {j \in Runs : runs[j].status \in Active}
                                  THEN [runs[k] EXCEPT !.status = "failed", !.finishedAt = now] ELSE runs[k]]
      BY <1>2 DEF Restart
    <3> QED BY <3>1
  <2>3. SameDates
    <3> HIDE <1>2
    <3> QED BY <2>2, StatusOnly
  <2>4. ~tick'.on /\ Ticking' /\ DuesApart'
    BY <2>1 DEF NoTick, Ticking, DuesApart
  <2>5. now \in Nat
    BY TypesAre
  <2> QED BY <2>1, <2>3, <2>4, <2>5, PacedStays DEF Gone
<1>3. CASE Pass \/ Nap
  <2>1. UNCHANGED <<runs, routine, tick, begins>> /\ now \in Nat
    BY <1>3, TypesAre DEF Pass, Nap, rows, calls
  <2>2. now' \in Nat /\ now <= now' /\ (naps' = 0 => naps = 0)
    BY <1>3, <2>1, RoutineAssumption, TypesAre DEF Pass, Nap
  <2>3. SameDates
    BY <2>1, RunIs DEF SameDates
  <2>4. Ticking'
    BY <2>1 DEF Paced, Ticking
  <2>5. naps = 0 => DuesApart'
    BY <2>1 DEF Paced, DuesApart, BeatOf, BeatsBefore, Beat, Runs
  <2>6. tick.on => tick.at \in Nat
    BY TypesAre DEF Ticks
  <2> QED BY <2>1, <2>2, <2>3, <2>4, <2>5, <2>6, PacedStays DEF Gone, Paced, Dated, CallsApart
<1> QED BY <1>1, <1>2, <1>3

LEMMA ReturnsTicks ==
    ASSUME IInv, Ticking, NEW b \in begins, NEW after, Returns(b, after),
           \/ after = {}
           \/ \E c : after = {c} /\ c.by = b.by
    PROVE  /\ Ticking' /\ begins' = (begins \ {b}) \cup after
           /\ tick'.on => tick.on /\ tick'.at = tick.at /\ tick'.due = tick.due
<1>1. tick \in Ticks
  BY TypesAre DEF IInv
<1>2. begins' = (begins \ {b}) \cup after
  BY DEF Returns
<1>3. CASE b.by = "schedule" /\ after = {}
  <2>1. tick' = TickOf([tick EXCEPT !.waits = FALSE])
    BY <1>3 DEF Returns
  <2>2. tick'.on => tick.on /\ tick'.at = tick.at /\ tick'.due = tick.due
    BY <1>1, <2>1 DEF TickOf, Ticks, NoTick
  <2>3. \A c \in begins' : c.by # "schedule"
    BY <1>2, <1>3 DEF Ticking
  <2> QED BY <1>2, <2>2, <2>3 DEF Ticking
<1>4. CASE ~(b.by = "schedule" /\ after = {})
  <2>1. tick' = tick
    BY <1>4 DEF Returns
  <2> QED BY <1>2, <2>1 DEF Ticking
<1> QED BY <1>3, <1>4

\* What a call of begin needs, to start its run.
LEMMA CallStarts ==
    ASSUME IInv, Paced, NEW b \in begins
    PROVE  /\ b.routine \in Routines /\ b.by \in {"schedule", "person"} /\ b.at \in Nat
           /\ b.attempt \in Nat \ {0} /\ b.at <= now
           /\ naps = 0 =>
                 /\ \A c \in begins : c.routine = b.routine => c = b
                 /\ b.run = 0 /\ b.attempt = 1 =>
                       /\ BeatsBefore(b.routine, IF b.by = "schedule" THEN Every[b.routine] ELSE 0, b.at)
                       /\ b.by = "schedule" => BeatOf(b.routine) \notin tick.due
<1>1. b \in Calls /\ Dated /\ (naps = 0 => CallsApart /\ Alone)
  BY TypesAre DEF IInv, Paced, Leases
<1>2. b.routine \in Routines /\ b.by \in {"schedule", "person"} /\ b.at \in Nat /\ b.attempt \in Nat \ {0}
  BY <1>1 DEF Calls
<1>3. naps = 0 => \A c \in begins : c.routine = b.routine => c = b
  BY <1>1 DEF Alone
<1> QED BY <1>1, <1>2, <1>3 DEF Dated, CallsApart, CallApart, Gap

LEMMA PacedBegins ==
    ASSUME IInv, IInv', Paced, NEW b \in begins, Beginning(b)
    PROVE  Paced'
<1> USE DEF IInv
<1>0. now \in Nat /\ Renewal \in Nat \ {0} /\ Ticking /\ Dated
  BY RoutineAssumption, TypesAre DEF Paced
<1>1. CASE ReadThrows(b)
  <2>1. /\ begins' = begins \ {b} /\ UNCHANGED <<now, routine, runs, naps>>
        /\ tick' = IF b.by = "schedule" THEN NoTick ELSE tick
    BY <1>1 DEF ReadThrows
  <2>2. Ticking'
    BY <1>0, <2>1 DEF Ticking
  <2>3. SameDates
    BY <2>1, RunIs DEF SameDates
  <2>4. tick'.on => tick' = tick
    BY <2>1 DEF NoTick
  <2>5. naps = 0 => DuesApart'
    BY <2>1, <2>4 DEF Paced, DuesApart, BeatOf, BeatsBefore, Beat, Runs
  <2>6. naps = 0 => \A c \in begins' :
           c.run = 0 /\ c.attempt = 1 /\ c.by = "schedule" => BeatOf(c.routine) \notin tick'.due
    BY <2>1, <2>2, <2>4 DEF Paced, CallsApart, Ticking
  <2> QED BY <1>0, <2>1, <2>2, <2>3, <2>4, <2>5, <2>6, PacedStays DEF Gone, Dated
<1>2. ASSUME NEW status \in {"running", "failed"}, NEW beat \in Nat, NEW after,
             StartRun(b.routine, b.by, b.at, b.attempt, status, beat), b.run = 0,
             Returns(b, after), now' = now, naps' = naps,
             \/ after = {}
             \/ \E c : after = {c} /\ c.by = b.by /\ c.at = b.at /\ c.run # 0
      PROVE  Paced'
  <2>1. /\ Ticking' /\ begins' = (begins \ {b}) \cup after
        /\ tick'.on => tick.on /\ tick'.at = tick.at /\ tick'.due = tick.due
    BY <1>0, <1>2, ReturnsTicks
  <2>2. \A c \in begins' : c \in begins \/ (c.at <= now /\ c.run # 0)
    BY <1>2, <2>1, CallStarts
  <2>3. naps = 0 =>
           /\ \A c \in begins' : c.run = 0 => c.routine # b.routine
           /\ b.by = "schedule" /\ b.attempt = 1 /\ tick'.on => BeatOf(b.routine) \notin tick'.due
           /\ b.attempt = 1 =>
                 BeatsBefore(b.routine, IF b.by = "schedule" THEN Every[b.routine] ELSE 0, b.at)
    BY <1>2, <2>1, CallStarts
  <2>4. PICK n : n = Len(runs) + 1
    OBVIOUS
  <2>5. tick'.on => tick.on /\ tick'.at = tick.at /\ tick'.due \subseteq tick.due
    BY <2>1
  <2>6. /\ b.routine \in Routines /\ b.by \in {"schedule", "person"} /\ b.at \in Nat
        /\ b.attempt \in Nat \ {0} /\ b.at <= now
    BY CallStarts
  <2>7. Ticking'
    BY <2>1
  <2> QED BY <1>2, <2>2, <2>3, <2>4, <2>5, <2>6, <2>7, PacedStarts
<1>3. CASE ReadFails(b)
  BY <1>2, <1>3 DEF ReadFails
<1>4. CASE ReadStarts(b)
  <2>1. now + Renewal \in Nat
    BY <1>0
  <2> QED BY <1>2, <1>4, <2>1 DEF ReadStarts
<1>5. CASE ReadOpens(b)
  <2>1. PICK n : n = Len(runs) + 1
    OBVIOUS
  <2>2. b \in Calls /\ n \in Nat /\ n # 0
    BY <2>1, TypesAre, RunIs
  <2>3. PICK c : c = [b EXCEPT !.run = n]
    OBVIOUS
  <2>4. c.by = b.by /\ c.at = b.at /\ c.run # 0
    BY <2>2, <2>3 DEF Calls
  <2>5. StartRun(b.routine, b.by, b.at, b.attempt, "running", 0) /\ b.run = 0 /\ Returns(b, {c})
        /\ now' = now /\ naps' = naps
    BY <1>5, <2>1, <2>3 DEF ReadOpens
  <2> QED BY <1>2, <2>4, <2>5
<1>6. CASE ThreadOpens(b)
  <2>1. Returns(b, {}) /\ UNCHANGED <<now, routine, naps>> /\ b.run \in Runs
    BY <1>6 DEF ThreadOpens, Threads
  <2>2. /\ Ticking' /\ begins' = begins \ {b}
        /\ tick'.on => tick.on /\ tick'.at = tick.at /\ tick'.due = tick.due
    BY <1>0, <2>1, ReturnsTicks
  <2>3. SameDates
    <3>1. CASE runs[b.run].status = "running" /\ routine[b.routine].state = "gone"
      <4>1. runs' = Finished(b.run, "failed")
        BY <1>6, <3>1 DEF ThreadOpens, finish
      <4> QED BY <2>1, <4>1, FinishedDates
    <3>2. CASE ~(runs[b.run].status = "running" /\ routine[b.routine].state = "gone")
      <4>1. runs' = runs
        BY <1>6, <3>2 DEF ThreadOpens
      <4> QED BY <4>1, RunIs DEF SameDates
    <3> QED BY <3>1, <3>2
  <2>4. Runs' = Runs
    BY <2>3, SameDatesRuns
  <2>5. naps = 0 => DuesApart'
    <3> SUFFICES ASSUME naps = 0, tick'.on, NEW r \in Routines, BeatOf(r) \in tick'.due
                 PROVE  BeatsBefore(r, Every[r], tick.at)'
      BY DEF DuesApart, BeatOf
    <3>1. BeatsBefore(r, Every[r], tick.at) /\ tick'.at = tick.at
      BY <2>2 DEF Paced, DuesApart
    <3> QED BY <2>3, <2>4, <3>1 DEF BeatsBefore, SameDates, Beat
  <2>6. naps = 0 => \A c \in begins' :
           c.run = 0 /\ c.attempt = 1 /\ c.by = "schedule" => BeatOf(c.routine) \notin tick'.due
    BY <2>2 DEF Paced, CallsApart, Ticking
  <2>7. Ticking' /\ (tick'.on => tick'.at <= now')
    BY <1>0, <2>1, <2>2 DEF Dated
  <2> QED BY <1>0, <2>1, <2>2, <2>3, <2>5, <2>6, <2>7, PacedStays DEF Gone
<1> QED BY <1>1, <1>3, <1>4, <1>5, <1>6 DEF Beginning

\* A beat is a period after the last run, at the least.
LEMMA BeatIsLater ==
    ASSUME NEW r \in Routines, NEW at \in Nat, TypeOK
    PROVE  nextBeat(r, at) >= routine[r].lastRunAt + Every[r]
<1>1. routine[r].lastRunAt \in Nat /\ Every[r] \in Nat \ {0} /\ Grace \in Nat
  BY RoutineAssumption, TypesAre DEF RoutineRows
<1>2. ASSUME NEW steps \in Int, NEW e \in Nat, steps > 1
      PROVE  steps * e >= e
  <2>1. (steps - 1) * e >= 0 /\ steps * e = (steps - 1) * e + e
    BY <1>2
  <2> QED BY <2>1, <1>2
<1> DEFINE anchor == routine[r].lastRunAt
           from   == IF r \in Skips /\ at > anchor + Grace THEN at - Grace ELSE anchor
           steps  == (from - anchor + Every[r] - 1) \div Every[r]
<1>3. steps \in Int
  BY <1>1
<1>4. nextBeat(r, at) = anchor + (IF steps > 1 THEN steps ELSE 1) * Every[r]
  BY DEF nextBeat
<1> HIDE DEF steps
<1>5. CASE steps > 1
  <2>1. steps * Every[r] >= Every[r] /\ steps * Every[r] \in Int
    BY <1>1, <1>2, <1>3, <1>5
  <2>2. nextBeat(r, at) = anchor + steps * Every[r]
    BY <1>4, <1>5
  <2> QED BY <1>1, <2>1, <2>2
<1>6. CASE ~(steps > 1)
  <2>1. nextBeat(r, at) = anchor + Every[r]
    BY <1>1, <1>4, <1>6
  <2> QED BY <1>1, <2>1
<1> QED BY <1>5, <1>6

\* A beat that is due is a period after every beat there was.
LEMMA DueApart ==
    ASSUME IInv, Paced, naps = 0, NEW r \in Routines, NEW f \in Due(r, now), f.attempt = 1
    PROVE  BeatsBefore(r, Every[r], now)
<1>0. now \in Nat /\ Every[r] \in Nat /\ routine[r].lastRunAt \in Nat
  BY RoutineAssumption, TypesAre DEF RoutineRows, IInv
<1>1. f \in nextFiring(r, now) /\ f.at <= now
  BY DEF Due
<1>2. f \notin pendingRetry(r)
  <2> SUFFICES ASSUME f \in pendingRetry(r) PROVE FALSE
    OBVIOUS
  <2>1. PICK k \in RunsOf(runs, r) : f.attempt = runs[k].attempt + 1
    BY DEF pendingRetry
  <2>2. k \in Runs
    BY <2>1, RunIs DEF RunsOf, Runs, IInv
  <2>3. \A row \in RunRows : row.attempt \in Nat \ {0}
    BY DEF RunRows
  <2> QED BY <2>1, <2>2, <2>3, RunIs DEF IInv
<1>3. f = [at |-> nextBeat(r, now), attempt |-> 1] /\ ~Gone(r)
  BY <1>1, <1>2 DEF nextFiring, Gone
<1>4. nextBeat(r, now) >= routine[r].lastRunAt + Every[r] /\ nextBeat(r, now) <= now
  BY <1>0, <1>1, <1>3, BeatIsLater DEF IInv
<1>5. routine[r].lastRunAt + Every[r] <= now
  <2>1. nextBeat(r, now) \in Int
    BY <1>0, RoutineAssumption DEF nextBeat
  <2> QED BY <1>0, <1>4, <2>1
<1>6. BeatsBefore(r, 0, routine[r].lastRunAt)
  BY <1>3 DEF Paced, LastIsKept
<1>7. \A k \in Runs : runs[k].startedAt \in Nat
  <2>1. \A row \in RunRows : row.startedAt \in Nat
    BY DEF RunRows
  <2> QED BY <2>1, RunIs DEF IInv
<1> QED BY <1>0, <1>5, <1>6, <1>7 DEF BeatsBefore

LEMMA PacedTickBegins ==
    ASSUME IInv, IInv', Paced, TickBegins
    PROVE  Paced'
<1> DEFINE due == UNION {{[routine |-> r, attempt |-> f.attempt] : f \in Due(r, now)} :
                          r \in {r \in Routines : Room(r)}}
<1>1. /\ tick' = [at |-> now, due |-> due, waits |-> FALSE, on |-> TRUE]
      /\ ~tick.on /\ UNCHANGED <<now, routine, runs, begins, naps>>
  BY DEF TickBegins
<1>2. ASSUME NEW r \in Routines, BeatOf(r) \in due
      PROVE  \E f \in Due(r, now) : f.attempt = 1
  <2>1. PICK q \in Routines : BeatOf(r) \in {[routine |-> q, attempt |-> f.attempt] : f \in Due(q, now)}
    BY <1>2
  <2>2. PICK f \in Due(q, now) : BeatOf(r) = [routine |-> q, attempt |-> f.attempt]
    BY <2>1
  <2>3. BeatOf(r).routine = r /\ BeatOf(r).attempt = 1
    BY DEF BeatOf
  <2>4. q = r /\ f.attempt = 1
    BY <2>2, <2>3
  <2> QED BY <2>4
<1> HIDE DEF due
<1>3. SameDates
  BY <1>1, RunIs DEF SameDates, IInv
<1>4. Ticking' /\ (\A b \in begins : b.by # "schedule")
  BY <1>1 DEF Paced, Ticking
<1>5. ASSUME naps = 0
      PROVE  DuesApart'
  <2> SUFFICES ASSUME NEW r \in Routines, BeatOf(r) \in due
               PROVE  BeatsBefore(r, Every[r], now)
    BY <1>1 DEF DuesApart, BeatOf, BeatsBefore, Beat, Runs
  <2> QED BY <1>2, <1>5, DueApart
<1>6. now \in Nat /\ tick'.at = now
  BY <1>1, TypesAre DEF IInv
<1> QED BY <1>1, <1>3, <1>4, <1>5, <1>6, PacedStays DEF Gone

\* begin, called by a tick or a person: the run starts, or the call waits.
LEMMA PacedCalls ==
    ASSUME IInv, IInv', Paced, Ticking', NEW r \in Routines, NEW by \in {"schedule", "person"}, NEW at \in Nat,
           NEW attempt \in Nat \ {0}, Begin(r, by, at, attempt), now' = now, naps' = naps, at <= now,
           tick'.on => tick.on /\ tick'.at = tick.at /\ tick'.due \subseteq tick.due,
           by = "schedule" /\ attempt = 1 /\ tick'.on => BeatOf(r) \notin tick'.due,
           naps = 0 /\ attempt = 1 => BeatsBefore(r, IF by = "schedule" THEN Every[r] ELSE 0, at)
    PROVE  Paced'
<1> USE DEF IInv
<1>1. ASSUME UNCHANGED <<runs, routine>>,
             \A b \in begins' : b \in begins \/ (b.at <= now /\ (naps = 0 => CallApart(b))),
             naps = 0 => \A b \in begins' :
                b.run = 0 /\ b.attempt = 1 /\ b.by = "schedule" /\ tick'.on => BeatOf(b.routine) \notin tick'.due
      PROVE  Paced'
  <2>1. SameDates /\ now \in Nat
    BY <1>1, RunIs, TypesAre DEF SameDates
  <2>2. naps = 0 => DuesApart'
    <3> SUFFICES ASSUME naps = 0, tick'.on, NEW q \in Routines, BeatOf(q) \in tick'.due
                 PROVE  BeatsBefore(q, Every[q], tick.at)'
      BY DEF DuesApart, BeatOf
    <3>1. BeatsBefore(q, Every[q], tick.at) /\ tick'.at = tick.at
      BY DEF Paced, DuesApart
    <3> QED BY <1>1, <3>1 DEF BeatsBefore, Runs, Beat
  <2>3. \A b \in begins' : b.by = "schedule" => tick'.on
    BY DEF Ticking
  <2>4. tick'.on => tick'.at <= now
    BY DEF Paced, Dated
  <2> QED BY <1>1, <2>1, <2>2, <2>3, <2>4, PacedStays DEF Gone
<1>2. CASE UNCHANGED <<routine, runs, lock, begins, held>>
  <2>1. naps = 0 => \A b \in begins' :
           b.run = 0 /\ b.attempt = 1 /\ b.by = "schedule" /\ tick'.on => BeatOf(b.routine) \notin tick'.due
    BY <1>2 DEF Paced, CallsApart
  <2> QED BY <1>1, <1>2, <2>1
<1>3. CASE ~UNCHANGED <<routine, runs, lock, begins, held>> /\ r \in FromFile
  <2>1. PICK c : c = [routine |-> r, at |-> at, by |-> by, attempt |-> attempt, run |-> 0]
    OBVIOUS
  <2>2. begins' = begins \cup {c} /\ UNCHANGED <<routine, runs>>
    BY <1>3, <2>1 DEF Begin
  <2>3. c.at <= now /\ (naps = 0 => CallApart(c))
    BY <2>1 DEF CallApart, Gap
  <2>4. naps = 0 => \A b \in begins' :
           b.run = 0 /\ b.attempt = 1 /\ b.by = "schedule" /\ tick'.on => BeatOf(b.routine) \notin tick'.due
    BY <2>1, <2>2 DEF Paced, CallsApart
  <2> QED BY <1>1, <2>2, <2>3, <2>4
<1>4. CASE ~UNCHANGED <<routine, runs, lock, begins, held>> /\ r \notin FromFile
  <2>1. PICK n : n = Len(runs) + 1
    OBVIOUS
  <2>2. PICK beat \in Nat \ {0} : beat = now + Renewal
    BY RoutineAssumption, TypesAre
  <2>3. StartRun(r, by, at, attempt, "running", beat) /\ begins' = begins
    BY <1>4, <2>2 DEF Begin
  <2>4. naps = 0 => \A b \in begins' : b.run = 0 => b.routine # r
    <3>1. n \in Runs' /\ held'[n] = beat /\ runs'[n].routine = r
      BY <2>1, <2>2, <2>3, Appends
    <3>2. naps = 0 => Alone'
      BY DEF Leases
    <3> QED BY <2>2, <3>1, <3>2 DEF Alone
  <2> QED BY <2>1, <2>2, <2>3, <2>4, PacedStarts
<1> QED BY <1>2, <1>3, <1>4

LEMMA PacedTickFires ==
    ASSUME IInv, IInv', Paced, TickFires
    PROVE  Paced'
<1> USE DEF IInv
<1>1. PICK f \in tick.due :
         /\ Begin(f.routine, "schedule", tick.at, f.attempt)
         /\ tick' = TickOf([tick EXCEPT !.due = @ \ {f}, !.waits = begins' # begins])
  BY DEF TickFires
<1>2. tick.on /\ ~tick.waits /\ UNCHANGED <<now, naps>> /\ tick \in Ticks
  BY TypesAre DEF TickFires
<1>3. f \in Firings /\ tick.at \in Nat
  BY <1>2 DEF Ticks
<1>4. f.routine \in Routines /\ f.attempt \in Nat \ {0} /\ (f.attempt = 1 => f = BeatOf(f.routine))
  BY <1>3 DEF Firings, BeatOf
<1>5. \/ tick' = NoTick
      \/ tick' = [tick EXCEPT !.due = @ \ {f}, !.waits = begins' # begins]
  BY <1>1 DEF TickOf
<1>6. tick'.on => tick.on /\ tick'.at = tick.at /\ tick'.due = tick.due \ {f}
  <2>1. PICK due, waits : due = tick.due \ {f} /\ waits = (begins' # begins)
    OBVIOUS
  <2>2. CASE tick' = [tick EXCEPT !.due = due, !.waits = waits]
    <3>1. tick'.on = tick.on /\ tick'.at = tick.at /\ tick'.due = due
      BY <1>2, <2>2 DEF Ticks
    <3> QED BY <2>1, <3>1
  <2>3. CASE tick' = NoTick
    BY <2>3 DEF NoTick
  <2> QED BY <1>5, <2>1, <2>2, <2>3
<1>7. \A b \in begins : b.by # "schedule"
  BY <1>2 DEF Paced, Ticking
<1>8. \/ begins' = begins
      \/ \E c : begins' = begins \cup {c}
  BY <1>1 DEF Begin
<1>9. Ticking'
  <2>1. CASE begins' = begins
    BY <1>7, <2>1 DEF Ticking
  <2>2. CASE begins' # begins
    <3>1. [tick EXCEPT !.due = @ \ {f}, !.waits = begins' # begins].waits
      BY <1>2, <2>2 DEF Ticks
    <3>2. tick' = [tick EXCEPT !.due = @ \ {f}, !.waits = begins' # begins]
      BY <1>1, <3>1 DEF TickOf
    <3>3. tick'.on /\ tick'.waits
      BY <1>2, <2>2, <3>2 DEF Ticks
    <3>4. PICK c : begins' = begins \cup {c}
      BY <1>8, <2>2
    <3> QED BY <1>7, <3>3, <3>4 DEF Ticking
  <2> QED BY <2>1, <2>2
<1>10. naps = 0 /\ f.attempt = 1 => BeatsBefore(f.routine, Every[f.routine], tick.at)
  BY <1>2, <1>4 DEF Paced, DuesApart
<1>11. tick.at <= now
  BY <1>2 DEF Paced, Dated
<1> QED BY <1>1, <1>2, <1>3, <1>4, <1>6, <1>9, <1>10, <1>11, PacedCalls

LEMMA PacedRunNow ==
    ASSUME IInv, IInv', Paced, NEW r \in Routines, runNow(r)
    PROVE  Paced'
<1> USE DEF IInv
<1>1. Begin(r, "person", now, 1) /\ UNCHANGED <<now, naps, tick>> /\ now \in Nat
  BY TypesAre DEF runNow
<1>2. \/ begins' = begins
      \/ \E c : begins' = begins \cup {c} /\ c.by = "person"
  <2>1. PICK c : c = [routine |-> r, at |-> now, by |-> "person", attempt |-> 1, run |-> 0]
    OBVIOUS
  <2>2. c.by = "person" /\ (begins' = begins \/ begins' = begins \cup {c})
    BY <1>1, <2>1 DEF Begin
  <2> QED BY <2>2
<1>3. Ticking'
  BY <1>1, <1>2 DEF Paced, Ticking
<1>4. BeatsBefore(r, 0, now)
  <2>1. \A k \in Runs : runs[k].startedAt \in Nat
    <3>1. \A row \in RunRows : row.startedAt \in Nat
      BY DEF RunRows
    <3> QED BY <3>1, RunIs
  <2> QED BY <2>1 DEF Paced, Dated, BeatsBefore
<1> QED BY <1>1, <1>3, <1>4, PacedCalls

LEMMA PacedAtFirst == Init => Paced
<1> SUFFICES ASSUME Init PROVE Paced
  OBVIOUS
<1>1. runs = <<>> /\ begins = {} /\ tick = NoTick
  BY DEF Init
<1>2. Runs = {} /\ ~tick.on
  BY <1>1 DEF Runs, NoTick
<1> QED BY <1>1, <1>2 DEF Paced, Dated, Ticking, LastIsKept, DuesApart, CallsApart, BeatsBefore,
                          BeatsAreApart

LEMMA PacedKeeps == IInv /\ Paced /\ [Next]_vars => Paced'
<1> SUFFICES ASSUME IInv, Paced, [Next]_vars PROVE Paced'
  OBVIOUS
<1>1. IInv'
  BY Keeps
<1>2. ASSUME NEW r \in Routines, Asked(r)
      PROVE  Paced'
  BY <1>1, <1>2, PacedRunNow, PacedAsks DEF Asked
<1> QED BY <1>1, <1>2, PacedRuns, PacedBegins, PacedTickBegins, PacedTickFires, PacedTime DEF Next

\* While the host stays awake, two beats of a routine are a period apart by
\* the time each is said to have started, for any routines, schedules, retries,
\* calls of a person, deletions and restarts (schedule.ts, nextBeat; scheduler.ts,
\* tick and begin).
THEOREM BeatsKeepApart == Spec => []BeatsAreApart
<1>2. Paced => BeatsAreApart
  BY DEF Paced, BeatsAreApart
<1> QED BY <1>2, PacedAtFirst, PacedKeeps, Starting0, Keeps, PTL DEF Spec
------------------------------------------------------------------------------
(* A streak is told once.  A run whose end is still to be written is being *)
(* worked on in one place; so an end is written once, and what ended stays *)
(* as it is.  A failure makes a streak longer, and a run that was told in  *)
(* it has it as long as the notice at least; only a run that ends well     *)
(* makes it shorter, and parts those after it from what they were counted  *)
(* with.                                                                   *)

Settled == {"success"} \cup Bad
Over    == Endings \cup {"gone"}

\* A run is worked on by the call that opens its thread, by execute or by
\* drive, and by one of them.
Working ==
    /\ \A k \in Runs : held[k] # 0 \/ k \in driven => runs[k].status \in {"running", "request", "gone"}
    /\ \A b \in begins : b.run # 0 =>
          runs[b.run].status \in {"running", "gone"} /\ held[b.run] = 0 /\ b.run \notin driven
    /\ \A k \in driven : held[k] = 0
    /\ \A b, c \in begins : b.run # 0 /\ b.run = c.run => b = c

Counted ==
    \A r \in Routines : \A j \in Streak(runs, r) \cap noticed :
        PartedSince(j) \/ Cardinality(Streak(runs, r)) >= NoticeAt

Ended == \A k \in Runs : runs[k].finishedAt <= now

ToldOver == \A k \in noticed : runs[k].status \in Over

Told == Ended /\ ToldOver /\ Counted /\ NoticeOncePerStreak

\* What failedInARow looks at.
LEMMA SettledIs ==
    ASSUME NEW rs \in Seq(RunRows), NEW r
    PROVE  /\ SettledOf(rs, r) = {k \in 1 .. Len(rs) : rs[k].routine = r /\ rs[k].status \in Settled}
           /\ Streak(rs, r) \subseteq SettledOf(rs, r)
           /\ \A k \in SettledOf(rs, r) : k \in Nat /\ rs[k].startedAt \in Nat
           /\ \A k \in Streak(rs, r) : rs[k].status \in Bad
           /\ IsFiniteSet(Streak(rs, r)) /\ Cardinality(Streak(rs, r)) \in Nat
<1>1. DOMAIN rs = 1 .. Len(rs) /\ Len(rs) \in Nat /\ \A k \in 1 .. Len(rs) : rs[k] \in RunRows
  BY LenProperties
<1>2. SettledOf(rs, r) = {k \in 1 .. Len(rs) : rs[k].routine = r /\ rs[k].status \in Settled}
  BY <1>1 DEF SettledOf, RunsOf, Settled, Bad
<1>3. \A row \in RunRows : row.startedAt \in Nat
  BY DEF RunRows
<1>4. \A k \in SettledOf(rs, r) : k \in Nat /\ rs[k].startedAt \in Nat
  BY <1>1, <1>2, <1>3
<1>5. Streak(rs, r) \subseteq SettledOf(rs, r)
  BY DEF Streak
<1>6. \A k \in Streak(rs, r) : rs[k].status \in Bad
  BY <1>4, <1>5 DEF Streak, Newer
<1>7. Streak(rs, r) \subseteq 1 .. Len(rs)
  BY <1>2, <1>5
<1>8. IsFiniteSet(Streak(rs, r))
  <2>1. Len(rs) \in Int /\ 1 \in Int
    BY <1>1
  <2>2. IsFiniteSet(1 .. Len(rs))
    BY <2>1, FS_Interval
  <2> QED BY <1>7, <2>2, FS_Subset
<1> QED BY <1>2, <1>4, <1>5, <1>6, <1>8, FS_CardinalityType

\* Runs that fail make a streak longer, or leave it.
LEMMA StreakGrows ==
    ASSUME NEW rs \in Seq(RunRows), NEW qs \in Seq(RunRows), NEW r,
           SettledOf(rs, r) \subseteq SettledOf(qs, r),
           \A k \in SettledOf(rs, r) : qs[k] = rs[k],
           \A k \in SettledOf(qs, r) : k \in SettledOf(rs, r) \/ qs[k].status \in Bad
    PROVE  /\ Streak(rs, r) \subseteq Streak(qs, r)
           /\ Streak(qs, r) \cap SettledOf(rs, r) \subseteq Streak(rs, r)
<1>1. \A j, k \in SettledOf(rs, r) : Newer(qs, j, k) = Newer(rs, j, k)
  BY DEF Newer
<1>2. ASSUME NEW k \in Streak(rs, r)
      PROVE  k \in Streak(qs, r)
  <2>1. k \in SettledOf(rs, r) /\ \A j \in SettledOf(rs, r) : Newer(rs, j, k) => rs[j].status \in Bad
    BY DEF Streak
  <2>2. \A j \in SettledOf(qs, r) : Newer(qs, j, k) => qs[j].status \in Bad
    BY <1>1, <2>1
  <2> QED BY <2>1, <2>2 DEF Streak
<1>3. ASSUME NEW k \in Streak(qs, r), k \in SettledOf(rs, r)
      PROVE  k \in Streak(rs, r)
  <2>1. \A j \in SettledOf(qs, r) : Newer(qs, j, k) => qs[j].status \in Bad
    BY DEF Streak
  <2>2. \A j \in SettledOf(rs, r) : Newer(rs, j, k) => rs[j].status \in Bad
    BY <1>1, <1>3, <2>1
  <2> QED BY <1>3, <2>2 DEF Streak
<1> QED BY <1>2, <1>3

\* A run that ends well leaves of a streak what started after it.
LEMMA StreakParts ==
    ASSUME NEW rs \in Seq(RunRows), NEW qs \in Seq(RunRows), NEW r, NEW k \in SettledOf(qs, r),
           SettledOf(rs, r) \subseteq SettledOf(qs, r),
           \A j \in SettledOf(rs, r) : qs[j] = rs[j],
           \A j \in SettledOf(qs, r) : j \in SettledOf(rs, r) \/ j = k,
           qs[k].status = "success"
    PROVE  /\ Streak(qs, r) \subseteq Streak(rs, r)
           /\ \A i \in Streak(qs, r) : Newer(qs, i, k)
<1>1. "success" \notin Bad
  BY DEF Bad
<1>2. k \notin Streak(qs, r)
  BY <1>1, SettledIs
<1>3. \A j, i \in SettledOf(rs, r) : Newer(qs, j, i) = Newer(rs, j, i)
  BY DEF Newer
<1>4. ASSUME NEW i \in Streak(qs, r)
      PROVE  i \in Streak(rs, r) /\ Newer(qs, i, k)
  <2>1. i \in SettledOf(qs, r) /\ \A j \in SettledOf(qs, r) : Newer(qs, j, i) => qs[j].status \in Bad
    BY DEF Streak
  <2>2. i \in SettledOf(rs, r)
    BY <1>2, <2>1
  <2>3. \A j \in SettledOf(rs, r) : Newer(rs, j, i) => rs[j].status \in Bad
    BY <1>3, <2>1, <2>2
  <2>4. ~Newer(qs, k, i)
    BY <1>1, <2>1
  <2>5. Newer(qs, i, k)
    BY <2>1, <2>4, SettledIs DEF Newer
  <2> QED BY <2>2, <2>3, <2>5 DEF Streak
<1> QED BY <1>4

\* What happens to the rows of a routine in one step: they are deleted, or
\* those that ended stay and others fail, or one of them ends well.
Deleted(r) == \A k \in Runs' : runs'[k].routine = r => runs'[k].status = "gone"
Stay(r)    == \A k \in Runs : runs[k].routine = r /\ runs[k].status \in Over => runs'[k] = runs[k]
Newly(r)   == {k \in SettledOf(runs', r) : k \notin SettledOf(runs, r)}
Fail(r)    == \A k \in Newly(r) : runs'[k].status \in Bad
Succeeds(r) ==
    \E k \in SettledOf(runs', r) :
        Newly(r) = {k} /\ runs'[k].status = "success" /\ runs'[k].finishedAt = now

\* What a step may do to rows and notices.
Tells ==
    /\ Runs \subseteq Runs'
    /\ \A k \in Runs : runs'[k].routine = runs[k].routine
    /\ \A r \in Routines : Deleted(r) \/ (Stay(r) /\ (Fail(r) \/ Succeeds(r)))
    /\ \/ noticed' = noticed
       \/ \E k \in Runs' : /\ noticed' = noticed \cup {k}
                           /\ k \notin SettledOf(runs, runs'[k].routine)
                           /\ runs'[k].status \in Over
                           /\ Cardinality(Streak(runs', runs'[k].routine)) = NoticeAt

LEMMA CountedStays ==
    ASSUME IInv, TypeOK', ToldOver, Ended, Counted, NoticeOncePerStreak, Tells, NEW r \in Routines
    PROVE  /\ \A j \in Streak(runs', r) \cap noticed' :
                 PartedSince(j)' \/ Cardinality(Streak(runs', r)) >= NoticeAt
           /\ \A j, k \in Streak(runs', r) \cap noticed' :
                 j # k => PartedSince(j)' \/ PartedSince(k)'
<1> DEFINE old == Streak(runs, r)
           new == Streak(runs', r)
           was == SettledOf(runs, r)
           is  == SettledOf(runs', r)
<1>1. /\ runs \in Seq(RunRows) /\ runs' \in Seq(RunRows) /\ noticed \in SUBSET Runs
      /\ NoticeAt \in Nat
  BY RoutineAssumption DEF IInv, TypeOK
<1>2. /\ was = {k \in Runs : runs[k].routine = r /\ runs[k].status \in Settled}
      /\ is = {k \in Runs' : runs'[k].routine = r /\ runs'[k].status \in Settled}
      /\ old \subseteq was /\ new \subseteq is
      /\ IsFiniteSet(old) /\ Cardinality(old) \in Nat
      /\ IsFiniteSet(new) /\ Cardinality(new) \in Nat
      /\ \A k \in new : runs'[k].status \in Bad
  BY <1>1, SettledIs DEF Runs
<1>3. Settled \subseteq Over /\ "gone" \notin Settled /\ "success" \in Settled
  BY DEF Settled, Over, Endings, Bad
<1>4. \A j \in old \cap noticed : PartedSince(j) \/ Cardinality(old) >= NoticeAt
  BY DEF Counted
<1>5. \A j, k \in old \cap noticed : j # k => PartedSince(j) \/ PartedSince(k)
  BY DEF NoticeOncePerStreak
<1>6. CASE Deleted(r)
  <2>1. new = {}
    BY <1>2, <1>3, <1>6 DEF Deleted
  <2> QED BY <2>1
<1>7. CASE Stay(r) /\ (Fail(r) \/ Succeeds(r))
  <2>1. was \subseteq is /\ \A k \in was : runs'[k] = runs[k]
    BY <1>2, <1>3, <1>7 DEF Tells, Stay
  <2>2. \A j \in noticed : j \in is => j \in was
    <3> SUFFICES ASSUME NEW j \in noticed, j \in is
                 PROVE  j \in was
      OBVIOUS
    <3>1. j \in Runs /\ runs[j].status \in Over /\ runs[j].routine = r
      BY <1>1, <1>2 DEF ToldOver, Tells
    <3>2. runs'[j] = runs[j]
      BY <1>7, <3>1 DEF Stay
    <3> QED BY <1>2, <3>1, <3>2
  <2>3. ASSUME NEW j \in was, PartedSince(j)
        PROVE  PartedSince(j)'
    <3>1. j \in Runs /\ runs[j].routine = r /\ runs'[j] = runs[j]
      BY <1>2, <2>1
    <3>2. PICK s \in RunsOf(runs, r) : /\ runs[s].status = "success" /\ Newer(runs, j, s)
                                       /\ runs[s].finishedAt >= runs[j].finishedAt
      BY <2>3, <3>1 DEF PartedSince
    <3>3. s \in was
      BY <1>1, <1>2, <1>3, <3>2, LenProperties DEF RunsOf, Runs
    <3>4. s \in is /\ runs'[s] = runs[s]
      BY <2>1, <3>3
    <3>5. s \in RunsOf(runs', r)
      BY <1>1, <1>2, <1>3, <3>4, LenProperties DEF RunsOf, Runs
    <3>6. Newer(runs', j, s)
      BY <3>1, <3>2, <3>4 DEF Newer
    <3> QED BY <3>1, <3>2, <3>4, <3>5, <3>6 DEF PartedSince
  <2>4. \A k \in is : k \in was \/ k \in Newly(r)
    BY DEF Newly
  <2> HIDE DEF old, new, was, is
  <2>5. CASE Fail(r)
    <3>1. old \subseteq new /\ new \cap was \subseteq old
      <4>1. \A k \in is : k \in was \/ runs'[k].status \in Bad
        BY <2>4, <2>5 DEF Fail
      <4> QED BY <1>1, <2>1, <4>1, StreakGrows DEF old, new, was, is
    <3>2. Cardinality(old) <= Cardinality(new)
      BY <1>2, <3>1, FS_Subset
    <3>3. ASSUME NEW j \in new, j \in noticed
          PROVE  j \in old
      BY <1>2, <2>2, <3>1, <3>3
    <3>4. ASSUME NEW j \in new, j \in noticed
          PROVE  PartedSince(j)' \/ Cardinality(new) >= NoticeAt
      <4>1. j \in old /\ j \in was
        BY <1>2, <3>3, <3>4
      <4> QED BY <1>1, <1>2, <1>4, <2>3, <3>2, <3>4, <4>1
    <3>5. ASSUME NEW j \in new, NEW k \in new, j \in noticed, k \in noticed, j # k
          PROVE  PartedSince(j)' \/ PartedSince(k)'
      <4>1. j \in old /\ k \in old /\ j \in was /\ k \in was
        BY <1>2, <3>3, <3>5
      <4> QED BY <1>5, <2>3, <3>5, <4>1
    <3>6. CASE noticed' = noticed
      BY <3>4, <3>5, <3>6 DEF new
    <3>7. ASSUME NEW k \in Runs', noticed' = noticed \cup {k},
                 k \notin SettledOf(runs, runs'[k].routine),
                 Cardinality(Streak(runs', runs'[k].routine)) = NoticeAt
          PROVE  /\ \A j \in new \cap noticed' : PartedSince(j)' \/ Cardinality(new) >= NoticeAt
                 /\ \A i, j \in new \cap noticed' : i # j => PartedSince(i)' \/ PartedSince(j)'
      <4>1. k \in new => /\ runs'[k].routine = r /\ Cardinality(new) = NoticeAt /\ k \notin was
        BY <1>2, <3>7 DEF new, was
      <4>2. \A j \in new \cap noticed' : PartedSince(j)' \/ Cardinality(new) >= NoticeAt
        BY <1>1, <3>4, <3>7, <4>1
      <4>3. ASSUME k \in new, NEW j \in new, j \in noticed
            PROVE  PartedSince(j)'
        <5>1. j \in old /\ j \in was
          BY <1>2, <3>3, <4>3
        <5>2. k \notin old
          BY <1>2, <4>1, <4>3
        <5>3. Cardinality(old) < Cardinality(new)
          <6>1. old # new
            BY <4>3, <5>2
          <6> QED BY <1>2, <3>1, <6>1, FS_Subset
        <5> QED BY <1>1, <1>2, <1>4, <2>3, <4>1, <4>3, <5>1, <5>3
      <4> QED BY <3>5, <3>7, <4>2, <4>3
    <3> QED BY <3>6, <3>7 DEF Tells, new
  <2>6. CASE Succeeds(r)
    <3>1. PICK k \in is : Newly(r) = {k} /\ runs'[k].status = "success" /\ runs'[k].finishedAt = now
      BY <2>6 DEF Succeeds, is
    <3>2. new \subseteq old /\ \A i \in new : Newer(runs', i, k)
      <4>1. \A j \in is : j \in was \/ j = k
        BY <2>4, <3>1
      <4> QED BY <1>1, <2>1, <3>1, <4>1, StreakParts DEF old, new, was, is
    <3>3. ASSUME NEW i \in new
          PROVE  PartedSince(i)'
      <4>1. i \in was /\ i \in Runs /\ runs'[i] = runs[i] /\ runs[i].routine = r
        BY <1>2, <2>1, <3>2
      <4>2. runs'[i].finishedAt <= runs'[k].finishedAt
        BY <3>1, <4>1 DEF Ended
      <4>3. k \in RunsOf(runs', r) /\ now \in Nat /\ runs[i].finishedAt \in Nat
        <5>1. k \in DOMAIN runs' /\ runs'[k].routine = r /\ runs'[k].status # "gone"
          BY <1>1, <1>2, <1>3, <3>1, LenProperties DEF Runs
        <5>2. \A row \in RunRows : row.finishedAt \in Nat
          BY DEF RunRows
        <5> QED BY <4>1, <5>1, <5>2, RunIs, TypesAre DEF IInv, RunsOf
      <4> QED BY <3>1, <3>2, <4>1, <4>2, <4>3 DEF PartedSince
    <3> QED BY <3>3 DEF new
  <2> QED BY <1>7, <2>5, <2>6
<1> QED BY <1>6, <1>7 DEF Tells

LEMMA ToldStays ==
    ASSUME IInv, TypeOK', Told, Tells, Ended'
    PROVE  Told'
<1>1. \A r \in Routines : Deleted(r) \/ Stay(r)
  BY DEF Tells
<1>2. ToldOver'
  <2> SUFFICES ASSUME NEW k \in noticed'
               PROVE  runs'[k].status \in Over
    BY DEF ToldOver
  <2>1. CASE k \in noticed
    <3>1. k \in Runs /\ k \in Runs' /\ runs[k].routine \in Routines /\ runs[k].status \in Over
          /\ runs'[k].routine = runs[k].routine
      BY <2>1, TypesAre, RunIs DEF IInv, Told, ToldOver, Tells
    <3> QED BY <1>1, <3>1 DEF Deleted, Stay, Over
  <2>2. CASE k \notin noticed
    BY <2>2 DEF Tells
  <2> QED BY <2>1, <2>2
<1>3. Counted'
  <2> SUFFICES ASSUME NEW r \in Routines, NEW j \in Streak(runs', r) \cap noticed'
               PROVE  PartedSince(j)' \/ Cardinality(Streak(runs', r)) >= NoticeAt
    BY DEF Counted
  <2> QED BY CountedStays DEF Told
<1>4. NoticeOncePerStreak'
  <2> SUFFICES ASSUME NEW r \in Routines, NEW j \in Streak(runs', r) \cap noticed',
                      NEW k \in Streak(runs', r) \cap noticed', j # k
               PROVE  PartedSince(j)' \/ PartedSince(k)'
    BY DEF NoticeOncePerStreak
  <2> QED BY CountedStays DEF Told
<1> QED BY <1>2, <1>3, <1>4 DEF Told

\* The end of one run k, or none: the others keep their rows.
LEMMA EndsOne ==
    ASSUME IInv, TypeOK', NEW k \in Runs, runs[k].status \in {"running", "gone"},
           NEW ending \in Endings, runs' = Finished(k, ending), now' = now, Told,
           \/ noticed' = noticed
           \/ noticed' = noticed \cup {k} /\ failedInARow(runs', runs'[k].routine) = NoticeAt
    PROVE  Told'
<1> USE DEF IInv
<1>1. /\ runs \in [Runs -> RunRows] /\ Runs' = Runs /\ SameDates
      /\ runs \in Seq(RunRows) /\ runs' \in Seq(RunRows) /\ now \in Nat
  BY FinishedDates, SameDatesRuns, RunIs DEF TypeOK
<1>2. /\ \A j \in Runs : j # k => runs'[j] = runs[j]
      /\ runs[k].status = "gone" => runs' = runs
      /\ runs[k].status # "gone" => /\ runs'[k].status = ending /\ runs'[k].finishedAt = now
  <2>1. CASE runs[k].status = "gone"
    BY <2>1 DEF Finished
  <2>2. CASE runs[k].status # "gone"
    <3>1. runs' = [runs EXCEPT ![k] = [runs[k] EXCEPT !.status = ending, !.finishedAt = now]]
      BY <1>1, <2>2 DEF Finished
    <3>2. LET row == [runs[k] EXCEPT !.status = ending, !.finishedAt = now]
          IN row.status = ending /\ row.finishedAt = now
      BY RunIs DEF RunRows
    <3> QED BY <1>1, <2>2, <3>1, <3>2
  <2> QED BY <2>1, <2>2
<1>3. /\ \A r : SettledOf(runs, r) = {j \in Runs : runs[j].routine = r /\ runs[j].status \in Settled}
      /\ \A r : SettledOf(runs', r) = {j \in Runs : runs'[j].routine = r /\ runs'[j].status \in Settled}
  BY <1>1, SettledIs DEF Runs
<1>4. \A r : Newly(r) \subseteq {k}
  BY <1>1, <1>2, <1>3 DEF Newly, SameDates
<1>5. \A r : Stay(r)
  BY <1>2 DEF Stay, Over, Endings
<1>6. "gone" \notin Settled /\ "running" \notin Settled /\ "gone" \in Over /\ ending \in Over
  BY DEF Settled, Bad, Over
<1>7. ASSUME NEW r \in Routines
      PROVE  Fail(r) \/ Succeeds(r)
  <2>1. CASE k \in Newly(r) /\ ending = "success"
    <3>1. Newly(r) = {k} /\ runs[k].status # "gone"
      BY <1>2, <1>3, <1>4, <1>6, <2>1 DEF Newly
    <3>2. k \in SettledOf(runs', r)
      BY <2>1 DEF Newly
    <3> QED BY <1>2, <2>1, <3>1, <3>2 DEF Succeeds
  <2>2. CASE k \notin Newly(r) \/ ending # "success"
    <3>1. ASSUME NEW j \in Newly(r)
          PROVE  runs'[j].status \in Bad
      <4>1. j = k /\ runs'[k].status \in Settled /\ ending # "success"
        BY <1>3, <1>4, <2>2, <3>1 DEF Newly
      <4>2. runs[k].status # "gone"
        BY <1>2, <1>6, <4>1
      <4> QED BY <1>2, <4>1, <4>2 DEF Settled
    <3> QED BY <3>1 DEF Fail
  <2> QED BY <2>1, <2>2
<1>8. Ended'
  BY <1>1, <1>2 DEF Told, Ended
<1>9. runs'[k].status \in Over /\ \A r : k \notin SettledOf(runs, r)
  BY <1>2, <1>3, <1>6
<1>10. Tells
  BY <1>1, <1>5, <1>7, <1>9 DEF Tells, SameDates, failedInARow
<1> QED BY <1>8, <1>10, ToldStays

\* Rows that keep their status if they ended, and otherwise fail, stop, wait or go on.
LEMMA EndsNone ==
    ASSUME IInv, TypeOK', Told, SameDates, Ended', noticed' = noticed,
           \A k \in Runs : runs[k].status \in Over => runs'[k] = runs[k],
           \A k \in Runs : runs[k].status \notin Over => runs'[k].status # "success"
    PROVE  Told'
<1>1. Runs' = Runs /\ runs \in Seq(RunRows) /\ runs' \in Seq(RunRows)
  BY SameDatesRuns DEF IInv, TypeOK
<1>2. /\ \A r : SettledOf(runs, r) = {j \in Runs : runs[j].routine = r /\ runs[j].status \in Settled}
      /\ \A r : SettledOf(runs', r) = {j \in Runs : runs'[j].routine = r /\ runs'[j].status \in Settled}
  BY <1>1, SettledIs DEF Runs
<1>3. \A r : Stay(r) /\ Fail(r)
  BY <1>2 DEF SameDates, Stay, Fail, Newly, Settled
<1> QED BY <1>1, <1>3, ToldStays DEF Tells, SameDates

\* A run starts, and may have failed at once.
LEMMA EndsStarts ==
    ASSUME IInv, TypeOK', Told, NEW r \in Routines, NEW by \in {"schedule", "person"}, NEW at \in Nat,
           NEW attempt \in Nat \ {0}, NEW status \in {"running", "failed"}, NEW beat \in Nat,
           NEW n, n = Len(runs) + 1, StartRun(r, by, at, attempt, status, beat),
           now' = now, at <= now,
           \/ noticed' = noticed
           \/ noticed' = noticed \cup {n} /\ failedInARow(runs', r) = NoticeAt /\ status = "failed"
    PROVE  Told'
<1> USE DEF IInv
<1>1. /\ Runs' = Runs \cup {n} /\ n \notin Runs
      /\ runs'[n] = Row(r, by, at, attempt, status)
      /\ \A k \in Runs : runs'[k] = runs[k]
  <2>1. runs \in Seq(RunRows) /\ n \in Nat
    BY RunIs DEF TypeOK
  <2>2. runs' = Append(runs, Row(r, by, at, attempt, status))
    BY DEF StartRun
  <2>3. Row(r, by, at, attempt, status) \in RunRows
    BY RowIs
  <2>4. runs'[n] = Row(r, by, at, attempt, status)
    BY <2>1, <2>2, <2>3
  <2> QED BY <2>4, Appends
<1>2. /\ runs'[n].routine = r /\ runs'[n].status = status /\ runs'[n].finishedAt \in {at, 0}
      /\ now \in Nat /\ runs \in Seq(RunRows) /\ runs' \in Seq(RunRows)
  BY <1>1 DEF Row, TypeOK
<1>3. /\ \A q : SettledOf(runs, q) = {j \in Runs : runs[j].routine = q /\ runs[j].status \in Settled}
      /\ \A q : SettledOf(runs', q) = {j \in Runs' : runs'[j].routine = q /\ runs'[j].status \in Settled}
  BY <1>2, SettledIs DEF Runs
<1>4. \A q : Stay(q)
  BY <1>1 DEF Stay
<1>5. "running" \notin Settled /\ "failed" \in Bad /\ "failed" \in Over
  BY DEF Settled, Bad, Over, Endings
<1>6. \A q : Fail(q)
  BY <1>1, <1>2, <1>3, <1>5 DEF Fail, Newly
<1>7. Ended'
  BY <1>1, <1>2 DEF Told, Ended
<1>8. Tells
  BY <1>1, <1>2, <1>3, <1>4, <1>5, <1>6 DEF Tells, failedInARow
<1> QED BY <1>7, <1>8, ToldStays

\* Runs that only stop waiting, or are worked on no more.
LEMMA WorkingStays ==
    ASSUME IInv, TypeOK', Working, SameDates, begins' \subseteq begins,
           \A k \in Runs : held'[k] # 0 => held[k] # 0,
           driven' \subseteq driven,
           \A k \in Runs :
              \/ runs[k].status \in {"running", "request", "gone"} => runs'[k].status \in {runs[k].status, "gone"}
              \/ held'[k] = 0 /\ k \notin driven' /\ \A b \in begins' : b.run # k
    PROVE  Working'
<1>1. Runs' = Runs /\ driven \subseteq Runs
  BY SameDatesRuns, TypesAre DEF IInv
<1>2. \A b \in begins : b.run # 0 => b.run \in Runs
  BY DEF IInv, Threads
<1>3. ASSUME NEW k \in Runs, held'[k] # 0 \/ k \in driven'
      PROVE  runs'[k].status \in {"running", "request", "gone"}
  BY <1>3 DEF Working
<1>4. ASSUME NEW b \in begins', b.run # 0
      PROVE  runs'[b.run].status \in {"running", "gone"} /\ held'[b.run] = 0 /\ b.run \notin driven'
  <2>1. b.run \in Runs /\ runs[b.run].status \in {"running", "gone"} /\ held[b.run] = 0 /\ b.run \notin driven
    BY <1>2, <1>4 DEF Working
  <2> QED BY <1>4, <2>1
<1>5. \A k \in driven' : held'[k] = 0
  BY <1>1 DEF Working
<1>6. \A b, c \in begins' : b.run # 0 /\ b.run = c.run => b = c
  BY DEF Working
<1> QED BY <1>1, <1>3, <1>4, <1>5, <1>6 DEF Working

LEMMA FinishedStatus ==
    ASSUME TypeOK, NEW k \in Runs, NEW ending, runs' = Finished(k, ending)
    PROVE  \A j \in Runs : j # k => runs'[j] = runs[j]
BY RunIs DEF Finished

\* The steps of a run that is worked on.
LEMMA TellsRuns ==
    ASSUME IInv, TypeOK', Working, Told, NEW k \in Runs,
           RunEnds(k) \/ RunPauses(k) \/ DriveEnds(k) \/ DrivePauses(k)
    PROVE  Working' /\ Told'
<1> USE DEF IInv
<1>0. begins' = begins /\ now' = now /\ now \in Nat
  BY TypesAre DEF RunEnds, RunPauses, DriveEnds, DrivePauses
<1>1. ASSUME RunEnds(k)
      PROVE  Working' /\ Told'
  <2>1. PICK ending \in Endings : finish(k, ending)
    BY <1>1 DEF RunEnds, Endings
  <2>2. /\ runs' = Finished(k, ending) /\ held' = [held EXCEPT ![k] = 0] /\ driven' = driven
        /\ Notice(runs', k)
    BY <1>1, <2>1 DEF finish, RunEnds
  <2>3. held[k] # 0 /\ runs[k].status \in {"running", "gone"} /\ k \notin driven
        /\ \A b \in begins : b.run # k
    <3>1. held[k] # 0 /\ k # 0 /\ runs[k].status # "request"
      BY <1>1, RunIs DEF RunEnds, Runs
    <3> QED BY <3>1 DEF Working
  <2>4. held'[k] = 0 /\ \A j \in Runs : j # k => held'[j] = held[j]
    BY <2>2, HeldTypes
  <2>5. Working'
    BY <1>0, <2>2, <2>3, <2>4, FinishedDates, FinishedStatus, WorkingStays
  <2>6. \/ noticed' = noticed
        \/ noticed' = noticed \cup {k} /\ failedInARow(runs', runs'[k].routine) = NoticeAt
    BY <2>2 DEF Notice
  <2> QED BY <1>0, <2>2, <2>3, <2>5, <2>6, EndsOne
<1>2. ASSUME DriveEnds(k)
      PROVE  Working' /\ Told'
  <2>1. PICK ending \in Endings : runs' = Finished(k, ending)
    BY <1>2 DEF DriveEnds, Endings
  <2>2. k \in driven /\ driven' = driven \ {k} /\ held' = held /\ noticed' = noticed
    BY <1>2 DEF DriveEnds
  <2>3. held[k] = 0 /\ runs[k].status \in {"running", "gone"} /\ \A b \in begins : b.run # k
    <3>1. k # 0 /\ runs[k].status # "request"
      BY <1>2, RunIs DEF DriveEnds, Runs
    <3> QED BY <2>2, <3>1 DEF Working
  <2>4. Working'
    BY <1>0, <2>1, <2>2, <2>3, FinishedDates, FinishedStatus, WorkingStays
  <2> QED BY <1>0, <2>1, <2>2, <2>3, <2>4, EndsOne
<1>3. ASSUME RunPauses(k) \/ DrivePauses(k)
      PROVE  Working' /\ Told'
  <2>1. /\ runs' = IF runs[k].status = "running" THEN [runs EXCEPT ![k].status = "awaiting"] ELSE runs
        /\ noticed' = noticed
    BY <1>3 DEF RunPauses, DrivePauses
  <2>2. /\ \A j \in Runs : j # k => runs'[j] = runs[j]
        /\ \/ runs'[k] = runs[k]
           \/ /\ runs[k].status = "running" /\ runs'[k].status = "awaiting"
              /\ runs'[k].finishedAt = runs[k].finishedAt
    <3>1. LET row == [runs[k] EXCEPT !.status = "awaiting"]
          IN row.status = "awaiting" /\ row.finishedAt = runs[k].finishedAt
      BY RunIs DEF RunRows
    <3>2. runs' = runs \/ (runs[k].status = "running"
                           /\ runs' = [runs EXCEPT ![k] = [runs[k] EXCEPT !.status = "awaiting"]])
      BY <2>1, RunIs
    <3> QED BY <3>1, <3>2, RunIs
  <2>3. SameDates /\ Runs' = Runs
    BY <2>1, OneStatus, SameDatesRuns
  <2>4. Ended'
    BY <1>0, <2>2, <2>3 DEF Told, Ended
  <2>5. Told'
    <3>1. "running" \notin Over /\ "awaiting" # "success"
      BY DEF Over, Endings
    <3>2. \A j \in Runs : runs[j].status \in Over => runs'[j] = runs[j]
      BY <2>2, <3>1
    <3>3. "success" \in Over
      BY DEF Over, Endings
    <3>4. \A j \in Runs : runs[j].status \notin Over => runs'[j].status # "success"
      BY <2>2, <3>1, <3>3
    <3> QED BY <2>1, <2>3, <2>4, <3>2, <3>4, EndsNone
  <2>6. /\ held'[k] = 0 /\ k \notin driven' /\ \A b \in begins : b.run # k
        /\ driven' \subseteq driven /\ \A j \in Runs : held'[j] # 0 => held[j] # 0
    <3>1. k # 0
      BY RunIs DEF Runs
    <3>2. CASE RunPauses(k)
      <4>1. held[k] # 0 /\ held' = [held EXCEPT ![k] = 0] /\ driven' = driven
        BY <3>2 DEF RunPauses
      <4> QED BY <3>1, <4>1, HeldTypes DEF Working
    <3>3. CASE DrivePauses(k)
      <4>1. k \in driven /\ held' = held /\ driven' = driven \ {k}
        BY <3>3 DEF DrivePauses
      <4> QED BY <3>1, <4>1 DEF Working
    <3> QED BY <1>3, <3>2, <3>3
  <2>7. Working'
    BY <1>0, <2>2, <2>3, <2>6, WorkingStays
  <2> QED BY <2>5, <2>7
<1> QED BY <1>1, <1>2, <1>3

LEMMA TellsApprove ==
    ASSUME IInv, TypeOK', Working, Told, NEW k \in Runs, approve(k)
    PROVE  Working' /\ Told'
<1> USE DEF IInv
<1>1. /\ runs[k].status = "awaiting" /\ runs' = [runs EXCEPT ![k].status = "running"]
      /\ driven' = driven \cup {k} /\ UNCHANGED <<now, noticed, begins, held>> /\ now \in Nat
  BY TypesAre DEF approve
<1>2. SameDates /\ Runs' = Runs
  BY <1>1, OneStatus, SameDatesRuns
<1>3. /\ \A j \in Runs : j # k => runs'[j] = runs[j]
      /\ runs'[k].status = "running" /\ runs'[k].finishedAt = runs[k].finishedAt
  <2>1. LET row == [runs[k] EXCEPT !.status = "running"]
        IN row.status = "running" /\ row.finishedAt = runs[k].finishedAt
    BY RunIs DEF RunRows
  <2>2. runs' = [runs EXCEPT ![k] = [runs[k] EXCEPT !.status = "running"]]
    BY <1>1, RunIs
  <2> QED BY <2>1, <2>2, RunIs
<1>4. held[k] = 0 /\ k \notin driven /\ \A b \in begins : b.run # k
  <2>1. k # 0
    BY RunIs DEF Runs
  <2> QED BY <1>1, <2>1 DEF Working
<1>5. Working'
  <2>1. \A b \in begins : b.run # 0 => b.run \in Runs
    BY DEF Threads
  <2>2. driven \subseteq Runs
    BY TypesAre
  <2> QED BY <1>1, <1>2, <1>3, <1>4, <2>1, <2>2 DEF Working
<1>6. Ended'
  BY <1>1, <1>2, <1>3 DEF Told, Ended
<1>7. Told'
  <2>1. "awaiting" \notin Over /\ "success" \in Over
    BY DEF Over, Endings
  <2>2. \A j \in Runs : runs[j].status \in Over => runs'[j] = runs[j]
    BY <1>1, <1>3, <2>1
  <2>3. \A j \in Runs : runs[j].status \notin Over => runs'[j].status # "success"
    BY <1>3, <2>1
  <2> QED BY <1>1, <1>2, <1>6, <2>2, <2>3, EndsNone
<1> QED BY <1>5, <1>7

\* Runs that are held for a request, or let go, by whoever works on them.
LEMMA TellsRequest ==
    ASSUME IInv, TypeOK', Working, Told, NEW k \in Runs, holdForRequest(k) \/ releaseRequest(k)
    PROVE  Working' /\ Told'
<1> USE DEF IInv
<1>1. /\ UNCHANGED <<now, noticed, begins, held, driven>> /\ now \in Nat
      /\ \/ runs[k].status = "running" /\ runs' = [runs EXCEPT ![k].status = "request"]
            /\ (held[k] # 0 \/ k \in driven)
         \/ runs[k].status = "request" /\ runs' = [runs EXCEPT ![k].status = "running"]
  BY TypesAre DEF holdForRequest, releaseRequest, calls
<1>2. SameDates /\ Runs' = Runs
  BY <1>1, OneStatus, SameDatesRuns
<1>3. /\ \A j \in Runs : j # k => runs'[j] = runs[j]
      /\ runs[k].status \in {"running", "request"} /\ runs'[k].status \in {"running", "request"}
      /\ runs'[k].finishedAt = runs[k].finishedAt
  <2>1. ASSUME NEW status
        PROVE  LET row == [runs[k] EXCEPT !.status = status]
               IN row.status = status /\ row.finishedAt = runs[k].finishedAt
    BY RunIs DEF RunRows
  <2>2. PICK status \in {"running", "request"} : runs' = [runs EXCEPT ![k] = [runs[k] EXCEPT !.status = status]]
    BY <1>1, RunIs
  <2> QED BY <1>1, <2>1, <2>2, RunIs
<1>4. \A b \in begins : b.run # k
  <2>1. k # 0
    BY RunIs DEF Runs
  <2> QED BY <1>1, <2>1 DEF Working
<1>5. Working'
  <2>1. \A b \in begins : b.run # 0 => b.run \in Runs
    BY DEF Threads
  <2> QED BY <1>1, <1>2, <1>3, <1>4, <2>1 DEF Working
<1>6. Ended'
  BY <1>1, <1>2, <1>3 DEF Told, Ended
<1>7. Told'
  <2>1. "running" \notin Over /\ "request" \notin Over /\ "success" \in Over
    BY DEF Over, Endings
  <2>2. \A j \in Runs : runs[j].status \in Over => runs'[j] = runs[j]
    BY <1>3, <2>1
  <2>3. \A j \in Runs : runs[j].status \notin Over => runs'[j].status # "success"
    BY <1>3, <2>1
  <2> QED BY <1>1, <1>2, <1>6, <2>2, <2>3, EndsNone
<1> QED BY <1>5, <1>7

\* Runs that are stopped while they wait.
LEMMA TellsStopped ==
    ASSUME IInv, TypeOK', Working, Told, NEW ks, Stopped(ks),
           UNCHANGED <<now, noticed, begins, held, driven>>
    PROVE  Working' /\ Told'
<1> USE DEF IInv
<1>1. SameDates /\ Runs' = Runs /\ now \in Nat
  BY StoppedDates, SameDatesRuns, TypesAre
<1>2. \A k \in Runs : \/ runs'[k] = runs[k]
                      \/ /\ runs[k].status = "awaiting" /\ runs'[k].status = "stopped"
                         /\ runs'[k].finishedAt = now
  <2>1. \A k \in Runs : LET row == [runs[k] EXCEPT !.status = "stopped", !.finishedAt = now]
                        IN row.status = "stopped" /\ row.finishedAt = now
    BY RunIs DEF RunRows
  <2>2. runs' = [k \in Runs |-> IF k \in ks /\ runs[k].status = "awaiting"
                                THEN [runs[k] EXCEPT !.status = "stopped", !.finishedAt = now] ELSE runs[k]]
    BY DEF Stopped
  <2> QED BY <2>1, <2>2
<1>3. Working'
  BY <1>1, <1>2, WorkingStays
<1>4. Ended'
  BY <1>1, <1>2 DEF Told, Ended
<1>5. "awaiting" \notin Over /\ "success" \in Over
  BY DEF Over, Endings
<1>6. /\ \A k \in Runs : runs[k].status \in Over => runs'[k] = runs[k]
      /\ \A k \in Runs : runs[k].status \notin Over => runs'[k].status # "success"
  BY <1>2, <1>5
<1> QED BY <1>1, <1>3, <1>4, <1>6, EndsNone

LEMMA TellsAside ==
    ASSUME IInv, TypeOK', Working, Told, UNCHANGED <<runs, noticed, begins, driven>>,
           held' \in [Runs -> Nat], \A k \in Runs : held'[k] # 0 => held[k] # 0,
           now' \in Nat, now <= now'
    PROVE  Working' /\ Told'
<1> USE DEF IInv
<1>1. SameDates /\ Runs' = Runs
  BY RunIs DEF SameDates, Runs
<1>2. \A k \in Runs : runs[k].finishedAt \in Nat
  <2>1. \A row \in RunRows : row.finishedAt \in Nat
    BY DEF RunRows
  <2> QED BY <2>1, RunIs
<1>3. Ended'
  BY <1>1, <1>2, TypesAre DEF Told, Ended
<1>4. Working'
  BY <1>1, WorkingStays
<1>5. "success" \in Over
  BY DEF Over, Endings
<1> QED BY <1>1, <1>3, <1>4, <1>5, EndsNone

LEMMA TellsRemoves ==
    ASSUME IInv, TypeOK', Working, Told, NEW r \in Routines, remove(r)
    PROVE  Working' /\ Told'
<1> USE DEF IInv
<1>1. /\ runs' = [k \in Runs |-> IF k \in {j \in Runs : runs[j].routine = r}
                                 THEN [runs[k] EXCEPT !.status = "gone"] ELSE runs[k]]
      /\ UNCHANGED <<now, noticed, begins, held, driven>>
  BY DEF remove
<1>2. SameDates
  BY <1>1, StatusesOnly
<1>3. Runs' = Runs
  BY <1>2, SameDatesRuns
<1>4. \A k \in Runs : \/ runs[k].routine # r /\ runs'[k] = runs[k]
                      \/ /\ runs[k].routine = r /\ runs'[k].status = "gone"
                         /\ runs'[k].finishedAt = runs[k].finishedAt
  <2>1. \A k \in Runs : LET row == [runs[k] EXCEPT !.status = "gone"]
                        IN row.status = "gone" /\ row.finishedAt = runs[k].finishedAt
    BY RunIs DEF RunRows
  <2> QED BY <1>1, <2>1
<1>5. Working'
  BY <1>1, <1>2, <1>4, WorkingStays
<1>6. Ended'
  BY <1>1, <1>3, <1>4 DEF Told, Ended
<1>7. Tells
  <2>1. runs \in Seq(RunRows) /\ runs' \in Seq(RunRows)
    BY DEF TypeOK
  <2>2. Deleted(r)
    BY <1>2, <1>3, <1>4 DEF Deleted, SameDates
  <2>3. ASSUME NEW q \in Routines, q # r
        PROVE  Stay(q) /\ Fail(q)
    <3>1. \A k \in Runs : runs[k].routine = q => runs'[k] = runs[k]
      BY <1>4, <2>3
    <3>2. /\ SettledOf(runs, q) = {j \in Runs : runs[j].routine = q /\ runs[j].status \in Settled}
          /\ SettledOf(runs', q) = {j \in Runs : runs'[j].routine = q /\ runs'[j].status \in Settled}
      BY <1>3, <2>1, SettledIs DEF Runs
    <3>3. Newly(q) = {}
      BY <1>2, <3>1, <3>2 DEF Newly, SameDates
    <3> QED BY <3>1, <3>3 DEF Stay, Fail
  <2> QED BY <1>1, <1>2, <1>3, <2>2, <2>3 DEF Tells, SameDates
<1> QED BY <1>5, <1>6, <1>7, ToldStays

LEMMA TellsRestart ==
    ASSUME IInv, TypeOK', Working, Told, Restart
    PROVE  Working' /\ Told'
<1> USE DEF IInv
<1>1. /\ runs' = [k \in Runs |-> IF runs[k].status \in Active
                                 THEN [runs[k] EXCEPT !.status = "failed", !.finishedAt = now] ELSE runs[k]]
      /\ UNCHANGED <<now, noticed>> /\ begins' = {} /\ held' = [k \in Runs |-> 0] /\ driven' = {}
  BY DEF Restart
<1>2. \A k \in Runs : \/ /\ runs[k].status \in Active /\ runs'[k].status = "failed"
                         /\ runs'[k].finishedAt = now
                      \/ runs[k].status \notin Active /\ runs'[k] = runs[k]
  <2>1. \A k \in Runs : LET row == [runs[k] EXCEPT !.status = "failed", !.finishedAt = now]
                        IN row.status = "failed" /\ row.finishedAt = now
    BY RunIs DEF RunRows
  <2> QED BY <1>1, <2>1
<1>3. SameDates
  <2>1. \A k \in Runs : LET row == [runs[k] EXCEPT !.status = "failed", !.finishedAt = now]
                        IN /\ row.routine = runs[k].routine /\ row.by = runs[k].by
                           /\ row.attempt = runs[k].attempt /\ row.startedAt = runs[k].startedAt
    BY RunIs DEF RunRows
  <2> QED BY <1>1, <2>1 DEF SameDates
<1>4. Runs' = Runs /\ now \in Nat
  BY <1>3, SameDatesRuns, TypesAre
<1>5. Working'
  BY <1>1, <1>4 DEF Working
<1>6. Ended'
  <2>1. \A k \in Runs : runs'[k].finishedAt \in {runs[k].finishedAt, now}
    BY <1>2
  <2>2. now' = now
    BY <1>1
  <2>3. \A k \in Runs : runs[k].finishedAt <= now
    BY DEF Told, Ended
  <2> HIDE <1>1, <1>2
  <2>4. \A k \in Runs : runs'[k].finishedAt <= now'
    BY <1>4, <2>1, <2>2, <2>3
  <2> QED BY <1>4, <2>4 DEF Ended
<1>7. Active \cap Over = {} /\ "success" \in Over /\ "failed" # "success"
  BY DEF Active, Over, Endings
<1>8. /\ \A k \in Runs : runs[k].status \in Over => runs'[k] = runs[k]
      /\ \A k \in Runs : runs[k].status \notin Over => runs'[k].status # "success"
  <2> HIDE <1>1
  <2> QED BY <1>2, <1>7
<1> QED BY <1>1, <1>3, <1>5, <1>6, <1>8, EndsNone

\* A run that starts is worked on by what started it.
LEMMA WorkingStarts ==
    ASSUME IInv, TypeOK', Working, NEW r \in Routines, NEW by \in {"schedule", "person"}, NEW at \in Nat,
           NEW attempt \in Nat \ {0}, NEW status \in {"running", "failed"}, NEW beat \in Nat,
           NEW n, n = Len(runs) + 1, StartRun(r, by, at, attempt, status, beat), driven' = driven,
           beat # 0 => status = "running",
           \A b \in begins' : b \in begins \/ b.run = 0 \/ (b.run = n /\ status = "running" /\ beat = 0),
           \A b, c \in begins' : b.run = n /\ c.run = n => b = c
    PROVE  Working'
<1>0. TypeOK /\ Threads
  BY DEF IInv
<1>1. /\ Runs' = Runs \cup {n} /\ n \notin Runs /\ held'[n] = beat
      /\ \A k \in Runs : runs'[k] = runs[k] /\ held'[k] = held[k]
  <2>1. /\ Runs' = Runs \cup {Len(runs) + 1} /\ Len(runs) + 1 \notin Runs
        /\ held'[Len(runs) + 1] = beat
        /\ \A k \in Runs : runs'[k] = runs[k] /\ held'[k] = held[k]
    <3> HIDE DEF Runs
    <3> QED BY <1>0, Appends
  <2> QED BY <2>1
<1>2. runs'[n].status = status
  <2>0. Row(r, by, at, attempt, status) \in RunRows
    BY RowIs
  <2>1. runs \in Seq(RunRows) /\ n \in Nat
    BY <1>0, RunIs DEF TypeOK
  <2>2. runs' = Append(runs, Row(r, by, at, attempt, status))
    BY DEF StartRun
  <2>3. runs'[n] = Row(r, by, at, attempt, status)
    BY <2>0, <2>1, <2>2
  <2> QED BY <2>3 DEF Row
<1>3. driven \subseteq Runs /\ \A b \in begins : b.run # 0 => b.run \in Runs
  BY <1>0, TypesAre DEF Threads
<1>4. \A b \in begins' : b.run # 0 /\ b.run # n => b \in begins
  OBVIOUS
<1>5. ASSUME NEW k \in Runs', held'[k] # 0 \/ k \in driven'
      PROVE  runs'[k].status \in {"running", "request", "gone"}
  BY <1>1, <1>2, <1>3, <1>5 DEF Working
<1>6. ASSUME NEW b \in begins', b.run # 0
      PROVE  runs'[b.run].status \in {"running", "gone"} /\ held'[b.run] = 0 /\ b.run \notin driven'
  <2>1. CASE b.run = n
    <3>1. b \notin begins
      BY <1>1, <1>3, <1>6, <2>1
    <3> QED BY <1>1, <1>2, <1>3, <1>6, <2>1, <3>1
  <2>2. CASE b.run # n
    <3>1. b \in begins /\ b.run \in Runs
      BY <1>3, <1>4, <1>6, <2>2
    <3> QED BY <1>1, <1>6, <3>1 DEF Working
  <2> QED BY <2>1, <2>2
<1>7. \A k \in driven' : held'[k] = 0
  BY <1>1, <1>3 DEF Working
<1>8. \A b, c \in begins' : b.run # 0 /\ b.run = c.run => b = c
  BY <1>4 DEF Working
<1> QED BY <1>5, <1>6, <1>7, <1>8 DEF Working

LEMMA TellsBegin ==
    ASSUME IInv, TypeOK', Working, Told, NEW r \in Routines, NEW by \in {"schedule", "person"}, NEW at \in Nat,
           NEW attempt \in Nat \ {0}, Begin(r, by, at, attempt), at <= now, UNCHANGED <<now, noticed, driven>>
    PROVE  Working' /\ Told'
<1>0. TypeOK /\ Threads
  BY DEF IInv
<1>1. CASE r \in FromFile \/ UNCHANGED <<routine, runs, lock, begins, held>>
  <2>1. UNCHANGED <<runs, held>> /\ now \in Nat
    BY <1>0, <1>1, TypesAre DEF Begin
  <2>2. PICK c : c = [routine |-> r, at |-> at, by |-> by, attempt |-> attempt, run |-> 0]
    OBVIOUS
  <2>3. begins' = begins \/ begins' = begins \cup {c}
    BY <1>1, <2>2 DEF Begin
  <2>4. c.run = 0
    BY <2>2
  <2>5. Working'
    BY <2>1, <2>3, <2>4 DEF Working, Runs
  <2>6. SameDates /\ Ended'
    BY <1>0, <2>1, RunIs DEF SameDates, Told, Ended, Runs
  <2>7. "success" \in Over
    BY DEF Over, Endings
  <2> QED BY <2>1, <2>5, <2>6, <2>7, EndsNone
<1>2. CASE r \notin FromFile /\ ~UNCHANGED <<routine, runs, lock, begins, held>>
  <2>1. PICK n : n = Len(runs) + 1
    OBVIOUS
  <2>2. PICK beat \in Nat \ {0} : beat = now + Renewal
    BY <1>0, RoutineAssumption, TypesAre
  <2>3. StartRun(r, by, at, attempt, "running", beat) /\ begins' = begins
    BY <1>2, <2>2 DEF Begin
  <2>4. \A b \in begins : b.run # n
    BY <1>0, <2>1, RunIs DEF Threads, Runs
  <2>5. Working'
    BY <2>1, <2>2, <2>3, <2>4, WorkingStarts
  <2>6. Told'
    BY <2>1, <2>2, <2>3, EndsStarts
  <2> QED BY <2>5, <2>6
<1> QED BY <1>1, <1>2

LEMMA TellsBeginning ==
    ASSUME IInv, TypeOK', Paced, Working, Told, NEW b \in begins, Beginning(b)
    PROVE  Working' /\ Told'
<1>0. /\ TypeOK /\ Threads /\ now \in Nat /\ Renewal \in Nat \ {0}
      /\ b.routine \in Routines /\ b.by \in {"schedule", "person"} /\ b.at \in Nat
      /\ b.attempt \in Nat \ {0} /\ b.at <= now
  BY RoutineAssumption, TypesAre, CallStarts DEF IInv
<1>1. CASE ReadThrows(b)
  <2>1. UNCHANGED <<runs, noticed, held, driven, now>> /\ begins' = begins \ {b}
    BY <1>1 DEF ReadThrows
  <2>2. SameDates /\ Ended'
    BY <1>0, <2>1, RunIs DEF SameDates, Told, Ended, Runs
  <2>3. Working'
    BY <2>1 DEF Working, Runs
  <2>4. "success" \in Over
    BY DEF Over, Endings
  <2> QED BY <2>1, <2>2, <2>3, <2>4, EndsNone
<1>2. ASSUME NEW status \in {"running", "failed"}, NEW beat \in Nat, NEW n, n = Len(runs) + 1,
             StartRun(b.routine, b.by, b.at, b.attempt, status, beat), beat # 0 => status = "running",
             UNCHANGED <<now, driven>>,
             \/ begins' = begins \ {b}
             \/ /\ status = "running" /\ beat = 0
                /\ \E c : begins' = (begins \ {b}) \cup {c} /\ c.run = n,
             \/ noticed' = noticed
             \/ noticed' = noticed \cup {n} /\ failedInARow(runs', b.routine) = NoticeAt /\ status = "failed"
      PROVE  Working' /\ Told'
  <2>1. \A c \in begins : c.run # n
    <3>1. n \in Nat /\ n \notin Runs /\ n # 0
      BY <1>0, <1>2, RunIs DEF Runs
    <3> QED BY <1>0, <3>1 DEF Threads
  <2>2. /\ \A c \in begins' : c \in begins \/ c.run = 0 \/ (c.run = n /\ status = "running" /\ beat = 0)
        /\ \A c, d \in begins' : c.run = n /\ d.run = n => c = d
    BY <1>2, <2>1
  <2>3. Working'
    BY <1>0, <1>2, <2>2, WorkingStarts
  <2>4. Told'
    BY <1>0, <1>2, EndsStarts
  <2> QED BY <2>3, <2>4
<1>3. CASE ReadFails(b)
  <2>1. PICK n : n = Len(runs) + 1
    OBVIOUS
  <2>2. /\ StartRun(b.routine, b.by, b.at, b.attempt, "failed", 0) /\ UNCHANGED <<now, driven>>
        /\ Notice(runs', Len(runs')) /\ begins' = begins \ {b}
    BY <1>3 DEF ReadFails, Returns
  <2>3. Len(runs') = n /\ runs'[n].routine = b.routine
    BY <1>0, <2>1, <2>2, Appends
  <2>4. \/ noticed' = noticed
        \/ noticed' = noticed \cup {n} /\ failedInARow(runs', b.routine) = NoticeAt
    BY <2>2, <2>3 DEF Notice
  <2> QED BY <1>2, <2>1, <2>2, <2>4
<1>4. CASE ReadStarts(b)
  <2>1. PICK n : n = Len(runs) + 1
    OBVIOUS
  <2>2. PICK status \in {"running", "failed"}, beat \in Nat :
           /\ StartRun(b.routine, b.by, b.at, b.attempt, status, beat)
           /\ beat # 0 => status = "running"
    <3>1. now + Renewal \in Nat
      BY <1>0
    <3>2. CASE routine[b.routine].state = "gone"
      <4>1. StartRun(b.routine, b.by, b.at, b.attempt, "failed", 0)
        BY <1>4, <3>2 DEF ReadStarts
      <4> QED BY <4>1
    <3>3. CASE routine[b.routine].state # "gone"
      <4>1. StartRun(b.routine, b.by, b.at, b.attempt, "running", now + Renewal)
        BY <1>4, <3>3 DEF ReadStarts
      <4> QED BY <3>1, <4>1
    <3> QED BY <3>2, <3>3
  <2>3. UNCHANGED <<now, driven, noticed>> /\ begins' = begins \ {b}
    BY <1>4 DEF ReadStarts, Returns
  <2> QED BY <1>2, <2>1, <2>2, <2>3
<1>5. CASE ReadOpens(b)
  <2>1. PICK n : n = Len(runs) + 1
    OBVIOUS
  <2>2. PICK c : c = [b EXCEPT !.run = n]
    OBVIOUS
  <2>3. c.run = n
    BY <2>2, TypesAre, <1>0 DEF Calls
  <2>4. StartRun(b.routine, b.by, b.at, b.attempt, "running", 0) /\ UNCHANGED <<now, driven, noticed>>
        /\ begins' = (begins \ {b}) \cup {c}
    BY <1>5, <2>1, <2>2 DEF ReadOpens, Returns
  <2> QED BY <1>2, <2>1, <2>3, <2>4
<1>6. CASE ThreadOpens(b)
  <2>1. PICK k : k = b.run
    OBVIOUS
  <2>2. /\ k \in Runs /\ k # 0 /\ begins' = begins \ {b} /\ UNCHANGED <<now, driven>>
        /\ runs[k].status \in {"running", "gone"} /\ held[k] = 0 /\ k \notin driven
        /\ \A c \in begins' : c.run # k
    BY <1>0, <1>6, <2>1 DEF ThreadOpens, Returns, Threads, Working
  <2>3. CASE runs[k].status # "running"
    <3>1. UNCHANGED <<runs, held, noticed>>
      BY <1>6, <2>1, <2>3 DEF ThreadOpens
    <3>2. SameDates /\ Ended'
      BY <1>0, <2>2, <3>1, RunIs DEF SameDates, Told, Ended, Runs
    <3>3. Working'
      BY <2>2, <3>1 DEF Working, Runs
    <3>4. "success" \in Over
      BY DEF Over, Endings
    <3> QED BY <2>2, <3>1, <3>2, <3>3, <3>4, EndsNone
  <2>4. CASE runs[k].status = "running" /\ routine[b.routine].state = "gone"
    <3>1. finish(k, "failed") /\ "failed" \in Endings
      BY <1>6, <2>1, <2>4 DEF ThreadOpens, Endings
    <3>2. runs' = Finished(k, "failed") /\ held' = [held EXCEPT ![k] = 0] /\ Notice(runs', k)
      BY <3>1 DEF finish
    <3>3. SameDates /\ \A j \in Runs : j # k => runs'[j] = runs[j]
      BY <1>0, <2>2, <3>2, FinishedDates, FinishedStatus
    <3>4. held'[k] = 0 /\ \A j \in Runs : j # k => held'[j] = held[j]
      BY <1>0, <2>2, <3>2, HeldTypes
    <3>5. Working'
      <4>1. \A j \in Runs : held'[j] # 0 => held[j] # 0
        BY <3>4
      <4>2. \A j \in Runs :
              \/ runs[j].status \in {"running", "request", "gone"} => runs'[j].status \in {runs[j].status, "gone"}
              \/ held'[j] = 0 /\ j \notin driven' /\ \A c \in begins' : c.run # j
        BY <2>2, <3>3, <3>4
      <4>3. begins' \subseteq begins /\ driven' \subseteq driven
        BY <2>2
      <4> QED BY <3>3, <4>1, <4>2, <4>3, WorkingStays
    <3>6. \/ noticed' = noticed
          \/ noticed' = noticed \cup {k} /\ failedInARow(runs', runs'[k].routine) = NoticeAt
      BY <3>2 DEF Notice
    <3>7. Told'
      BY <2>2, <3>1, <3>2, <3>6, EndsOne
    <3> QED BY <3>5, <3>7
  <2>5. CASE runs[k].status = "running" /\ routine[b.routine].state # "gone"
    <3>1. UNCHANGED <<runs, noticed>> /\ held' = [held EXCEPT ![k] = now + Renewal]
      BY <1>6, <2>1, <2>5 DEF ThreadOpens
    <3>2. SameDates /\ Ended'
      BY <1>0, <2>2, <3>1, RunIs DEF SameDates, Told, Ended, Runs
    <3>3. now + Renewal \in Nat
      BY <1>0
    <3>4. \A j \in Runs : j # k => held'[j] = held[j]
      BY <1>0, <2>2, <3>1, <3>3, HeldTypes
    <3>5. Working'
      <4>1. ASSUME NEW j \in Runs', held'[j] # 0 \/ j \in driven'
            PROVE  runs'[j].status \in {"running", "request", "gone"}
        BY <2>2, <3>1, <3>4, <4>1 DEF Working, Runs
      <4>2. ASSUME NEW c \in begins', c.run # 0
            PROVE  runs'[c.run].status \in {"running", "gone"} /\ held'[c.run] = 0 /\ c.run \notin driven'
        <5>1. c \in begins /\ c.run \in Runs /\ c.run # k
          BY <1>0, <2>2, <4>2 DEF Threads
        <5> QED BY <2>2, <3>1, <3>4, <4>2, <5>1 DEF Working
      <4>3. \A j \in driven' : held'[j] = 0
        <5>1. driven \subseteq Runs
          BY <1>0, TypesAre
        <5> QED BY <2>2, <3>4, <5>1 DEF Working
      <4>4. \A c, d \in begins' : c.run # 0 /\ c.run = d.run => c = d
        BY <2>2 DEF Working
      <4> QED BY <4>1, <4>2, <4>3, <4>4 DEF Working
    <3>6. "success" \in Over
      BY DEF Over, Endings
    <3> QED BY <2>2, <3>1, <3>2, <3>5, <3>6, EndsNone
  <2> QED BY <2>3, <2>4, <2>5
<1> QED BY <1>1, <1>3, <1>4, <1>5, <1>6 DEF Beginning

LEMMA TellsKeep == IInv /\ Paced /\ Working /\ Told /\ [Next]_vars => Working' /\ Told'
<1> SUFFICES ASSUME IInv, Paced, Working, Told, [Next]_vars PROVE Working' /\ Told'
  OBVIOUS
<1>0. TypeOK /\ TypeOK' /\ now \in Nat /\ held \in [Runs -> Nat]
  BY Keeps, TypesAre DEF IInv
<1>1. ASSUME NEW k \in Runs, Running(k)
      PROVE  Working' /\ Told'
  <2>1. CASE Heartbeat(k)
    <3>1. /\ UNCHANGED <<runs, noticed, begins, driven, now>> /\ held[k] # 0
          /\ held' = [held EXCEPT ![k] = now + Renewal]
      BY <2>1 DEF Heartbeat, rows
    <3>2. now + Renewal \in Nat
      BY <1>0, RoutineAssumption
    <3>3. held' \in [Runs -> Nat] /\ \A j \in Runs : j # k => held'[j] = held[j]
      BY <1>0, <3>1, <3>2, HeldTypes
    <3> QED BY <1>0, <3>1, <3>3, TellsAside
  <2>2. CASE stopRun(k)
    BY <1>0, <2>2, TellsStopped DEF stopRun
  <2> QED BY <1>0, <1>1, <2>1, <2>2, TellsRuns, TellsRequest, TellsApprove DEF Running
<1>2. ASSUME NEW r \in Routines, Asked(r)
      PROVE  Working' /\ Told'
  <2>1. CASE runNow(r)
    <3>1. Begin(r, "person", now, 1) /\ UNCHANGED <<now, noticed, driven>>
      BY <2>1 DEF runNow
    <3> QED BY <1>0, <3>1, TellsBegin
  <2>2. CASE RemoveAsked(r)
    BY <1>0, <2>2, TellsStopped DEF RemoveAsked
  <2>3. CASE setEnabled(r)
    BY <1>0, <2>3, TellsAside DEF setEnabled, calls
  <2> QED BY <1>0, <1>2, <2>1, <2>2, <2>3, TellsRemoves DEF Asked
<1>3. CASE TickBegins
  BY <1>0, <1>3, TellsAside DEF TickBegins
<1>4. CASE TickFires
  <2>1. PICK f \in tick.due : Begin(f.routine, "schedule", tick.at, f.attempt)
    BY <1>4 DEF TickFires
  <2>2. tick.on /\ tick \in Ticks /\ UNCHANGED <<now, noticed, driven>>
    BY <1>0, <1>4, TypesAre DEF TickFires
  <2>3. f.routine \in Routines /\ f.attempt \in Nat \ {0} /\ tick.at \in Nat
    BY <2>2 DEF Ticks, Firings
  <2>4. tick.at <= now
    BY <2>2 DEF Paced, Dated
  <2> QED BY <1>0, <2>1, <2>2, <2>3, <2>4, TellsBegin
<1>5. CASE Pass \/ Nap
  <2>1. UNCHANGED <<runs, noticed, begins, driven, held>>
    BY <1>5 DEF Pass, Nap, rows, calls
  <2>2. now' \in Nat /\ now <= now'
    BY <1>0, <1>5, RoutineAssumption DEF Pass, Nap
  <2> QED BY <1>0, <2>1, <2>2, TellsAside
<1>6. CASE UNCHANGED vars
  BY <1>0, <1>6, TellsAside DEF vars
<1> QED BY <1>0, <1>1, <1>2, <1>3, <1>4, <1>5, <1>6, TellsRestart, TellsBeginning DEF Next

\* Of the runs that make a routine's streak at most one was told of, unless
\* one that started before ended well after: for any routines, schedules and
\* retries, however naps, restarts, pauses, approvals, deletions and calls of a
\* person interleave (scheduler.ts, noticeFailures; schedule.ts, failedInARow).
THEOREM NoticedOnce == Spec => []NoticeOncePerStreak
<1>2. Init => Working /\ Told
  <2> SUFFICES ASSUME Init PROVE Working /\ Told
    OBVIOUS
  <2>1. runs = <<>> /\ begins = {} /\ driven = {} /\ noticed = {}
    BY DEF Init
  <2>2. Runs = {}
    BY <2>1 DEF Runs
  <2> QED BY <2>1, <2>2 DEF Working, Told, Ended, ToldOver, Counted, NoticeOncePerStreak
<1>3. Told => NoticeOncePerStreak
  BY DEF Told
<1> QED BY <1>2, <1>3, TellsKeep, PacedAtFirst, PacedKeeps, Starting0, Keeps, PTL DEF Spec
==============================================================================
