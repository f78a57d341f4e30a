---------------------------- MODULE RunEngineProofs ----------------------------
(***************************************************************************)
(* What RunEngine promises, proved for every task graph, every ceiling and *)
(* every number of drivers, calls and restarts.                            *)
(***************************************************************************)
EXTENDS RunEngine, FiniteSetTheorems, SequenceTheorems, WellFoundedInduction, TLAPS

------------------------------------------------------------------------------
(* The graph's operators, for every sequence of task rows.                *)

\* A set of numbers that is not empty has a least one.
LEMMA LeastNumber ==
    ASSUME NEW S \in SUBSET Nat, S # {}
    PROVE  \E n \in S : \A m \in S : n <= m
<1>1. IsWellFoundedOn(OpToRel(<, Nat), Nat)
  BY NatLessThanWellFounded
<1>2. PICK n \in S : \A m \in S : <<m, n>> \notin OpToRel(<, Nat)
  BY <1>1, WFMin
<1>3. \A m \in S : ~(m < n)
  BY <1>2 DEF OpToRel
<1> QED BY <1>3

\* The oldest and the newest of some of a run's tasks are among them.
LEMMA OldestIs ==
    ASSUME NEW S \in SUBSET Nat, S # {}
    PROVE  Oldest(S) \in S /\ \A u \in S : Oldest(S) <= u
BY LeastNumber DEF Oldest

LEMMA NewestIs ==
    ASSUME NEW n \in Nat, NEW S \in SUBSET (1 .. n), S # {}
    PROVE  Newest(S) \in S /\ \A u \in S : u <= Newest(S)
<1> DEFINE T == {n - u : u \in S}
<1>1. T \in SUBSET Nat /\ T # {}
  <2>1. \A u \in S : u \in Nat /\ n - u \in Nat
    OBVIOUS
  <2> QED BY <2>1
<1>2. PICK m \in T : \A k \in T : m <= k
  BY <1>1, LeastNumber
<1>3. PICK t \in S : m = n - t
  BY <1>2
<1>4. \A u \in S : n - t <= n - u
  BY <1>2, <1>3
<1>5. \A u \in S : u <= t
  BY <1>3, <1>4
<1> QED BY <1>3, <1>5 DEF Newest

\* The work a check is about is another task of its run, an agent's.
LEMMA CheckedTaskIs ==
    ASSUME NEW ts \in Seq(TaskRows), NEW v \in DOMAIN ts, CheckedTask(ts, v) # 0
    PROVE  CheckedTask(ts, v) \in DOMAIN ts /\ ts[CheckedTask(ts, v)].kind = "agent"
<1> DEFINE named == {t \in DOMAIN ts : ts[t].kind = "agent" /\ ts[t].name \in Listed(ts[v].dependsOn)}
           above == {t \in DOMAIN ts : ts[t].kind = "agent" /\ t < v}
           about == IF ts[v].dependsOn # <<>> THEN named ELSE above
<1>1. about # {} /\ CheckedTask(ts, v) = Newest(about)
  BY DEF CheckedTask
<1>2. about \subseteq DOMAIN ts /\ (\A t \in about : ts[t].kind = "agent")
  OBVIOUS
<1>3. about \in SUBSET (1 .. Len(ts)) /\ Len(ts) \in Nat
  BY <1>2
<1> HIDE DEF about
<1> QED BY <1>1, <1>2, <1>3, NewestIs

\* A row whose status, verdict or mark changes is a row.
LEMMA RowStatus ==
    ASSUME NEW row \in TaskRows, NEW s \in Statuses
    PROVE  [row EXCEPT !.status = s] \in TaskRows
BY DEF TaskRows

LEMMA RowBegun ==
    ASSUME NEW row \in TaskRows
    PROVE  [row EXCEPT !.status = "running", !.started = TRUE] \in TaskRows
BY DEF TaskRows, Statuses

LEMMA RowJudged ==
    ASSUME NEW row \in TaskRows, NEW v \in VerdictValues, NEW by \in {"rule", "check"}
    PROVE  [row EXCEPT !.verdict = v, !.by = by] \in TaskRows
BY DEF TaskRows

LEMMA NewTaskIs ==
    ASSUME NEW name \in Names, NEW kind \in Kinds
    PROVE  NewTask(name, kind) \in TaskRows
<1>1. <<>> \in Seq(Names)
  BY EmptySeq
<1>2. "" \in Names
  BY RunGraphAssumption
<1>3. "queued" \in Statuses /\ {} \in SUBSET Statuses
  BY DEF Statuses
<1>4. "none" \in VerdictValues \cup {"none"} /\ "none" \in {"none", "rule", "check"}
  OBVIOUS
<1>5. 0 \in Nat /\ 1 \in Nat
  OBVIOUS
<1> QED BY <1>1, <1>2, <1>3, <1>4, <1>5 DEF TaskRows, NewTask

\* A new attempt of a row is a row that has not run.
LEMMA RowAgain ==
    ASSUME NEW row \in TaskRows, NEW n \in Nat, NEW t \in Nat
    PROVE  LET new == [row EXCEPT !.status = "queued", !.started = FALSE, !.verdict = "none",
                                  !.by = "none", !.cut = FALSE, !.attempt = n, !.retryOf = t]
           IN new \in TaskRows /\ new.status = "queued" /\ ~new.started
<1>1. "queued" \in Statuses
  BY DEF Statuses
<1> QED BY <1>1 DEF TaskRows

LEMMA AgainOfIs ==
    ASSUME NEW ts \in Seq(TaskRows), NEW t \in DOMAIN ts
    PROVE  /\ AgainOf(ts, t) \in TaskRows
           /\ AgainOf(ts, t).status = "queued" /\ ~AgainOf(ts, t).started
<1>1. ts[t] \in TaskRows /\ t \in Nat
  OBVIOUS
<1>2. ts[t].attempt + 1 \in Nat
  BY <1>1 DEF TaskRows
<1> QED BY <1>1, <1>2, RowAgain DEF AgainOf

LEMMA RetryOfIs ==
    ASSUME NEW ts \in Seq(TaskRows), NEW t \in DOMAIN ts
    PROVE  /\ RetryOf(ts, t) \in TaskRows
           /\ RetryOf(ts, t).status = "queued" /\ ~RetryOf(ts, t).started
<1>1. ts[t] \in TaskRows /\ t \in Nat
  OBVIOUS
<1>2. /\ ts[t].name \in Names /\ ts[t].kind \in Kinds /\ ts[t].visual \in BOOLEAN
      /\ ts[t].attempt + 1 \in Nat
  BY <1>1 DEF TaskRows
<1>3. NewTask(ts[t].name, ts[t].kind) \in TaskRows
  BY <1>2, NewTaskIs
<1>4. /\ NewTask(ts[t].name, ts[t].kind).status = "queued"
      /\ NewTask(ts[t].name, ts[t].kind).started = FALSE
  BY DEF NewTask
<1> QED BY <1>1, <1>2, <1>3, <1>4 DEF RetryOf, TaskRows

LEMMA StepOfIs ==
    ASSUME NEW row \in TaskRows
    PROVE  StepOf(row) \in TaskRows /\ StepOf(row).status = "queued" /\ ~StepOf(row).started
<1>1. row.name \in Names /\ row.kind \in Kinds
  BY DEF TaskRows
<1>2. NewTask(row.name, row.kind) \in TaskRows
  BY <1>1, NewTaskIs
<1>3. NewTask(row.name, row.kind).status = "queued" /\ NewTask(row.name, row.kind).started = FALSE
  BY DEF NewTask
<1> QED BY <1>2, <1>3 DEF StepOf, TaskRows

LEMMA RowListed ==
    ASSUME NEW row \in TaskRows, row.status = "queued", ~row.started,
           NEW q \in Seq(Names), NEW n \in Nat
    PROVE  LET one == [row EXCEPT !.listed = TRUE]
               two == [row EXCEPT !.listed = TRUE, !.dependsOn = q, !.retries = n]
           IN /\ one \in TaskRows /\ one.status = "queued" /\ ~one.started
              /\ two \in TaskRows /\ two.status = "queued" /\ ~two.started
BY DEF TaskRows

\* What a failed check that has a try left adds to its run.
LEMMA RetryPairIs ==
    ASSUME NEW ts \in Seq(TaskRows), NEW work \in DOMAIN ts, NEW check \in DOMAIN ts,
           ts[check].retries > 0
    PROVE  /\ RetryPair(ts, work, check) \in Seq(TaskRows)
           /\ Len(RetryPair(ts, work, check)) = 2
           /\ \A i \in 1 .. 2 : /\ RetryPair(ts, work, check)[i].status = "queued"
                                /\ ~RetryPair(ts, work, check)[i].started
<1> DEFINE one == [RetryOf(ts, work) EXCEPT !.listed = TRUE]
           two == [RetryOf(ts, check) EXCEPT !.listed = TRUE, !.dependsOn = <<ts[work].name>>,
                                             !.retries = ts[check].retries - 1]
<1>1. ts[work] \in TaskRows /\ ts[check] \in TaskRows
  OBVIOUS
<1>2. ts[work].name \in Names /\ ts[check].retries \in Nat
  BY <1>1 DEF TaskRows
<1>3. <<ts[work].name>> \in Seq(Names) /\ ts[check].retries - 1 \in Nat
  BY <1>2
<1>4. /\ RetryOf(ts, work) \in TaskRows /\ RetryOf(ts, check) \in TaskRows
      /\ RetryOf(ts, work).status = "queued" /\ ~RetryOf(ts, work).started
      /\ RetryOf(ts, check).status = "queued" /\ ~RetryOf(ts, check).started
  BY RetryOfIs
<1>5. one \in TaskRows /\ one.status = "queued" /\ ~one.started
  BY <1>3, <1>4, RowListed
<1>6. two \in TaskRows /\ two.status = "queued" /\ ~two.started
  BY <1>3, <1>4, RowListed
<1>7. RetryPair(ts, work, check) = <<one, two>>
  BY DEF RetryPair
<1> HIDE DEF one, two
<1> QED BY <1>5, <1>6, <1>7

------------------------------------------------------------------------------
(* The invariant.                                                          *)

(***************************************************************************)
(* The inductive invariant.  A body's row has started and is "running"     *)
(* for as long as the body is in its turn and settled after that, and no   *)
(* two bodies work on one row; where no folder can be missing, a row that  *)
(* is running has its body too.                                            *)
(***************************************************************************)
Worked ==
    /\ \A b, c \in bodies : b.task = c.task => b = c
    /\ \A b \in bodies :
          /\ tasks[b.task].started
          /\ b.stage = "turn" => tasks[b.task].status = "running"
          /\ b.stage # "turn" => tasks[b.task].status \in Terminal

Manned ==
    ~MissingFolder =>
        \A t \in DOMAIN tasks : tasks[t].status = "running" => \E b \in bodies : b.task = t

IInv == TypeOK /\ Worked /\ Manned

\* One step of SettledRowsStay, and a row that starts has a new body for it.
Kept ==
    \A t \in DOMAIN tasks :
        /\ t \in DOMAIN tasks'
        /\ tasks[t].started /\ tasks[t].status \in Terminal => tasks'[t].status = tasks[t].status
        /\ Starts(t) => \E b \in bodies' \ bodies : b.task = t /\ b.stage = "turn"

------------------------------------------------------------------------------
(* Rows.                                                                   *)

\* Rows are finished, judged, begun and called off in their place, and keep
\* what is not named.
LEMMA FinishIs ==
    ASSUME NEW ts \in Seq(TaskRows), NEW S, NEW st \in Statuses
    PROVE  /\ Finish(ts, S, st) \in Seq(TaskRows) /\ Len(Finish(ts, S, st)) = Len(ts)
           /\ DOMAIN Finish(ts, S, st) = DOMAIN ts
           /\ \A t \in DOMAIN ts :
                 /\ Finish(ts, S, st)[t].status = IF t \in S THEN st ELSE ts[t].status
                 /\ Finish(ts, S, st)[t].started = ts[t].started
<1>1. \A t \in DOMAIN ts : ts[t] \in TaskRows
  OBVIOUS
<1>2. \A row \in TaskRows : /\ [row EXCEPT !.status = st] \in TaskRows
                            /\ [row EXCEPT !.status = st].status = st
                            /\ [row EXCEPT !.status = st].started = row.started
  BY RowStatus DEF TaskRows
<1>3. Len(ts) \in Nat /\ DOMAIN ts = 1 .. Len(ts)
  OBVIOUS
<1> DEFINE e(t) == IF t \in S THEN [ts[t] EXCEPT !.status = st] ELSE ts[t]
<1>4. \A t \in 1 .. Len(ts) :
         /\ e(t) \in TaskRows /\ e(t).status = (IF t \in S THEN st ELSE ts[t].status)
         /\ e(t).started = ts[t].started
  BY <1>1, <1>2, <1>3
<1>5. Finish(ts, S, st) = [t \in 1 .. Len(ts) |-> e(t)]
  BY <1>3 DEF Finish
<1> HIDE DEF e
<1> QED BY <1>3, <1>4, <1>5

LEMMA BeginIs ==
    ASSUME NEW ts \in Seq(TaskRows), NEW S
    PROVE  /\ Begin(ts, S) \in Seq(TaskRows) /\ Len(Begin(ts, S)) = Len(ts)
           /\ DOMAIN Begin(ts, S) = DOMAIN ts
           /\ \A t \in DOMAIN ts :
                 /\ Begin(ts, S)[t].status = IF t \in S THEN "running" ELSE ts[t].status
                 /\ Begin(ts, S)[t].started = (t \in S \/ ts[t].started)
<1>1. \A t \in DOMAIN ts : ts[t] \in TaskRows
  OBVIOUS
<1> DEFINE new(row) == [row EXCEPT !.status = "running", !.started = TRUE]
<1>2. \A row \in TaskRows : /\ new(row) \in TaskRows /\ new(row).status = "running" /\ new(row).started
                            /\ row.started \in BOOLEAN
  BY RowBegun DEF TaskRows
<1>3. Len(ts) \in Nat /\ DOMAIN ts = 1 .. Len(ts)
  OBVIOUS
<1> DEFINE e(t) == IF t \in S THEN new(ts[t]) ELSE ts[t]
<1>4. \A t \in 1 .. Len(ts) :
         /\ e(t) \in TaskRows /\ e(t).status = (IF t \in S THEN "running" ELSE ts[t].status)
         /\ e(t).started = (t \in S \/ ts[t].started)
  <2> HIDE DEF new
  <2> QED BY <1>1, <1>2, <1>3
<1>5. Begin(ts, S) = [t \in 1 .. Len(ts) |-> e(t)]
  BY <1>3 DEF Begin
<1> HIDE DEF e
<1> QED BY <1>3, <1>4, <1>5

LEMMA JudgedIs ==
    ASSUME NEW ts \in Seq(TaskRows), NEW u \in DOMAIN ts, NEW v \in VerdictValues,
           NEW by \in {"rule", "check"}
    PROVE  /\ Judged(ts, u, v, by) \in Seq(TaskRows) /\ Len(Judged(ts, u, v, by)) = Len(ts)
           /\ DOMAIN Judged(ts, u, v, by) = DOMAIN ts
           /\ \A t \in DOMAIN ts :
                 /\ Judged(ts, u, v, by)[t].status = ts[t].status
                 /\ Judged(ts, u, v, by)[t].started = ts[t].started
<1> DEFINE row == [ts[u] EXCEPT !.verdict = v, !.by = by]
<1>1. ts[u] \in TaskRows
  OBVIOUS
<1>2. row \in TaskRows /\ row.status = ts[u].status /\ row.started = ts[u].started
  BY <1>1, RowJudged DEF TaskRows
<1>3. Judged(ts, u, v, by) = [ts EXCEPT ![u] = row]
  BY <1>1 DEF Judged, TaskRows
<1> HIDE DEF row
<1> QED BY <1>2, <1>3

------------------------------------------------------------------------------
(* Drivers.                                                                *)

\* A driver's context stays one, whatever a step writes in it.
LEMMA ContextIs ==
    ASSUME NEW D, NEW c \in Contexts(D)
    PROVE  /\ \A W \in SUBSET D : [c EXCEPT !.waiting = W] \in Contexts(D)
           /\ \A N \in SUBSET D : [c EXCEPT !.notes = N] \in Contexts(D)
           /\ \A pc \in {"loop", "wait", "left"} : [c EXCEPT !.pc = pc] \in Contexts(D)
           /\ \A why \in Pauses \ {"request"} : [c EXCEPT !.pause = why] \in Contexts(D)
           /\ \A x \in BOOLEAN : /\ [c EXCEPT !.failure = x] \in Contexts(D)
                                 /\ [c EXCEPT !.halted = x] \in Contexts(D)
                                 /\ [c EXCEPT !.near = x] \in Contexts(D)
           /\ c.waiting \subseteq D /\ c.notes \subseteq D
           /\ c.failure \in BOOLEAN /\ c.near \in BOOLEAN /\ c.halted \in BOOLEAN
           /\ c.pause \in Pauses \ {"request"} /\ c.pc \in {"loop", "wait", "left"}
BY DEF Contexts

LEMMA Noted ==
    ASSUME NEW D, NEW c \in Contexts(D), NEW t \in D
    PROVE  [c EXCEPT !.notes = @ \cup {t}] \in Contexts(D)
<1>1. c.notes \cup {t} \in SUBSET D
  BY DEF Contexts
<1>2. \A N \in SUBSET D : [c EXCEPT !.notes = N] \in Contexts(D)
  BY ContextIs
<1> QED BY <1>1, <1>2

LEMMA NearedIs ==
    ASSUME NEW D, NEW c \in Contexts(D), NEW near \in BOOLEAN, NEW gates \in BOOLEAN
    PROVE  [c EXCEPT !.near = @ \/ near, !.pause = IF gates THEN "threshold" ELSE @] \in Contexts(D)
<1>1. (c.near \/ near) \in BOOLEAN /\ (IF gates THEN "threshold" ELSE c.pause) \in Pauses \ {"request"}
  BY DEF Contexts, Pauses
<1> QED BY <1>1 DEF Contexts

LEMMA ContextGrows ==
    ASSUME NEW D, NEW E, D \subseteq E, NEW c \in Contexts(D)
    PROVE  c \in Contexts(E)
BY DEF Contexts

LEMMA OffIs == \A D : Off \in Contexts(D)
BY DEF Off, Contexts, Pauses

LEMMA EnteredIs ==
    ASSUME NEW r \in RunRows, NEW ts \in Seq(TaskRows)
    PROVE  Entered(r, ts) \in Contexts(DOMAIN ts)
<1>1. With(ts, "success") \subseteq DOMAIN ts
  BY DEF With
<1>2. r.approved \in BOOLEAN /\ r.near \in BOOLEAN
  BY DEF RunRows
<1> QED BY <1>1, <1>2 DEF Entered, Off, Contexts, Pauses

\* A run's row stays one.
LEMMA RunRowIs ==
    ASSUME NEW r \in RunRows
    PROVE  /\ \A st \in {"running", "awaiting", "success", "failed", "stopped"} :
                 [r EXCEPT !.status = st] \in RunRows
           /\ \A why \in Pauses, over \in BOOLEAN : Paused(r, why, over) \in RunRows
           /\ \A x \in BOOLEAN : [r EXCEPT !.near = x] \in RunRows /\ [r EXCEPT !.approved = x] \in RunRows
           /\ Reopened(r) \in RunRows
           /\ r.near \in BOOLEAN
BY DEF RunRows, Paused, Reopened

\* The budget's pause, on both of them.
LEMMA AtBudgetIs ==
    ASSUME NEW D, NEW c \in Contexts(D), NEW r \in RunRows
    PROVE  PausedAtBudget(c) \in Contexts(D) /\ HeldAtBudget(c, r) \in RunRows
<1>1. "budget" \in Pauses \ {"request"} /\ TRUE \in BOOLEAN
  BY DEF Pauses
<1> QED BY <1>1, ContextIs, RunRowIs DEF PausedAtBudget, HeldAtBudget

\* A driver as a body leaves it: where it was, and let past what it was.
Carries(c, e) == c.pc = e.pc /\ c.approved = e.approved

LEMMA CarriesIs ==
    ASSUME NEW D, NEW c \in Contexts(D)
    PROVE  /\ \A W \in SUBSET D : Carries([c EXCEPT !.waiting = W], c)
           /\ \A N \in SUBSET D : Carries([c EXCEPT !.notes = N], c)
           /\ \A why \in Pauses \ {"request"} : Carries([c EXCEPT !.pause = why], c)
           /\ \A x \in BOOLEAN : /\ Carries([c EXCEPT !.failure = x], c)
                                 /\ Carries([c EXCEPT !.halted = x], c)
           /\ Carries(PausedAtBudget(c), c)
           /\ Carries(c, c)
BY DEF Contexts, Carries, PausedAtBudget

\* The run's row as most steps leave it: let past what it was.
LEMMA RowsCarry ==
    ASSUME NEW r \in RunRows, NEW c
    PROVE  /\ \A why \in Pauses, over \in BOOLEAN : Paused(r, why, over).approved = r.approved
           /\ \A st : [r EXCEPT !.status = st].approved = r.approved
           /\ \A x : [r EXCEPT !.near = x].approved = r.approved
           /\ HeldAtBudget(c, r).approved = r.approved
           /\ Reopened(r).approved = r.approved
BY DEF RunRows, Paused, HeldAtBudget, Reopened

------------------------------------------------------------------------------
(* Kinds of step.                                                          *)

\* Rows change aside from the bodies: nothing begins, and what has run and
\* settled is left alone.
Aside(ts) ==
    /\ ts \in Seq(TaskRows) /\ DOMAIN tasks \subseteq DOMAIN ts
    /\ \A t \in DOMAIN tasks :
          /\ ts[t].started = tasks[t].started
          /\ \/ ts[t].status = tasks[t].status
             \/ /\ ts[t].status # "running"
                /\ tasks[t].status = "queued" \/ (~tasks[t].started /\ tasks[t].status \in Terminal)
    /\ \A t \in DOMAIN ts \ DOMAIN tasks : ts[t].status # "running"

\* A body's row is settled, and nothing else changes what it is.
Ended(b, ts) ==
    /\ ts \in Seq(TaskRows) /\ DOMAIN tasks \subseteq DOMAIN ts
    /\ \A t \in DOMAIN tasks :
          /\ ts[t].started = tasks[t].started
          /\ ts[t].status = tasks[t].status \/ (t = b.task /\ tasks[t].status = "running")
    /\ ts[b.task].status \in Terminal
    /\ \A t \in DOMAIN ts \ DOMAIN tasks : ts[t].status # "running"

LEMMA AsideKeeps ==
    ASSUME IInv, Aside(tasks'), bodies' = bodies
    PROVE  Worked' /\ Manned' /\ Kept
<1>1. \A b \in bodies : b.task \in DOMAIN tasks /\ tasks'[b.task].status = tasks[b.task].status
                        /\ tasks'[b.task].started = tasks[b.task].started
  BY DEF IInv, TypeOK, BodyRows, Worked, Aside, Terminal
<1>2. Worked'
  BY <1>1 DEF IInv, Worked
<1>3. Manned'
  BY DEF IInv, Manned, Aside
<1>4. Kept
  BY DEF Kept, Starts, Aside, Terminal
<1> QED BY <1>2, <1>3, <1>4

LEMMA EndedKeeps ==
    ASSUME IInv, NEW b \in bodies, Ended(b, tasks'),
           \/ bodies' = bodies \ {b}
           \/ \E stage \in Stages \ {"turn"} : bodies' = (bodies \ {b}) \cup {[b EXCEPT !.stage = stage]}
    PROVE  Worked' /\ Manned' /\ Kept
<1>1. b \in BodyRows(DOMAIN tasks) /\ b.task \in DOMAIN tasks /\ tasks'[b.task].status \in Terminal
      /\ tasks[b.task].started /\ tasks'[b.task].started
  BY DEF IInv, TypeOK, BodyRows, Worked, Ended
<1>2. \A c \in bodies \ {b} :
         /\ c.task # b.task
         /\ tasks'[c.task].status = tasks[c.task].status /\ tasks'[c.task].started = tasks[c.task].started
  BY DEF IInv, TypeOK, BodyRows, Worked, Ended
<1>3. \A c \in bodies' : c \in bodies \ {b} \/ (c.task = b.task /\ c.stage # "turn")
  BY <1>1 DEF BodyRows
<1>4. \A c, d \in bodies' : c.task = d.task => c = d
  BY <1>1, <1>2, <1>3 DEF IInv, Worked
<1>5. Worked'
  BY <1>1, <1>2, <1>3, <1>4 DEF IInv, Worked
<1>6. Manned'
  <2> SUFFICES ASSUME ~MissingFolder, NEW t \in DOMAIN tasks', tasks'[t].status = "running"
               PROVE  \E c \in bodies' : c.task = t
    BY DEF Manned
  <2>1. t \in DOMAIN tasks /\ tasks[t].status = "running" /\ t # b.task
    BY <1>1 DEF Ended, Terminal
  <2>2. PICK c \in bodies : c.task = t
    BY <2>1 DEF IInv, Manned
  <2> QED BY <2>1, <2>2
<1>7. Kept
  BY DEF Kept, Starts, Ended, Terminal
<1> QED BY <1>5, <1>6, <1>7

\* What a step that grows the rows leaves alone keeps its type.
LEMMA Grows ==
    ASSUME TypeOK, DOMAIN tasks \subseteq DOMAIN tasks'
    PROVE  /\ drivers \in [Drivers -> Contexts(DOMAIN tasks')]
           /\ bodies \subseteq BodyRows(DOMAIN tasks')
           /\ resumes \in [Callers -> ResumeRows(DOMAIN tasks')]
           /\ passed \subseteq DOMAIN tasks'
<1>1. \A d \in Drivers : drivers[d] \in Contexts(DOMAIN tasks')
  BY ContextGrows DEF TypeOK
<1>2. bodies \subseteq BodyRows(DOMAIN tasks')
  BY DEF TypeOK, BodyRows
<1>3. \A p \in Callers : resumes[p] \in ResumeRows(DOMAIN tasks')
  BY DEF TypeOK, ResumeRows
<1> QED BY <1>1, <1>2, <1>3 DEF TypeOK

\* A body that settles, or goes on to its next await, keeps everything.
LEMMA SettlesKeeps ==
    ASSUME IInv, NEW b \in bodies, NEW c \in Contexts(DOMAIN tasks), NEW ts, NEW r \in RunRows,
           Ended(b, ts), Settles(b, c, ts, r)
    PROVE  IInv' /\ Kept
<1>1. /\ tasks' = ts /\ run' = r /\ bodies' = bodies \ {b}
      /\ drivers' = [drivers EXCEPT ![b.drv] = [c EXCEPT !.pc = IF @ = "wait" THEN "loop" ELSE @]]
      /\ UNCHANGED elsewhere
  BY DEF Settles
<1>2. tasks' \in Seq(TaskRows) /\ DOMAIN tasks \subseteq DOMAIN tasks'
  BY <1>1 DEF Ended
<1>3. c \in Contexts(DOMAIN tasks')
  BY <1>2, ContextGrows
<1>4. [c EXCEPT !.pc = IF @ = "wait" THEN "loop" ELSE @] \in Contexts(DOMAIN tasks')
  BY <1>3, ContextIs
<1>5. drivers' \in [Drivers -> Contexts(DOMAIN tasks')]
  BY <1>1, <1>2, <1>4, Grows DEF IInv
<1>6. bodies' \subseteq BodyRows(DOMAIN tasks')
  BY <1>1, <1>2, Grows DEF IInv
<1>7. TypeOK'
  BY <1>1, <1>2, <1>5, <1>6, Grows DEF IInv, TypeOK, elsewhere
<1>8. Worked' /\ Manned' /\ Kept
  BY <1>1, EndedKeeps
<1> QED BY <1>7, <1>8 DEF IInv

LEMMA GoesOnKeeps ==
    ASSUME IInv, NEW b \in bodies, NEW c \in Contexts(DOMAIN tasks), NEW ts, NEW r \in RunRows,
           NEW stage \in Stages \ {"turn"}, Ended(b, ts), GoesOn(b, stage, c, ts, r)
    PROVE  IInv' /\ Kept
<1>1. /\ tasks' = ts /\ run' = r /\ bodies' = (bodies \ {b}) \cup {[b EXCEPT !.stage = stage]}
      /\ drivers' = [drivers EXCEPT ![b.drv] = c]
      /\ UNCHANGED elsewhere
  BY DEF GoesOn
<1>2. tasks' \in Seq(TaskRows) /\ DOMAIN tasks \subseteq DOMAIN tasks'
  BY <1>1 DEF Ended
<1>3. c \in Contexts(DOMAIN tasks')
  BY <1>2, ContextGrows
<1>4. drivers' \in [Drivers -> Contexts(DOMAIN tasks')]
  BY <1>1, <1>2, <1>3, Grows DEF IInv
<1>5. [b EXCEPT !.stage = stage] \in BodyRows(DOMAIN tasks')
  BY <1>2, Grows DEF IInv, BodyRows
<1>6. bodies' \subseteq BodyRows(DOMAIN tasks')
  BY <1>1, <1>2, <1>5, Grows DEF IInv
<1>7. TypeOK'
  BY <1>1, <1>2, <1>4, <1>6, Grows DEF IInv, TypeOK, elsewhere
<1>8. Worked' /\ Manned' /\ Kept
  BY <1>1, EndedKeeps
<1> QED BY <1>7, <1>8 DEF IInv

\* What a body of an agent, a check or a command starts from.
LEMMA BodyIs ==
    ASSUME IInv, NEW b \in bodies
    PROVE  /\ b.drv \in Drivers /\ b.task \in DOMAIN tasks /\ b.stage \in Stages
           /\ tasks \in Seq(TaskRows) /\ tasks[b.task] \in TaskRows
           /\ drivers[b.drv] \in Contexts(DOMAIN tasks)
           /\ After(b) \in Contexts(DOMAIN tasks)
           /\ run \in RunRows /\ Released(b) \in RunRows
           /\ b.stage = "turn" => tasks[b.task].status = "running"
           /\ b.stage # "turn" => tasks[b.task].status \in Terminal
<1>1. /\ b.drv \in Drivers /\ b.task \in DOMAIN tasks /\ b.stage \in Stages
      /\ tasks \in Seq(TaskRows) /\ run \in RunRows
      /\ b.stage = "turn" => tasks[b.task].status = "running"
      /\ b.stage # "turn" => tasks[b.task].status \in Terminal
  BY DEF IInv, TypeOK, BodyRows, Worked
<1>2. tasks[b.task] \in TaskRows /\ drivers[b.drv] \in Contexts(DOMAIN tasks)
  BY <1>1 DEF IInv, TypeOK
<1>3. After(b) \in Contexts(DOMAIN tasks)
  <2>1. drivers[b.drv].waiting \ {b.task} \in SUBSET DOMAIN tasks
    BY <1>2 DEF Contexts
  <2>2. \A W \in SUBSET DOMAIN tasks : [drivers[b.drv] EXCEPT !.waiting = W] \in Contexts(DOMAIN tasks)
    BY <1>2, ContextIs
  <2> QED BY <2>1, <2>2 DEF After
<1>4. Released(b) \in RunRows
  BY <1>1 DEF Released, RunRows, Pauses
<1> QED BY <1>1, <1>2, <1>3, <1>4

\* Settling the row of a body in its turn, or judging it later, is its end.
LEMMA FinishEnds ==
    ASSUME IInv, NEW b \in bodies, b.stage = "turn", NEW st \in Terminal
    PROVE  Ended(b, Finish(tasks, {b.task}, st))
<1>1. tasks \in Seq(TaskRows) /\ b.task \in DOMAIN tasks /\ tasks[b.task].status = "running"
  BY BodyIs
<1>2. st \in Statuses
  BY DEF Terminal, Statuses
<1> QED BY <1>1, <1>2, FinishIs DEF Ended

LEMMA JudgedEnds ==
    ASSUME IInv, NEW b \in bodies, NEW ts, Ended(b, ts), NEW u \in DOMAIN ts, NEW v \in VerdictValues,
           NEW by \in {"rule", "check"}
    PROVE  Ended(b, Judged(ts, u, v, by))
<1>1. b.task \in DOMAIN tasks
  BY BodyIs
<1>2. ts \in Seq(TaskRows)
  BY DEF Ended
<1>3. /\ Judged(ts, u, v, by) \in Seq(TaskRows) /\ DOMAIN Judged(ts, u, v, by) = DOMAIN ts
      /\ \A t \in DOMAIN ts :
            /\ Judged(ts, u, v, by)[t].status = ts[t].status
            /\ Judged(ts, u, v, by)[t].started = ts[t].started
  BY <1>2, JudgedIs
<1> QED BY <1>1, <1>3 DEF Ended

\* Queued rows may follow.
LEMMA AddedIs ==
    ASSUME NEW ts \in Seq(TaskRows), NEW more \in Seq(TaskRows),
           \A i \in 1 .. Len(more) : more[i].status = "queued"
    PROVE  /\ ts \o more \in Seq(TaskRows) /\ DOMAIN ts \subseteq DOMAIN (ts \o more)
           /\ \A t \in DOMAIN ts : (ts \o more)[t] = ts[t]
           /\ \A t \in DOMAIN (ts \o more) \ DOMAIN ts : (ts \o more)[t].status = "queued"
<1>1. /\ ts \o more \in Seq(TaskRows) /\ Len(ts \o more) = Len(ts) + Len(more)
      /\ Len(ts) \in Nat /\ Len(more) \in Nat
      /\ \A i \in 1 .. Len(ts) + Len(more) :
            (ts \o more)[i] = IF i <= Len(ts) THEN ts[i] ELSE more[i - Len(ts)]
  BY ConcatProperties
<1>2. DOMAIN ts = 1 .. Len(ts) /\ DOMAIN (ts \o more) = 1 .. Len(ts) + Len(more)
  BY <1>1
<1> QED BY <1>1, <1>2

LEMMA AddedEnds ==
    ASSUME IInv, NEW b \in bodies, NEW ts, Ended(b, ts), NEW more \in Seq(TaskRows),
           \A i \in 1 .. Len(more) : more[i].status = "queued"
    PROVE  Ended(b, ts \o more)
<1>1. ts \in Seq(TaskRows) /\ b.task \in DOMAIN tasks /\ DOMAIN tasks \subseteq DOMAIN ts
  BY BodyIs DEF Ended
<1> DEFINE us == ts \o more
<1>2. /\ us \in Seq(TaskRows) /\ DOMAIN ts \subseteq DOMAIN us
      /\ \A t \in DOMAIN ts : us[t] = ts[t]
      /\ \A t \in DOMAIN us \ DOMAIN ts : us[t].status = "queued"
  BY <1>1, AddedIs
<1> HIDE DEF us
<1>3. Ended(b, us)
  BY <1>1, <1>2 DEF Ended
<1> QED BY <1>3 DEF us

LEMMA AddedAside ==
    ASSUME TypeOK, NEW ts, Aside(ts), NEW more \in Seq(TaskRows),
           \A i \in 1 .. Len(more) : more[i].status = "queued"
    PROVE  Aside(ts \o more)
<1>1. ts \in Seq(TaskRows) /\ DOMAIN tasks \subseteq DOMAIN ts
  BY DEF Aside
<1> DEFINE us == ts \o more
<1>2. /\ us \in Seq(TaskRows) /\ DOMAIN ts \subseteq DOMAIN us
      /\ \A t \in DOMAIN ts : us[t] = ts[t]
      /\ \A t \in DOMAIN us \ DOMAIN ts : us[t].status = "queued"
  BY <1>1, AddedIs
<1> HIDE DEF us
<1>3. Aside(us)
  BY <1>1, <1>2 DEF Aside
<1> QED BY <1>3 DEF us

LEMMA StaysEnded ==
    ASSUME IInv, NEW b \in bodies, b.stage # "turn"
    PROVE  Ended(b, tasks)
BY BodyIs DEF Ended

------------------------------------------------------------------------------
(* A task's body.                                                          *)

LEMMA AsksKeep ==
    ASSUME IInv, NEW b \in bodies, Ask(b) \/ Answered(b)
    PROVE  IInv' /\ Kept
<1>1. tasks' = tasks /\ bodies' = bodies /\ UNCHANGED elsewhere
  BY DEF Ask, Answered
<1>2. run' \in RunRows
  <2>1. run \in RunRows /\ Released(b) \in RunRows
    BY BodyIs
  <2>2. [run EXCEPT !.status = "awaiting", !.paused = "request"] \in RunRows
    BY <2>1 DEF RunRows, Pauses
  <2> QED BY <2>1, <2>2 DEF Ask, Answered
<1>3. drivers' \in [Drivers -> Contexts(DOMAIN tasks)]
  <2>1. CASE Ask(b)
    <3>1. drivers[b.drv].waiting \cup {b.task} \in SUBSET DOMAIN tasks
      BY BodyIs DEF Contexts
    <3>2. \A W \in SUBSET DOMAIN tasks : [drivers[b.drv] EXCEPT !.waiting = W] \in Contexts(DOMAIN tasks)
      BY BodyIs, ContextIs
    <3> QED BY <2>1, <3>1, <3>2, BodyIs DEF Ask, IInv, TypeOK
  <2>2. CASE Answered(b)
    BY <2>2, BodyIs DEF Answered, IInv, TypeOK
  <2> QED BY <2>1, <2>2
<1>4. TypeOK'
  BY <1>1, <1>2, <1>3 DEF IInv, TypeOK, elsewhere
<1>5. Aside(tasks')
  BY <1>1 DEF Aside, IInv, TypeOK
<1> QED BY <1>1, <1>4, <1>5, AsideKeeps DEF IInv

LEMMA TurnFailsKeeps ==
    ASSUME IInv, NEW b \in bodies, TurnFails(b)
    PROVE  IInv' /\ Kept
<1> DEFINE judged == tasks[b.task].kind \in {"agent", "verify"}
           off == judged /\ stopping
           st == IF off THEN "stopped" ELSE "failed"
           done == Finish(tasks, {b.task}, st)
           c == [After(b) EXCEPT !.failure = @ \/ ~off]
<1>1. b.stage = "turn"
  BY DEF TurnFails, InTurn, At
<1>2. PICK v \in {"failed", "needs-user"} :
         Settles(b, c, IF judged /\ ~off THEN Judged(done, b.task, v, "rule") ELSE done, Released(b))
  BY DEF TurnFails
<1>3. c \in Contexts(DOMAIN tasks)
  BY BodyIs, ContextIs
<1>4. st \in Terminal /\ v \in VerdictValues
  BY DEF Terminal, VerdictValues
<1>5. Ended(b, done)
  BY <1>1, <1>4, FinishEnds
<1>6. b.task \in DOMAIN done
  BY <1>5, BodyIs DEF Ended
<1> HIDE DEF done, c, judged, off
<1>7. Ended(b, IF judged /\ ~off THEN Judged(done, b.task, v, "rule") ELSE done)
  BY <1>4, <1>5, <1>6, JudgedEnds
<1> QED BY <1>2, <1>3, <1>7, BodyIs, SettlesKeeps

LEMMA TurnStopsKeeps ==
    ASSUME IInv, NEW b \in bodies, TurnStops(b) \/ TurnHalts(b)
    PROVE  IInv' /\ Kept
<1>1. b.stage = "turn" /\ "stopped" \in Terminal
  BY DEF TurnStops, TurnHalts, InTurn, At, Terminal
<1>2. Ended(b, Finish(tasks, {b.task}, "stopped"))
  BY <1>1, FinishEnds
<1>3. [After(b) EXCEPT !.halted = TRUE] \in Contexts(DOMAIN tasks)
  BY BodyIs, ContextIs
<1> QED BY <1>2, <1>3, BodyIs, SettlesKeeps DEF TurnStops, TurnHalts

LEMMA TurnCutKeeps ==
    ASSUME IInv, NEW b \in bodies, TurnCut(b)
    PROVE  IInv' /\ Kept
<1> DEFINE done == Judged(Finish(tasks, {b.task}, "failed"), b.task, "failed", "rule")
           ts == [done EXCEPT ![b.task].cut = TRUE]
<1>1. b.stage = "turn" /\ "failed" \in Terminal /\ "failed" \in VerdictValues
  BY DEF TurnCut, InTurn, At, Terminal, VerdictValues
<1>2. Ended(b, Finish(tasks, {b.task}, "failed"))
  BY <1>1, FinishEnds
<1>3. Ended(b, done)
  <2>1. b.task \in DOMAIN Finish(tasks, {b.task}, "failed")
    BY <1>2, BodyIs DEF Ended
  <2> QED BY <1>1, <1>2, <2>1, JudgedEnds
<1>4. GoesOn(b, "cut", After(b), ts, Released(b)) /\ "cut" \in Stages \ {"turn"}
  BY DEF TurnCut, Stages
<1> HIDE DEF done
<1>5. Ended(b, ts)
  <2>1. done \in Seq(TaskRows) /\ b.task \in DOMAIN done
    BY <1>3, BodyIs DEF Ended
  <2> DEFINE row == [done[b.task] EXCEPT !.cut = TRUE]
  <2>2. row \in TaskRows /\ row.status = done[b.task].status /\ row.started = done[b.task].started
    <3>1. done[b.task] \in TaskRows
      BY <2>1
    <3> QED BY <3>1 DEF TaskRows
  <2>3. ts = [done EXCEPT ![b.task] = row]
    OBVIOUS
  <2> HIDE DEF row
  <2>4. ts \in Seq(TaskRows) /\ DOMAIN ts = DOMAIN done
    <3>1. b.task \in 1 .. Len(done)
      BY <2>1
    <3> QED BY <2>1, <2>2, <2>3, <3>1, ExceptSeq
  <2>5. \A t \in DOMAIN done : ts[t].status = done[t].status /\ ts[t].started = done[t].started
    BY <2>2, <2>3
  <2> HIDE DEF ts
  <2> QED BY <1>3, <2>1, <2>4, <2>5 DEF Ended
<1> HIDE DEF ts
<1> QED BY <1>4, <1>5, BodyIs, GoesOnKeeps

LEMMA TurnSucceedsKeeps ==
    ASSUME IInv, NEW b \in bodies, TurnSucceeds(b)
    PROVE  IInv' /\ Kept
<1> DEFINE st == IF stopping /\ tasks[b.task].kind = "action" THEN "stopped" ELSE "success"
           c == [After(b) EXCEPT !.notes = @ \cup {b.task}]
<1>1. b.stage = "turn" /\ "success" \in Terminal /\ st \in Terminal
  BY DEF TurnSucceeds, InTurn, At, Terminal
<1>2. Ended(b, Finish(tasks, {b.task}, "success")) /\ Ended(b, Finish(tasks, {b.task}, st))
  BY <1>1, FinishEnds
<1>3. c \in Contexts(DOMAIN tasks)
  BY BodyIs, Noted
<1>4. "judge" \in Stages \ {"turn"} /\ "close" \in Stages \ {"turn"}
  BY DEF Stages
<1>5. \/ GoesOn(b, "judge", After(b), Finish(tasks, {b.task}, "success"), Released(b))
      \/ GoesOn(b, "close", c, Finish(tasks, {b.task}, st), run)
  BY DEF TurnSucceeds
<1> HIDE DEF c, st
<1> QED BY <1>2, <1>3, <1>4, <1>5, BodyIs, GoesOnKeeps

\* A turn that breaks leaves its row "running" with nobody behind it: a folder
\* was missing.
LEMMA TurnBreaksKeeps ==
    ASSUME IInv, NEW b \in bodies, TurnBreaks(b)
    PROVE  IInv' /\ Kept
<1>1. MissingFolder /\ bodies' = bodies \ {b} /\ tasks' = tasks
  BY DEF TurnBreaks
<1>2. run' \in RunRows /\ stopping' \in BOOLEAN /\ crossed' \in BOOLEAN
  BY RunRowIs DEF TurnBreaks, IInv, TypeOK
<1>3. drivers' \in [Drivers -> Contexts(DOMAIN tasks)]
  <2>1. [drivers[b.drv] EXCEPT !.pc = "left"] \in Contexts(DOMAIN tasks)
    BY BodyIs, ContextIs
  <2> QED BY <2>1, BodyIs DEF TurnBreaks, IInv, TypeOK
<1>4. TypeOK'
  BY <1>1, <1>2, <1>3 DEF TurnBreaks, IInv, TypeOK
<1>5. Worked' /\ Manned' /\ Kept
  BY <1>1 DEF IInv, Worked, Manned, Kept, Starts
<1> QED BY <1>4, <1>5 DEF IInv

\* A check settles its own row, judges the work it checked, and may add the
\* next try of both.
LEMMA CheckKeeps ==
    ASSUME IInv, NEW b \in bodies, NEW ok \in BOOLEAN, NEW v \in VerdictValues, CheckEnds(b, ok, v)
    PROVE  IInv' /\ Kept
<1> DEFINE t == b.task
           st == IF stopping THEN "stopped" ELSE IF ok THEN "success" ELSE "failed"
           done == Finish(tasks, {t}, st)
           own == Judged(done, t, v, "check")
           work == CheckedTask(tasks, t)
           ts == IF stopping THEN done
                 ELSE IF work # 0 /\ Speaks(v, tasks[work].verdict) THEN Judged(own, work, v, "check")
                 ELSE own
           c == [After(b) EXCEPT !.notes = @ \cup {t}]
           again == ts \o RetryPair(tasks, work, t)
           failed == [c EXCEPT !.failure = @ \/ ~ExpectsFailure(tasks, tasks[t].name)]
<1>1. b.stage = "turn" /\ st \in Terminal
  BY DEF CheckEnds, InTurn, At, Terminal
<1>2. \/ Settles(b, PausedAtBudget(c), ts, HeldAtBudget(c, run))
      \/ GoesOn(b, "close", c, ts, run)
      \/ MayRetry(tasks, t) /\ Settles(b, c, again, run)
      \/ Settles(b, failed, ts, run)
  BY DEF CheckEnds
<1>3. t \in DOMAIN tasks /\ tasks \in Seq(TaskRows) /\ run \in RunRows
  BY BodyIs
<1>4. Ended(b, done)
  BY <1>1, FinishEnds
<1>5. work # 0 => work \in DOMAIN tasks
  BY <1>3, CheckedTaskIs
<1> HIDE DEF done, work
<1>6. Ended(b, own)
  BY <1>3, <1>4, JudgedEnds, SMTT(30) DEF Ended
<1> HIDE DEF own
<1>7. Ended(b, ts)
  <2>1. work # 0 => work \in DOMAIN own
    BY <1>5, <1>6 DEF Ended
  <2> QED BY <1>4, <1>6, <2>1, JudgedEnds
<1> HIDE DEF ts
<1>8. c \in Contexts(DOMAIN tasks)
  BY <1>3, BodyIs, Noted
<1> HIDE DEF c
<1>9. /\ PausedAtBudget(c) \in Contexts(DOMAIN tasks) /\ HeldAtBudget(c, run) \in RunRows
      /\ failed \in Contexts(DOMAIN tasks)
  <2>1. ExpectsFailure(tasks, tasks[t].name) \in BOOLEAN
    BY DEF ExpectsFailure
  <2>2. (c.failure \/ ~ExpectsFailure(tasks, tasks[t].name)) \in BOOLEAN
    BY <2>1
  <2> QED BY <1>3, <1>8, AtBudgetIs, ContextIs
<1> HIDE DEF failed
<1>10. MayRetry(tasks, t) => Ended(b, again)
  <2> SUFFICES ASSUME MayRetry(tasks, t) PROVE Ended(b, again)
    OBVIOUS
  <2> DEFINE pair == RetryPair(tasks, work, t)
  <2>1. work \in DOMAIN tasks /\ tasks[t].retries > 0
    BY <1>5 DEF MayRetry, work
  <2>2. pair \in Seq(TaskRows) /\ Len(pair) = 2 /\ (\A i \in 1 .. 2 : pair[i].status = "queued")
    BY <1>3, <2>1, RetryPairIs
  <2>3. again = ts \o pair
    OBVIOUS
  <2> HIDE DEF pair, again
  <2> QED BY <1>7, <2>2, <2>3, AddedEnds
<1> HIDE DEF again
<1> QED BY <1>2, <1>3, <1>7, <1>8, <1>9, <1>10, SettlesKeeps, GoesOnKeeps DEF Stages

LEMMA ChecksKeep ==
    ASSUME IInv, NEW b \in bodies, Check(b)
    PROVE  IInv' /\ Kept
<1>1. \E ok \in BOOLEAN, v \in VerdictValues : CheckEnds(b, ok, v)
  BY DEF Check, VerdictValues
<1> QED BY <1>1, CheckKeeps

LEMMA GoOnKeeps ==
    ASSUME IInv, NEW b \in bodies, GoOn(b)
    PROVE  IInv' /\ Kept
<1> DEFINE c == drivers[b.drv]
<1>1. /\ c \in Contexts(DOMAIN tasks) /\ run \in RunRows /\ b.task \in DOMAIN tasks
      /\ PausedAtBudget(c) \in Contexts(DOMAIN tasks) /\ HeldAtBudget(c, run) \in RunRows
  BY BodyIs, AtBudgetIs
<1>2. b.stage # "turn" /\ Ended(b, tasks)
  BY StaysEnded DEF GoOn, Judge, Note, Close, CloseCut, At
<1>3. "note" \in Stages \ {"turn"} /\ "close" \in Stages \ {"turn"}
  BY DEF Stages
<1>4. CASE Judge(b)
  <2>1. PICK v \in {"unverified", "needs-user", "failed"} :
           LET ts == Judged(tasks, b.task, v, "rule")
           IN \/ Settles(b, c, ts, run)
              \/ Settles(b, PausedAtBudget(c), ts, HeldAtBudget(c, run))
              \/ GoesOn(b, "note", c, ts, run)
    BY <1>4 DEF Judge
  <2>2. Ended(b, Judged(tasks, b.task, v, "rule"))
    BY <1>1, <1>2, JudgedEnds DEF VerdictValues
  <2> HIDE DEF c
  <2> QED BY <1>1, <1>3, <2>1, <2>2, SettlesKeeps, GoesOnKeeps
<1>5. CASE Note(b)
  <2>1. GoesOn(b, "close", [c EXCEPT !.notes = @ \cup {b.task}], tasks, run)
    BY <1>5 DEF Note
  <2>2. [c EXCEPT !.notes = @ \cup {b.task}] \in Contexts(DOMAIN tasks)
    BY <1>1, Noted
  <2> HIDE DEF c
  <2> QED BY <1>1, <1>2, <1>3, <2>1, <2>2, GoesOnKeeps
<1>6. CASE Close(b)
  <2>1. \/ Settles(b, c, tasks, run)
        \/ Settles(b, [c EXCEPT !.pause = "gate"], tasks, Paused(run, "gate", FALSE))
    BY <1>6 DEF Close
  <2>2. "gate" \in Pauses \ {"request"}
    BY DEF Pauses
  <2>3. [c EXCEPT !.pause = "gate"] \in Contexts(DOMAIN tasks) /\ Paused(run, "gate", FALSE) \in RunRows
    BY <1>1, <2>2, ContextIs, RunRowIs
  <2> HIDE DEF c
  <2> QED BY <1>1, <1>2, <2>1, <2>3, SettlesKeeps
<1>7. CASE CloseCut(b)
  <2>1. Settles(b, PausedAtBudget(c), tasks, HeldAtBudget(c, run))
    BY <1>7 DEF CloseCut
  <2> HIDE DEF c
  <2> QED BY <1>1, <1>2, <2>1, SettlesKeeps
<1> QED BY <1>4, <1>5, <1>6, <1>7 DEF GoOn

\* Whatever a body does, rows and bodies still match.
LEMMA BodyKeeps ==
    ASSUME IInv, NEW b \in bodies, Body(b)
    PROVE  IInv' /\ Kept
BY AsksKeep, TurnFailsKeeps, TurnStopsKeeps, TurnCutKeeps, TurnSucceedsKeeps, TurnBreaksKeeps,
   ChecksKeep, GoOnKeeps DEF Body, TurnEnds

------------------------------------------------------------------------------
(* What the scheduler is asked.                                            *)

\* Some of a run's positions are finitely many.
LEMMA FinitelyMany ==
    ASSUME NEW n \in Nat, NEW S \in SUBSET (1 .. n)
    PROVE  IsFiniteSet(S) /\ Cardinality(S) \in Nat
<1>1. IsFiniteSet(1 .. n)
  BY FS_Interval
<1>2. IsFiniteSet(S)
  BY <1>1, FS_Subset
<1> QED BY <1>2, FS_CardinalityType

\* Every member of a set of positions has its place in their order.
LEMMA KthIs ==
    ASSUME NEW n \in Nat, NEW S \in SUBSET (1 .. n), NEW k \in 1 .. Cardinality(S)
    PROVE  KthOf(S, k) \in S
<1> DEFINE below(t) == {u \in S : u < t}
           rank(t) == Cardinality(below(t))
           T == {t \in S : rank(t) >= k - 1}
<1>1. IsFiniteSet(S) /\ Cardinality(S) \in Nat /\ \A t \in S : t \in Nat
  <2>1. \A t \in S : t \in Nat
    OBVIOUS
  <2> QED BY <2>1, FinitelyMany
<1>2. \A t \in S : below(t) \in SUBSET (1 .. n) /\ IsFiniteSet(below(t)) /\ rank(t) \in Nat
  BY FinitelyMany
<1>3. S # {}
  BY FS_EmptySet
<1>4. T # {}
  <2> DEFINE last == Newest(S)
  <2>1. last \in S /\ \A u \in S : u <= last
    BY <1>3, NewestIs
  <2> HIDE DEF last
  <2>2. \A u \in S : u < last <=> u # last
    BY <1>1, <2>1
  <2>3. below(last) = S \ {last}
    BY <2>1, <2>2
  <2>4. rank(last) = Cardinality(S) - 1
    BY <1>1, <2>1, <2>3, FS_RemoveElement
  <2> QED BY <1>1, <2>1, <2>4
<1>5. PICK t \in T : \A u \in T : t <= u
  <2>1. T \in SUBSET Nat
    BY <1>1
  <2> HIDE DEF T
  <2> QED BY <1>4, <2>1, LeastNumber
<1>6. rank(t) = k - 1
  <2> SUFFICES ASSUME rank(t) > k - 1 PROVE FALSE
    BY <1>2, <1>5
  <2> DEFINE p == Newest(below(t))
  <2>1. below(t) # {}
    BY FS_EmptySet
  <2>2. p \in below(t) /\ \A u \in below(t) : u <= p
    BY <1>2, <1>5, <2>1, NewestIs
  <2> HIDE DEF p
  <2>3. p \in S /\ p < t /\ t \in S /\ t \in Nat /\ p \in Nat
    BY <1>1, <1>5, <2>2
  <2>4. \A u \in S : u < p <=> (u < t /\ u # p)
    BY <1>1, <2>2, <2>3
  <2>5. below(p) = below(t) \ {p}
    BY <2>3, <2>4
  <2>6. Cardinality(below(t) \ {p}) = Cardinality(below(t)) - 1
    <3>1. IsFiniteSet(below(t))
      BY <1>2, <2>3
    <3> HIDE DEF below
    <3> QED BY <2>2, <3>1, FS_RemoveElement
  <2>7. rank(p) >= k - 1
    <3>1. rank(p) = rank(t) - 1
      BY <2>5, <2>6
    <3>2. rank(t) \in Nat /\ k \in Nat
      BY <1>2, <2>3
    <3> HIDE DEF rank
    <3> QED BY <3>1, <3>2
  <2>8. p \in T
    BY <2>3, <2>7
  <2> QED BY <1>5, <2>3, <2>8
<1> QED BY <1>5, <1>6 DEF KthOf

\* The new attempts of some of the run's tasks are queued rows.
LEMMA AgainsAre ==
    ASSUME TypeOK, NEW S \in SUBSET DOMAIN tasks
    PROVE  LET more == [k \in 1 .. Cardinality(S) |-> AgainOf(tasks, KthOf(S, k))]
           IN more \in Seq(TaskRows) /\ \A i \in 1 .. Len(more) : more[i].status = "queued"
<1>1. tasks \in Seq(TaskRows) /\ Len(tasks) \in Nat /\ S \in SUBSET (1 .. Len(tasks))
  BY DEF TypeOK
<1>2. Cardinality(S) \in Nat
  BY <1>1, FinitelyMany
<1>3. \A k \in 1 .. Cardinality(S) : KthOf(S, k) \in DOMAIN tasks
  BY <1>1, KthIs
<1> DEFINE e(k) == AgainOf(tasks, KthOf(S, k))
<1>4. \A k \in 1 .. Cardinality(S) : e(k) \in TaskRows /\ e(k).status = "queued"
  BY <1>1, <1>3, AgainOfIs
<1> HIDE DEF e
<1>5. LET more == [k \in 1 .. Cardinality(S) |-> e(k)]
      IN more \in Seq(TaskRows) /\ \A i \in 1 .. Len(more) : more[i].status = "queued"
  BY <1>2, <1>4
<1> QED BY <1>5 DEF e

\* A driver that starts has a context of the rows it reads.
LEMMA DriveIs ==
    ASSUME TypeOK, NEW r \in RunRows, NEW ts, Aside(ts), Drive(r, ts)
    PROVE  drivers' \in [Drivers -> Contexts(DOMAIN ts)]
<1>1. ts \in Seq(TaskRows) /\ DOMAIN tasks \subseteq DOMAIN ts
  BY DEF Aside
<1>2. Entered(r, ts) \in Contexts(DOMAIN ts)
  BY <1>1, EnteredIs
<1>3. \A d \in Drivers : drivers[d] \in Contexts(DOMAIN ts)
  BY <1>1, ContextGrows DEF TypeOK
<1>4. PICK d \in Free : drivers' = [drivers EXCEPT ![d] = Entered(r, ts)]
  BY DEF Drive
<1> QED BY <1>2, <1>3, <1>4 DEF TypeOK

\* A step that leaves the bodies alone keeps everything, as long as it moves
\* rows only aside from them.
LEMMA AsideStep ==
    ASSUME IInv, Aside(tasks'), bodies' = bodies, run' \in RunRows,
           drivers' \in [Drivers -> Contexts(DOMAIN tasks')],
           opening' \in BOOLEAN, stopping' \in BOOLEAN, crossed' \in BOOLEAN,
           spend' \in {"low", "near", "over"}, resumes' \in [Callers -> ResumeRows(DOMAIN tasks')],
           passed' \subseteq DOMAIN tasks', crashes' = crashes
    PROVE  IInv' /\ Kept
<1>1. tasks' \in Seq(TaskRows) /\ bodies \subseteq BodyRows(DOMAIN tasks')
  BY Grows DEF Aside, IInv
<1>2. TypeOK'
  BY <1>1 DEF IInv, TypeOK
<1>3. Worked' /\ Manned' /\ Kept
  BY AsideKeeps
<1> QED BY <1>2, <1>3 DEF IInv

LEMMA StayAside == IInv => Aside(tasks)
BY DEF Aside, IInv, TypeOK

LEMMA GatedAre == Gated(tasks) \subseteq DOMAIN tasks
BY DEF Gated, With

LEMMA OpenThreadKeeps ==
    ASSUME IInv, OpenThread
    PROVE  IInv' /\ Kept
<1>1. /\ tasks' = tasks /\ bodies' = bodies /\ run' = run /\ opening' = FALSE /\ Drive(run, tasks)
      /\ UNCHANGED <<stopping, crossed, spend, resumes, passed, crashes>>
  BY DEF OpenThread, rows
<1>2. run \in RunRows /\ Aside(tasks) /\ TypeOK
  BY StayAside DEF IInv, TypeOK
<1>3. drivers' \in [Drivers -> Contexts(DOMAIN tasks)]
  BY <1>1, <1>2, DriveIs
<1> QED BY <1>1, <1>2, <1>3, AsideStep DEF TypeOK

LEMMA ApproveKeeps ==
    ASSUME IInv, Approve
    PROVE  IInv' /\ Kept
<1> DEFINE over == run.paused = "budget"
           cut == {t \in With(tasks, "failed") : tasks[t].cut /\ run.overBudget}
           more == [k \in 1 .. Cardinality(cut) |-> AgainOf(tasks, KthOf(cut, k))]
           ts == IF over THEN tasks \o more ELSE tasks
           r == [IF over THEN [Paused(run, "none", FALSE) EXCEPT !.approved = TRUE] ELSE run
                    EXCEPT !.status = "running"]
<1>1. /\ run' = r /\ tasks' = ts /\ Drive(r, ts) /\ crossed' = (crossed /\ ~over)
      /\ passed' = (IF run.paused \in {"gate", "none"} THEN passed \cup Gated(tasks) ELSE passed)
      /\ UNCHANGED <<bodies, opening, stopping, spend, resumes, crashes>>
  BY DEF Approve
<1>2. TypeOK /\ Aside(tasks) /\ tasks \in Seq(TaskRows) /\ run \in RunRows
  BY StayAside DEF IInv, TypeOK
<1>3. cut \in SUBSET DOMAIN tasks
  BY DEF With
<1> HIDE DEF cut
<1>4. more \in Seq(TaskRows) /\ \A i \in 1 .. Len(more) : more[i].status = "queued"
  BY <1>2, <1>3, AgainsAre
<1> HIDE DEF more
<1>5. Aside(ts)
  BY <1>2, <1>4, AddedAside
<1>6. r \in RunRows
  <2>1. Paused(run, "none", FALSE) \in RunRows
    BY <1>2, RunRowIs DEF Pauses
  <2>2. [Paused(run, "none", FALSE) EXCEPT !.approved = TRUE] \in RunRows
    BY <2>1, RunRowIs
  <2> QED BY <1>2, <2>2, RunRowIs
<1> HIDE DEF r, ts, over
<1>7. drivers' \in [Drivers -> Contexts(DOMAIN tasks')]
  BY <1>1, <1>2, <1>5, <1>6, DriveIs
<1>8. DOMAIN tasks \subseteq DOMAIN tasks'
  BY <1>1, <1>5 DEF Aside
<1>9. passed' \subseteq DOMAIN tasks' /\ resumes' \in [Callers -> ResumeRows(DOMAIN tasks')]
  BY <1>1, <1>2, <1>8, Grows, GatedAre
<1>10. /\ opening' \in BOOLEAN /\ stopping' \in BOOLEAN /\ crossed' \in BOOLEAN
       /\ spend' \in {"low", "near", "over"}
  BY <1>1, <1>2 DEF TypeOK
<1> QED BY <1>1, <1>5, <1>6, <1>7, <1>9, <1>10, AsideStep

LEMMA StopKeeps ==
    ASSUME IInv, Stop
    PROVE  IInv' /\ Kept
<1>1. /\ UNCHANGED <<tasks, drivers, bodies, opening, spend, resumes, passed, crashes>>
      /\ run' = run \/ run' = [run EXCEPT !.status = "stopped"]
      /\ stopping' \in BOOLEAN /\ crossed' \in BOOLEAN
  BY DEF Stop, IInv, TypeOK
<1>2. TypeOK /\ Aside(tasks) /\ run' \in RunRows
  BY <1>1, StayAside, RunRowIs DEF IInv, TypeOK
<1> QED BY <1>1, <1>2, AsideStep DEF TypeOK

LEMMA RetryKeeps ==
    ASSUME IInv, NEW t \in DOMAIN tasks, Retry(t)
    PROVE  IInv' /\ Kept
<1> DEFINE more == <<RetryOf(tasks, t)>>
           ts == Append(tasks, RetryOf(tasks, t))
           r == Reopened(run)
<1>1. /\ run' = r /\ tasks' = ts
      /\ \/ UNCHANGED <<drivers, passed>>
         \/ Drive(r, ts) /\ passed' = passed \cup Gated(tasks)
      /\ UNCHANGED <<bodies, opening, stopping, crossed, spend, resumes, crashes>>
  BY DEF Retry
<1>2. TypeOK /\ Aside(tasks) /\ tasks \in Seq(TaskRows) /\ run \in RunRows
  BY StayAside DEF IInv, TypeOK
<1>3. more \in Seq(TaskRows) /\ (\A i \in 1 .. Len(more) : more[i].status = "queued")
  BY <1>2, RetryOfIs
<1>4. ts = tasks \o more
  <2>1. RetryOf(tasks, t) \in TaskRows
    BY <1>2, RetryOfIs
  <2> QED BY <1>2, <2>1
<1>5. Aside(ts)
  <2> HIDE DEF ts, more
  <2> QED BY <1>2, <1>3, <1>4, AddedAside
<1>6. r \in RunRows
  BY <1>2, RunRowIs
<1> HIDE DEF r, ts
<1>7. DOMAIN tasks \subseteq DOMAIN tasks'
  BY <1>1, <1>5 DEF Aside
<1>8. /\ drivers' \in [Drivers -> Contexts(DOMAIN tasks')]
      /\ passed' \subseteq DOMAIN tasks' /\ resumes' \in [Callers -> ResumeRows(DOMAIN tasks')]
  BY <1>1, <1>2, <1>5, <1>6, <1>7, DriveIs, Grows, GatedAre
<1>9. /\ opening' \in BOOLEAN /\ stopping' \in BOOLEAN /\ crossed' \in BOOLEAN
      /\ spend' \in {"low", "near", "over"}
  BY <1>1, <1>2 DEF TypeOK
<1> QED BY <1>1, <1>5, <1>6, <1>8, <1>9, AsideStep

LEMMA CancelKeeps ==
    ASSUME IInv, NEW t \in DOMAIN tasks, Cancel(t)
    PROVE  IInv' /\ Kept
<1>1. /\ tasks[t].status = "queued" /\ tasks' = Finish(tasks, {t}, "stopped")
      /\ UNCHANGED <<run, drivers, bodies, opening, stopping, crossed, resumes, spend, passed, crashes>>
  BY DEF Cancel, memory
<1>2. TypeOK /\ tasks \in Seq(TaskRows) /\ "stopped" \in Statuses
  BY DEF IInv, TypeOK, Statuses
<1>3. Aside(tasks') /\ DOMAIN tasks' = DOMAIN tasks
  BY <1>1, <1>2, FinishIs DEF Aside
<1> QED BY <1>1, <1>2, <1>3, AsideStep DEF TypeOK

\* Rows that never ran are put back as themselves and the others as new
\* attempts: a resume rewrites nothing that ran.
LEMMA PutBackKeeps ==
    ASSUME IInv, NEW plan \in ResumeRows(DOMAIN tasks), PutBack(plan),
           resumes' \in [Callers -> ResumeRows(DOMAIN tasks)]
    PROVE  IInv' /\ Kept
<1> DEFINE back == {t \in plan.fresh : ~tasks[t].started /\ tasks[t].status \in {"failed", "stopped", "skipped"}}
           e(t) == IF t \in back
                   THEN [tasks[t] EXCEPT !.status = "queued", !.verdict = "none", !.by = "none", !.cut = FALSE]
                   ELSE tasks[t]
           put == [t \in DOMAIN tasks |-> e(t)]
           more == [k \in 1 .. Cardinality(plan.anew) |-> AgainOf(tasks, KthOf(plan.anew, k))]
           ts == put \o more
           r == Reopened(run)
<1>1. /\ tasks' = ts /\ run' = r /\ Drive(r, ts) /\ passed' = passed \cup Gated(tasks)
      /\ UNCHANGED <<bodies, opening, stopping, crossed, spend, crashes>>
  BY DEF PutBack
<1>2. TypeOK /\ tasks \in Seq(TaskRows) /\ run \in RunRows
  BY DEF IInv, TypeOK
<1>3. plan.anew \in SUBSET DOMAIN tasks
  BY DEF ResumeRows
<1>4. more \in Seq(TaskRows) /\ \A i \in 1 .. Len(more) : more[i].status = "queued"
  BY <1>2, <1>3, AgainsAre
<1> HIDE DEF more
<1>5. Aside(put)
  <2>1. \A row \in TaskRows :
           LET new == [row EXCEPT !.status = "queued", !.verdict = "none", !.by = "none", !.cut = FALSE]
           IN new \in TaskRows /\ new.status = "queued" /\ new.started = row.started
    <3>1. "queued" \in Statuses
      BY DEF Statuses
    <3> QED BY <3>1 DEF TaskRows
  <2>2. \A t \in DOMAIN tasks : tasks[t] \in TaskRows
    BY <1>2
  <2>3. \A t \in DOMAIN tasks :
           /\ e(t) \in TaskRows /\ e(t).started = tasks[t].started
           /\ t \in back => e(t).status = "queued"
           /\ t \notin back => e(t).status = tasks[t].status
    BY <2>1, <2>2
  <2>4. \A t \in back : ~tasks[t].started /\ tasks[t].status \in Terminal
    BY DEF Terminal
  <2>5. Len(tasks) \in Nat /\ DOMAIN tasks = 1 .. Len(tasks)
    BY <1>2
  <2> HIDE DEF e, back
  <2>6. /\ put \in Seq(TaskRows) /\ DOMAIN put = DOMAIN tasks
        /\ \A t \in DOMAIN tasks : put[t] = e(t)
    BY <2>3, <2>5
  <2> HIDE DEF put
  <2> QED BY <2>3, <2>4, <2>6 DEF Aside
<1> HIDE DEF put
<1>6. Aside(ts)
  BY <1>2, <1>4, <1>5, AddedAside
<1>7. r \in RunRows
  BY <1>2, RunRowIs
<1> HIDE DEF r, ts
<1>8. DOMAIN tasks \subseteq DOMAIN tasks'
  BY <1>1, <1>6 DEF Aside
<1>9. resumes' \in [Callers -> ResumeRows(DOMAIN tasks')]
  <2>1. \A p \in Callers : resumes'[p] \in ResumeRows(DOMAIN tasks')
    BY <1>8 DEF ResumeRows
  <2> QED BY <2>1
<1>10. drivers' \in [Drivers -> Contexts(DOMAIN tasks')] /\ passed' \subseteq DOMAIN tasks'
  BY <1>1, <1>2, <1>6, <1>7, <1>8, DriveIs, Grows, GatedAre
<1>11. /\ opening' \in BOOLEAN /\ stopping' \in BOOLEAN /\ crossed' \in BOOLEAN
       /\ spend' \in {"low", "near", "over"}
  BY <1>1, <1>2 DEF TypeOK
<1> QED BY <1>1, <1>6, <1>7, <1>9, <1>10, <1>11, AsideStep

LEMMA ResumesKeep ==
    ASSUME IInv, Resuming
    PROVE  IInv' /\ Kept
<1>1. TypeOK /\ Aside(tasks)
  BY StayAside DEF IInv
<1>2. PICK p \in Callers : Restored(p) \/ RestoreFails(p) \/ \E from \in 0 .. Len(tasks) : Resume(p, from)
  BY DEF Resuming
<1>3. NoResume \in ResumeRows(DOMAIN tasks)
  BY DEF NoResume, ResumeRows
<1>4. CASE Restored(p)
  <2>1. resumes' \in [Callers -> ResumeRows(DOMAIN tasks)]
    BY <1>1, <1>3, <1>4 DEF Restored, TypeOK
  <2>2. resumes[p] \in ResumeRows(DOMAIN tasks) /\ PutBack(resumes[p])
    BY <1>1, <1>4 DEF Restored, TypeOK
  <2> QED BY <2>1, <2>2, PutBackKeeps
<1>5. CASE RestoreFails(p)
  <2>1. /\ resumes' \in [Callers -> ResumeRows(DOMAIN tasks)]
        /\ UNCHANGED <<run, tasks, drivers, bodies, opening, stopping, crossed, spend, passed, crashes>>
    BY <1>1, <1>3, <1>5 DEF RestoreFails, TypeOK, rows
  <2> QED BY <1>1, <2>1, AsideStep DEF TypeOK
<1>6. ASSUME NEW from \in 0 .. Len(tasks), Resume(p, from) PROVE IInv' /\ Kept
  <2>1. Plan(from) \in ResumeRows(DOMAIN tasks)
    BY DEF Plan, ResumeRows, Again, Behind
  <2>2. CASE RestoresFolder(tasks, from)
    <3>1. /\ resumes' \in [Callers -> ResumeRows(DOMAIN tasks)]
          /\ UNCHANGED <<run, tasks, drivers, bodies, opening, stopping, crossed, spend, passed, crashes>>
      BY <1>1, <1>6, <2>1, <2>2 DEF Resume, TypeOK, rows
    <3> QED BY <1>1, <3>1, AsideStep DEF TypeOK
  <2>3. CASE ~RestoresFolder(tasks, from)
    <3>1. PutBack(Plan(from)) /\ resumes' = resumes
      BY <1>6, <2>3 DEF Resume
    <3> QED BY <1>1, <2>1, <3>1, PutBackKeeps DEF TypeOK
  <2> QED BY <2>2, <2>3
<1> QED BY <1>2, <1>4, <1>5, <1>6

\* A restart forgets the bodies, and no row says "running" without one.
LEMMA CrashKeeps ==
    ASSUME IInv, Crash
    PROVE  IInv' /\ Kept
<1>1. /\ tasks' = Finish(tasks, With(tasks, "running"), "queued") /\ bodies' = {}
      /\ run' = (IF Active THEN [run EXCEPT !.status = "failed"] ELSE run)
      /\ drivers' = [d \in Drivers |-> Off] /\ resumes' = [p \in Callers |-> NoResume]
      /\ opening' = FALSE /\ stopping' = FALSE /\ crossed' = FALSE
      /\ crashes' = crashes + 1 /\ UNCHANGED <<spend, passed>>
  BY DEF Crash
<1>2. TypeOK /\ tasks \in Seq(TaskRows) /\ run \in RunRows /\ "queued" \in Statuses
  BY DEF IInv, TypeOK, Statuses
<1>3. /\ tasks' \in Seq(TaskRows) /\ DOMAIN tasks' = DOMAIN tasks
      /\ \A t \in DOMAIN tasks :
            tasks'[t].status = IF t \in With(tasks, "running") THEN "queued" ELSE tasks[t].status
  BY <1>1, <1>2, FinishIs
<1>4. \A t \in DOMAIN tasks : /\ tasks'[t].status # "running"
                              /\ tasks[t].status \in Terminal => tasks'[t].status = tasks[t].status
  BY <1>3 DEF With, Terminal
<1>5. run' \in RunRows
  BY <1>1, <1>2, RunRowIs
<1>6. NoResume \in ResumeRows(DOMAIN tasks') /\ Off \in Contexts(DOMAIN tasks')
  BY OffIs DEF NoResume, ResumeRows
<1>7. TypeOK'
  <2>1. /\ drivers' \in [Drivers -> Contexts(DOMAIN tasks')]
        /\ resumes' \in [Callers -> ResumeRows(DOMAIN tasks')]
    BY <1>1, <1>6
  <2>2. bodies' \subseteq BodyRows(DOMAIN tasks')
    BY <1>1
  <2>3. spend' \in {"low", "near", "over"} /\ crashes' \in Nat /\ passed' \subseteq DOMAIN tasks'
    BY <1>1, <1>2, <1>3 DEF TypeOK
  <2>4. opening' \in BOOLEAN /\ stopping' \in BOOLEAN /\ crossed' \in BOOLEAN
    BY <1>1
  <2> QED BY <1>3, <1>5, <2>1, <2>2, <2>3, <2>4 DEF TypeOK
<1>8. Worked' /\ Manned' /\ Kept
  BY <1>1, <1>3, <1>4 DEF Worked, Manned, Kept, Starts
<1> QED BY <1>7, <1>8 DEF IInv

LEMMA SpendKeeps ==
    ASSUME IInv, NEW level \in {"near", "over"}, Spend(level)
    PROVE  IInv' /\ Kept
<1>1. /\ UNCHANGED <<tasks, drivers, bodies, opening, stopping, resumes, passed, crashes>>
      /\ run' = run \/ run' = Paused(run, "budget", TRUE)
      /\ crossed' \in BOOLEAN /\ spend' \in {"low", "near", "over"}
  BY DEF Spend, IInv, TypeOK
<1>2. TypeOK /\ Aside(tasks) /\ run' \in RunRows
  BY <1>1, StayAside, RunRowIs DEF IInv, TypeOK, Pauses
<1> QED BY <1>1, <1>2, AsideStep DEF TypeOK

------------------------------------------------------------------------------
(* A driver's loop.                                                        *)

LEMMA CallOffAside ==
    ASSUME TypeOK, NEW ts, Aside(ts)
    PROVE  Aside(CallOff(ts))
<1>1. ts \in Seq(TaskRows) /\ "stopped" \in Statuses
  BY DEF Aside, Statuses
<1> DEFINE us == CallOff(ts)
<1>2. /\ us \in Seq(TaskRows) /\ DOMAIN us = DOMAIN ts
      /\ \A t \in DOMAIN ts :
            /\ us[t].status = IF t \in With(ts, "queued") THEN "stopped" ELSE ts[t].status
            /\ us[t].started = ts[t].started
  BY <1>1, FinishIs DEF CallOff
<1> HIDE DEF us
<1>3. Aside(us)
  BY <1>2 DEF Aside, With
<1> QED BY <1>3 DEF us

\* A loop that waits or leaves, and starts nothing.
LEMMA RestsKeeps ==
    ASSUME IInv, NEW d \in Drivers, NEW c \in Contexts(DOMAIN tasks), NEW r \in RunRows,
           NEW ts, Aside(ts), Leave(d, c, ts, r) \/ Wait(d, c, ts, r),
           bodies' = bodies, UNCHANGED <<opening, spend, resumes, passed, crashes>>
    PROVE  IInv' /\ Kept
<1>1. TypeOK
  BY DEF IInv
<1>2. Aside(tasks')
  BY <1>1, CallOffAside DEF Leave, Wait
<1>3. DOMAIN tasks \subseteq DOMAIN tasks'
  BY <1>2 DEF Aside
<1>4. run' \in RunRows
  BY RunRowIs DEF Leave, Wait
<1>5. stopping' \in BOOLEAN /\ crossed' \in BOOLEAN
  BY <1>1 DEF Leave, Wait, TypeOK
<1>6. drivers' \in [Drivers -> Contexts(DOMAIN tasks')]
  <2>1. c \in Contexts(DOMAIN tasks')
    BY <1>3, ContextGrows
  <2>2. [c EXCEPT !.pc = "wait"] \in Contexts(DOMAIN tasks') /\ Off \in Contexts(DOMAIN tasks')
    BY <2>1, ContextIs, OffIs
  <2>3. drivers' = [drivers EXCEPT ![d] = Off] \/ drivers' = [drivers EXCEPT ![d] = [c EXCEPT !.pc = "wait"]]
    BY DEF Leave, Wait
  <2> QED BY <1>1, <1>3, <2>2, <2>3, Grows
<1>7. /\ opening' \in BOOLEAN /\ spend' \in {"low", "near", "over"} /\ passed' \subseteq DOMAIN tasks'
      /\ resumes' \in [Callers -> ResumeRows(DOMAIN tasks')]
  BY <1>1, <1>3, Grows DEF TypeOK
<1> QED BY <1>2, <1>4, <1>5, <1>6, <1>7, AsideStep

LEMMA LoopEndsKeep ==
    ASSUME IInv, NEW d \in Drivers, LoopStopped(d) \/ LoopDrained(d)
    PROVE  IInv' /\ Kept
<1>1. TypeOK /\ drivers[d] \in Contexts(DOMAIN tasks) /\ run \in RunRows
  BY DEF IInv, TypeOK
<1>2. Aside(tasks) /\ Aside(CallOff(tasks))
  BY <1>1, StayAside, CallOffAside
<1>3. \/ Leave(d, drivers[d], CallOff(tasks), run) \/ Wait(d, drivers[d], CallOff(tasks), run)
      \/ Leave(d, drivers[d], tasks, run) \/ Wait(d, drivers[d], tasks, run)
  BY DEF LoopStopped, LoopDrained
<1>4. bodies' = bodies /\ UNCHANGED <<opening, spend, resumes, passed, crashes>>
  BY DEF LoopStopped, LoopDrained
<1> QED BY <1>1, <1>2, <1>3, <1>4, RestsKeeps

\* Positions are numbers.
LEMMA PositionsAre ==
    ASSUME NEW ts \in Seq(TaskRows), NEW S \in SUBSET DOMAIN ts
    PROVE  S \in SUBSET Nat
<1>1. DOMAIN ts = 1 .. Len(ts) /\ Len(ts) \in Nat
  OBVIOUS
<1> QED BY <1>1

\* The rows after a pass: what begins, the plans among it, and what is skipped.
Walk(start, plans, skip, more) ==
    Finish(Finish(Begin(tasks, start), plans, "success"), skip, "skipped") \o more

Walked(ts, start, plans, skip) ==
    /\ ts \in Seq(TaskRows) /\ DOMAIN tasks \subseteq DOMAIN ts
    /\ \A t \in DOMAIN tasks :
          /\ ts[t].started = (t \in start \/ tasks[t].started)
          /\ ts[t].status = IF t \in skip THEN "skipped" ELSE IF t \in plans THEN "success"
                            ELSE IF t \in start THEN "running" ELSE tasks[t].status
    /\ \A t \in DOMAIN ts \ DOMAIN tasks : ts[t].status = "queued"

TurnsOf(d, S) == {[drv |-> d, task |-> t, stage |-> "turn"] : t \in S}

LEMMA WalkedIs ==
    ASSUME IInv, NEW start \in SUBSET With(tasks, "queued"), NEW skip \in SUBSET With(tasks, "queued"),
           start \cap skip = {}, NEW plans \in SUBSET start, NEW more \in Seq(TaskRows),
           \A i \in 1 .. Len(more) : more[i].status = "queued"
    PROVE  Walked(Walk(start, plans, skip, more), start, plans, skip)
<1> DEFINE begun == Begin(tasks, start)
           planned == Finish(begun, plans, "success")
           walked == Finish(planned, skip, "skipped")
<1>1. tasks \in Seq(TaskRows) /\ "success" \in Statuses /\ "skipped" \in Statuses
  BY DEF IInv, TypeOK, Statuses
<1>2. /\ begun \in Seq(TaskRows) /\ DOMAIN begun = DOMAIN tasks
      /\ \A t \in DOMAIN tasks : /\ begun[t].status = IF t \in start THEN "running" ELSE tasks[t].status
                                 /\ begun[t].started = (t \in start \/ tasks[t].started)
  BY <1>1, BeginIs
<1> HIDE DEF begun
<1>3. /\ planned \in Seq(TaskRows) /\ DOMAIN planned = DOMAIN begun
      /\ \A t \in DOMAIN begun : /\ planned[t].status = IF t \in plans THEN "success" ELSE begun[t].status
                                 /\ planned[t].started = begun[t].started
  BY <1>1, <1>2, FinishIs
<1> HIDE DEF planned
<1>4. /\ walked \in Seq(TaskRows) /\ DOMAIN walked = DOMAIN planned
      /\ \A t \in DOMAIN planned : /\ walked[t].status = IF t \in skip THEN "skipped" ELSE planned[t].status
                                   /\ walked[t].started = planned[t].started
  BY <1>1, <1>3, FinishIs
<1> HIDE DEF walked
<1>5. /\ walked \o more \in Seq(TaskRows) /\ DOMAIN walked \subseteq DOMAIN (walked \o more)
      /\ \A t \in DOMAIN walked : (walked \o more)[t] = walked[t]
      /\ \A t \in DOMAIN (walked \o more) \ DOMAIN walked : (walked \o more)[t].status = "queued"
  BY <1>4, AddedIs
<1> DEFINE ts == walked \o more
<1>6. /\ ts \in Seq(TaskRows) /\ DOMAIN tasks \subseteq DOMAIN ts
      /\ \A t \in DOMAIN tasks :
            /\ ts[t].started = (t \in start \/ tasks[t].started)
            /\ ts[t].status = IF t \in skip THEN "skipped" ELSE IF t \in plans THEN "success"
                              ELSE IF t \in start THEN "running" ELSE tasks[t].status
      /\ \A t \in DOMAIN ts \ DOMAIN tasks : ts[t].status = "queued"
  <2> HIDE DEF ts
  <2>1. /\ ts \in Seq(TaskRows) /\ DOMAIN walked \subseteq DOMAIN ts
        /\ \A t \in DOMAIN walked : ts[t] = walked[t]
        /\ \A t \in DOMAIN ts \ DOMAIN walked : ts[t].status = "queued"
    BY <1>5 DEF ts
  <2> QED BY <1>2, <1>3, <1>4, <2>1
<1> QED BY <1>6 DEF begun, planned, walked, Walk, Walked

\* What has begun has a body, and the others keep theirs.
LEMMA BegunKeeps ==
    ASSUME IInv, NEW d \in Drivers,
           NEW start \in SUBSET With(tasks, "queued"), NEW skip \in SUBSET With(tasks, "queued"),
           start \cap skip = {}, NEW plans \in SUBSET start,
           Walked(tasks', start, plans, skip),
           bodies' = bodies \cup TurnsOf(d, start \ plans)
    PROVE  Worked' /\ Manned' /\ Kept /\ bodies' \subseteq BodyRows(DOMAIN tasks')
<1> DEFINE new == TurnsOf(d, start \ plans)
<1>1. \A t \in start \cup skip : t \in DOMAIN tasks /\ tasks[t].status = "queued"
  BY DEF With
<1>2. \A b \in bodies :
         /\ b.task \in DOMAIN tasks /\ b.task \notin start \cup skip
         /\ tasks'[b.task].status = tasks[b.task].status /\ tasks'[b.task].started
  <2>1. \A b \in bodies : b.task \in DOMAIN tasks /\ tasks[b.task].started /\ tasks[b.task].status # "queued"
    BY DEF IInv, TypeOK, BodyRows, Worked, Terminal
  <2> QED BY <1>1, <2>1 DEF Walked
<1>3. \A b \in new : /\ b.task \in start \ plans /\ b.stage = "turn" /\ b.drv = d
                     /\ b = [drv |-> d, task |-> b.task, stage |-> "turn"]
                     /\ tasks'[b.task].status = "running" /\ tasks'[b.task].started
  <2>1. \A b \in new : \E t \in start \ plans : b = [drv |-> d, task |-> t, stage |-> "turn"]
    BY DEF TurnsOf
  <2>2. \A t \in start \ plans : tasks'[t].status = "running" /\ tasks'[t].started
    BY <1>1 DEF Walked
  <2> HIDE DEF new
  <2> QED BY <2>1, <2>2
<1>4. bodies' = bodies \cup new
  OBVIOUS
<1>5. ASSUME NEW t \in start \ plans
      PROVE  \E b \in new : b.task = t
  <2>1. [drv |-> d, task |-> t, stage |-> "turn"] \in new
    BY DEF TurnsOf
  <2> HIDE DEF new
  <2> QED BY <2>1
<1> HIDE DEF new
<1>6. bodies' \subseteq BodyRows(DOMAIN tasks')
  <2>1. bodies \subseteq BodyRows(DOMAIN tasks')
    BY Grows DEF IInv, Walked
  <2>2. \A b \in new : b \in BodyRows(DOMAIN tasks')
    BY <1>1, <1>3 DEF BodyRows, Stages, Walked
  <2> QED BY <1>4, <2>1, <2>2
<1>7. \A b, e \in bodies' : b.task = e.task => b = e
  BY <1>2, <1>3, <1>4 DEF IInv, Worked
<1>8. Worked'
  BY <1>2, <1>3, <1>4, <1>7 DEF IInv, Worked
<1>9. Manned'
  <2> SUFFICES ASSUME ~MissingFolder, NEW t \in DOMAIN tasks', tasks'[t].status = "running"
               PROVE  \E b \in bodies' : b.task = t
    BY DEF Manned
  <2>1. t \in DOMAIN tasks /\ (t \in start \ plans \/ tasks[t].status = "running")
    BY DEF Walked
  <2> QED BY <1>4, <1>5, <2>1 DEF IInv, Manned
<1>10. Kept
  <2>1. ASSUME NEW t \in DOMAIN tasks, Starts(t)
        PROVE  \E b \in bodies' \ bodies : b.task = t /\ b.stage = "turn"
    <3>1. t \in start \ plans
      BY <2>1 DEF Starts, Walked
    <3>2. PICK b \in new : b.task = t
      BY <1>5, <3>1
    <3> QED BY <1>2, <1>3, <1>4, <3>1, <3>2
  <2>2. \A t \in DOMAIN tasks :
           /\ t \in DOMAIN tasks'
           /\ tasks[t].started /\ tasks[t].status \in Terminal => tasks'[t].status = tasks[t].status
    BY <1>1 DEF Terminal, Walked
  <2> QED BY <2>1, <2>2 DEF Kept
<1> QED BY <1>6, <1>8, <1>9, <1>10

LEMMA WalksKeep ==
    ASSUME IInv, NEW d \in Drivers,
           NEW start \in SUBSET With(tasks, "queued"), NEW skip \in SUBSET With(tasks, "queued"),
           start \cap skip = {}, NEW plans \in SUBSET start, NEW more \in Seq(TaskRows),
           \A i \in 1 .. Len(more) : more[i].status = "queued",
           NEW e \in Contexts(DOMAIN tasks), NEW r \in RunRows,
           drivers' = [drivers EXCEPT ![d] = e], run' = r,
           tasks' = Walk(start, plans, skip, more),
           bodies' = bodies \cup TurnsOf(d, start \ plans),
           UNCHANGED <<opening, stopping, crossed, spend, resumes, passed, crashes>>
    PROVE  IInv' /\ Kept
<1>1. Walked(tasks', start, plans, skip)
  BY WalkedIs
<1>2. Worked' /\ Manned' /\ Kept /\ bodies' \subseteq BodyRows(DOMAIN tasks')
  BY <1>1, BegunKeeps
<1>3. TypeOK
  BY DEF IInv
<1>4. e \in Contexts(DOMAIN tasks')
  BY <1>1, ContextGrows DEF Walked
<1>5. drivers' \in [Drivers -> Contexts(DOMAIN tasks')] /\ passed' \subseteq DOMAIN tasks'
      /\ resumes' \in [Callers -> ResumeRows(DOMAIN tasks')]
  BY <1>1, <1>3, <1>4, Grows DEF Walked
<1>6. /\ opening' \in BOOLEAN /\ stopping' \in BOOLEAN /\ crossed' \in BOOLEAN
      /\ spend' \in {"low", "near", "over"} /\ crashes' \in Nat
  BY <1>3 DEF TypeOK
<1>7. TypeOK'
  BY <1>1, <1>2, <1>5, <1>6 DEF TypeOK, Walked
<1> QED BY <1>2, <1>7 DEF IInv

\* A pass, by its parts: the context and the row it goes on with, what it may
\* still start, what it starts and skips, and the rows that leaves.
Nearing(d)     == ~AtBudget(drivers[d]) /\ Nears(drivers[d])
Gating(d)      == Nearing(d) /\ NearGate(tasks)
PassContext(d) == [PausedAtBudget(drivers[d]) EXCEPT !.near = @ \/ Nearing(d),
                                                     !.pause = IF Gating(d) THEN "threshold" ELSE @]
NearedRow(d)   == [HeldAtBudget(drivers[d], run) EXCEPT !.near = @ \/ Nearing(d)]
PassRow(d)     == IF Gating(d) THEN Paused(NearedRow(d), "threshold", FALSE) ELSE NearedRow(d)
PassRoom(d)    == IF PassContext(d).near /\ "serial" \in NearPolicy THEN 1 ELSE Concurrency
PassFree(d)    == IF PassContext(d).failure \/ PassContext(d).halted \/ PassContext(d).pause # "none"
                     \/ Cardinality(Mine(d)) >= PassRoom(d)
                  THEN 0 ELSE PassRoom(d) - Cardinality(Mine(d))
Decided(what)  == {t \in With(tasks, "queued") : Decide(tasks, t) = what}
Ready          == {t \in Decided("run") : \A s \in Decided("skip") : t < s}
PassSkip(d)    == IF Decided("skip") # {} /\ Cardinality(Ready) < PassFree(d)
                  THEN {Oldest(Decided("skip"))} ELSE {}
PassStart(d)   == FirstOf(Ready, PassFree(d))
PassPlans(d)   == {t \in PassStart(d) : tasks[t].foreach # ""}
PassSteps(d)   == 0 .. (IF PassPlans(d) = {} THEN 0 ELSE MaxSteps)
PassAdds(d, n) == [k \in 1 .. n |-> StepOf(tasks[Oldest(PassPlans(d))])]
PassRows(d, n) == Walk(PassStart(d), PassPlans(d), PassSkip(d), PassAdds(d, n))

LEMMA PassIs ==
    ASSUME NEW d \in Drivers, LoopPass(d)
    PROVE  /\ drivers[d].pc = "loop" /\ ~stopping /\ With(tasks, "queued") # {}
           /\ bodies' = bodies \cup TurnsOf(d, PassStart(d) \ PassPlans(d))
           /\ UNCHANGED <<opening, spend, resumes, passed, crashes>>
           /\ \E n \in PassSteps(d) :
                 \/ /\ PassPlans(d) \cup PassSkip(d) # {}
                    /\ drivers' = [drivers EXCEPT ![d] = PassContext(d)]
                    /\ tasks' = PassRows(d, n) /\ run' = PassRow(d) /\ UNCHANGED <<stopping, crossed>>
                 \/ /\ PassPlans(d) \cup PassSkip(d) = {} /\ Mine(d) = {} /\ PassStart(d) = {}
                    /\ Leave(d, PassContext(d), PassRows(d, n), PassRow(d))
                 \/ /\ PassPlans(d) \cup PassSkip(d) = {} /\ ~(Mine(d) = {} /\ PassStart(d) = {})
                    /\ Wait(d, PassContext(d), PassRows(d, n), PassRow(d))
<1>1. /\ drivers[d].pc = "loop" /\ ~stopping /\ With(tasks, "queued") # {}
      /\ UNCHANGED <<opening, spend, resumes, passed, crashes>>
  BY DEF LoopPass
<1>2. bodies' = bodies \cup TurnsOf(d, PassStart(d) \ PassPlans(d))
  BY DEF LoopPass, TurnsOf, PassPlans, PassStart, PassFree, PassRoom, PassContext, Gating, Nearing,
         Ready, Decided
<1>3. \E n \in PassSteps(d) :
         IF PassPlans(d) \cup PassSkip(d) # {}
         THEN /\ drivers' = [drivers EXCEPT ![d] = PassContext(d)]
              /\ tasks' = PassRows(d, n)
              /\ run' = PassRow(d)
              /\ UNCHANGED <<stopping, crossed>>
         ELSE IF Mine(d) = {} /\ PassStart(d) = {} THEN Leave(d, PassContext(d), PassRows(d, n), PassRow(d))
         ELSE Wait(d, PassContext(d), PassRows(d, n), PassRow(d))
  BY DEF LoopPass, PassSteps, PassRows, PassAdds, PassRow, NearedRow, PassSkip, PassPlans, PassStart,
         PassFree, PassRoom, PassContext, Gating, Nearing, Ready, Decided, Walk
<1> QED BY <1>1, <1>2, <1>3

LEMMA PassSets ==
    ASSUME IInv, NEW d \in Drivers
    PROVE  /\ PassStart(d) \subseteq Decided("run") /\ PassSkip(d) \subseteq Decided("skip")
           /\ PassStart(d) \subseteq With(tasks, "queued") /\ PassSkip(d) \subseteq With(tasks, "queued")
           /\ PassStart(d) \cap PassSkip(d) = {} /\ PassPlans(d) \subseteq PassStart(d)
           /\ With(tasks, "queued") \subseteq DOMAIN tasks
<1>1. PassStart(d) \subseteq Decided("run")
  BY DEF PassStart, FirstOf, Ready
<1>2. PassSkip(d) \subseteq Decided("skip")
  <2>1. Decided("skip") \in SUBSET Nat
    <3>1. Decided("skip") \in SUBSET DOMAIN tasks /\ tasks \in Seq(TaskRows)
      BY DEF Decided, With, IInv, TypeOK
    <3> QED BY <3>1, PositionsAre
  <2> QED BY <2>1, OldestIs DEF PassSkip
<1>3. With(tasks, "queued") \subseteq DOMAIN tasks
  BY DEF With
<1> QED BY <1>1, <1>2, <1>3 DEF Decided, PassPlans

LEMMA PassAddsAre ==
    ASSUME IInv, NEW d \in Drivers, NEW n \in PassSteps(d)
    PROVE  /\ PassAdds(d, n) \in Seq(TaskRows)
           /\ \A i \in 1 .. Len(PassAdds(d, n)) : PassAdds(d, n)[i].status = "queued"
<1>1. n \in Nat /\ (PassPlans(d) = {} => n = 0)
  <2>1. MaxSteps \in Nat
    BY EngineAssumption
  <2> QED BY <2>1 DEF PassSteps
<1>2. tasks \in Seq(TaskRows)
  BY DEF IInv, TypeOK
<1>3. PassPlans(d) # {} => Oldest(PassPlans(d)) \in DOMAIN tasks
  <2>1. PassPlans(d) \in SUBSET DOMAIN tasks
    BY PassSets
  <2> QED BY <1>2, <2>1, PositionsAre, OldestIs
<1>4. ASSUME NEW k \in 1 .. n
      PROVE  /\ StepOf(tasks[Oldest(PassPlans(d))]) \in TaskRows
             /\ StepOf(tasks[Oldest(PassPlans(d))]).status = "queued"
  BY <1>1, <1>2, <1>3, <1>4, StepOfIs
<1> QED BY <1>1, <1>4 DEF PassAdds

LEMMA PassContextIs ==
    ASSUME IInv, NEW d \in Drivers
    PROVE  /\ PassContext(d) \in Contexts(DOMAIN tasks) /\ Carries(PassContext(d), drivers[d])
           /\ PassContext(d).pause = "none" => ~AtBudget(drivers[d])
           /\ [PassContext(d) EXCEPT !.pc = "wait"] \in Contexts(DOMAIN tasks)
           /\ [PassContext(d) EXCEPT !.pc = "wait"].pc = "wait"
           /\ [PassContext(d) EXCEPT !.pc = "wait"].approved = drivers[d].approved
           /\ PassRow(d) \in RunRows /\ PassRow(d).approved = run.approved
<1> DEFINE c == PassContext(d)
<1>1. /\ run \in RunRows /\ drivers[d] \in Contexts(DOMAIN tasks)
      /\ Nearing(d) \in BOOLEAN /\ Gating(d) \in BOOLEAN
  BY DEF IInv, TypeOK, Nearing, Gating, Nears, NearGate, AtBudget
<1>2. /\ PausedAtBudget(drivers[d]) \in Contexts(DOMAIN tasks) /\ HeldAtBudget(drivers[d], run) \in RunRows
      /\ Carries(PausedAtBudget(drivers[d]), drivers[d])
      /\ HeldAtBudget(drivers[d], run).approved = run.approved
  BY <1>1, AtBudgetIs, CarriesIs, RowsCarry
<1>3. /\ c \in Contexts(DOMAIN tasks) /\ Carries(c, drivers[d])
      /\ c.pause = IF Gating(d) THEN "threshold" ELSE PausedAtBudget(drivers[d]).pause
  <2>1. c \in Contexts(DOMAIN tasks)
    BY <1>1, <1>2, NearedIs DEF PassContext
  <2>2. /\ c.pause = IF Gating(d) THEN "threshold" ELSE PausedAtBudget(drivers[d]).pause
        /\ Carries(c, PausedAtBudget(drivers[d]))
    BY <1>2 DEF PassContext, Contexts, Carries
  <2> HIDE DEF c
  <2> QED BY <1>2, <2>1, <2>2 DEF Carries
<1>4. AtBudget(drivers[d]) => c.pause = "budget"
  <2>1. AtBudget(drivers[d]) => PausedAtBudget(drivers[d]).pause = "budget"
    BY <1>1 DEF PausedAtBudget, Contexts
  <2>2. AtBudget(drivers[d]) => ~Gating(d)
    BY DEF Gating, Nearing
  <2> HIDE DEF c
  <2> QED BY <1>3, <2>1, <2>2
<1> HIDE DEF c
<1>5. /\ [c EXCEPT !.pc = "wait"] \in Contexts(DOMAIN tasks)
      /\ [c EXCEPT !.pc = "wait"].pc = "wait" /\ [c EXCEPT !.pc = "wait"].approved = drivers[d].approved
  BY <1>3 DEF Contexts, Carries
<1>6. PassRow(d) \in RunRows /\ PassRow(d).approved = run.approved
  <2>1. NearedRow(d) \in RunRows /\ NearedRow(d).approved = run.approved
    BY <1>1, <1>2 DEF NearedRow, RunRows
  <2>2. "threshold" \in Pauses
    BY DEF Pauses
  <2> QED BY <2>1, <2>2, RunRowIs, RowsCarry DEF PassRow
<1> QED BY <1>3, <1>4, <1>5, <1>6 DEF c

\* A pass starts something only for a driver that nothing holds.
LEMMA PassStarts ==
    ASSUME IInv, NEW d \in Drivers, PassStart(d) # {}
    PROVE  /\ PassContext(d).pause = "none" /\ ~PassContext(d).failure /\ ~PassContext(d).halted
           /\ ~(Cardinality(Mine(d)) >= PassRoom(d))
<1> SUFFICES ASSUME PassFree(d) = 0 PROVE FALSE
  BY DEF PassFree
<1>1. PICK t \in Ready : Cardinality({u \in Ready : u < t}) < 0
  BY DEF PassStart, FirstOf
<1>2. {u \in Ready : u < t} \in SUBSET (1 .. Len(tasks)) /\ Len(tasks) \in Nat
  <2>1. tasks \in Seq(TaskRows) /\ Ready \subseteq DOMAIN tasks
    BY DEF IInv, TypeOK, Ready, Decided, With
  <2> QED BY <2>1
<1>3. Cardinality({u \in Ready : u < t}) \in Nat
  BY <1>2, FinitelyMany
<1> QED BY <1>1, <1>3

\* A pass starts queued rows, each with a body of its own, and skips at most
\* one of the others.
LEMMA PassKeeps ==
    ASSUME IInv, NEW d \in Drivers, LoopPass(d)
    PROVE  IInv' /\ Kept
<1> DEFINE c == PassContext(d)
           start == PassStart(d)
           plans == PassPlans(d)
           skip == PassSkip(d)
<1>1. PICK n \in PassSteps(d) :
         \/ /\ drivers' = [drivers EXCEPT ![d] = c]
            /\ tasks' = PassRows(d, n) /\ run' = PassRow(d) /\ UNCHANGED <<stopping, crossed>>
         \/ /\ start = {} /\ plans \cup skip = {} /\ Leave(d, c, PassRows(d, n), PassRow(d))
         \/ Wait(d, c, PassRows(d, n), PassRow(d))
  BY PassIs
<1>2. /\ bodies' = bodies \cup TurnsOf(d, start \ plans)
      /\ UNCHANGED <<opening, spend, resumes, passed, crashes>>
  BY PassIs
<1>3. /\ start \in SUBSET With(tasks, "queued") /\ skip \in SUBSET With(tasks, "queued")
      /\ start \cap skip = {} /\ plans \in SUBSET start
  BY PassSets
<1>4. /\ c \in Contexts(DOMAIN tasks) /\ [c EXCEPT !.pc = "wait"] \in Contexts(DOMAIN tasks)
      /\ PassRow(d) \in RunRows
  BY PassContextIs
<1>5. PassAdds(d, n) \in Seq(TaskRows) /\ \A i \in 1 .. Len(PassAdds(d, n)) : PassAdds(d, n)[i].status = "queued"
  BY PassAddsAre
<1>6. PassRows(d, n) = Walk(start, plans, skip, PassAdds(d, n))
  BY DEF PassRows
<1> HIDE DEF c, start, plans, skip
<1>7. Walked(PassRows(d, n), start, plans, skip)
  BY <1>3, <1>5, <1>6, WalkedIs
<1>8. CASE \/ drivers' = [drivers EXCEPT ![d] = c] /\ tasks' = PassRows(d, n) /\ run' = PassRow(d)
              /\ UNCHANGED <<stopping, crossed>>
           \/ Wait(d, c, PassRows(d, n), PassRow(d))
  <2>1. tasks' = PassRows(d, n) /\ run' = PassRow(d) /\ UNCHANGED <<stopping, crossed>>
    BY <1>8 DEF Wait
  <2>2. PICK e \in Contexts(DOMAIN tasks) : drivers' = [drivers EXCEPT ![d] = e]
    BY <1>4, <1>8 DEF Wait
  <2> QED BY <1>2, <1>3, <1>4, <1>5, <1>6, <2>1, <2>2, WalksKeep
<1>9. CASE start = {} /\ plans \cup skip = {} /\ Leave(d, c, PassRows(d, n), PassRow(d))
  <2>1. bodies' = bodies
    BY <1>2, <1>9 DEF TurnsOf
  <2>2. Aside(PassRows(d, n))
    <3>1. \A t \in DOMAIN tasks : tasks[t].started \in BOOLEAN
      <4>1. \A t \in DOMAIN tasks : tasks[t] \in TaskRows
        BY DEF IInv, TypeOK
      <4> QED BY <4>1 DEF TaskRows
    <3> QED BY <1>7, <1>9, <3>1 DEF Aside, Walked
  <2> QED BY <1>2, <1>4, <1>9, <2>1, <2>2, RestsKeeps
<1> QED BY <1>1, <1>8, <1>9

------------------------------------------------------------------------------
(* The specification.                                                      *)

LEMMA InitHolds == Init => IInv
<1> SUFFICES ASSUME Init PROVE IInv
  OBVIOUS
<1>1. /\ tasks \in Plans /\ bodies = {} /\ passed = {} /\ crashes = 0 /\ spend = "low"
      /\ opening = TRUE /\ stopping = FALSE /\ crossed = FALSE
      /\ drivers = [d \in Drivers |-> Off] /\ resumes = [p \in Callers |-> NoResume]
  BY DEF Init
<1>2. tasks \in Seq(TaskRows) /\ \A t \in DOMAIN tasks : tasks[t].status = "queued"
  BY <1>1, EngineAssumption
<1>3. run \in RunRows
  BY DEF Init, RunRows, Pauses
<1>4. Off \in Contexts(DOMAIN tasks) /\ NoResume \in ResumeRows(DOMAIN tasks)
  BY OffIs DEF NoResume, ResumeRows
<1>5. TypeOK
  BY <1>1, <1>2, <1>3, <1>4 DEF TypeOK
<1>6. Worked /\ Manned
  BY <1>1, <1>2 DEF Worked, Manned
<1> QED BY <1>5, <1>6 DEF IInv

LEMMA NextKeeps ==
    ASSUME IInv, [Next]_vars
    PROVE  IInv' /\ Kept
<1>1. ASSUME UNCHANGED vars PROVE IInv' /\ Kept
  BY <1>1 DEF vars, rows, memory, IInv, TypeOK, Worked, Manned, Kept, Starts
<1>2. ASSUME NEW d \in Drivers, Loop(d) PROVE IInv' /\ Kept
  BY <1>2, LoopEndsKeep, PassKeeps DEF Loop
<1>3. ASSUME NEW b \in bodies, Body(b) PROVE IInv' /\ Kept
  BY <1>3, BodyKeeps
<1>4. CASE OpenThread
  BY <1>4, OpenThreadKeeps
<1>5. CASE Request
  BY <1>5, ApproveKeeps, StopKeeps, ResumesKeep, RetryKeeps, CancelKeeps DEF Request, Resuming
<1>6. CASE Crash
  BY <1>6, CrashKeeps
<1>7. CASE Rest
  BY <1>1, <1>7 DEF Rest
<1>8. ASSUME NEW level \in {"near", "over"}, Spend(level) PROVE IInv' /\ Kept
  BY <1>8, SpendKeeps
<1> QED BY <1>1, <1>2, <1>3, <1>4, <1>5, <1>6, <1>7, <1>8 DEF Next

LEMMA Invariance == Spec => []IInv
<1>1. IInv /\ [Next]_vars => IInv'
  BY NextKeeps
<1> QED BY InitHolds, <1>1, PTL DEF Spec

\* The rows, the loops' contexts and the calls in flight are always what the
\* code declares them to be (RunRow, TaskRow, RunContext), for any task graph.
THEOREM EngineTypes == Spec => []TypeOK
<1>1. IInv => TypeOK
  BY DEF IInv
<1> QED BY Invariance, <1>1, PTL

\* However retries, resumes, approvals, stops and restarts interleave with the
\* tasks, an attempt that ran and ended is never rewritten by requeueTasks,
\* requeueActiveTasks, finishTask or the loop: it keeps how it ended for good.
THEOREM SettledForGood == Spec => SettledRowsStay
<1> DEFINE Stay == \A t \in DOMAIN tasks :
                      /\ t \in DOMAIN tasks'
                      /\ tasks[t].started /\ tasks[t].status \in Terminal =>
                            tasks'[t].status = tasks[t].status
<1>1. IInv /\ [Next]_vars => [Stay]_vars
  BY NextKeeps DEF Kept
<1> QED BY Invariance, <1>1, PTL DEF Spec, SettledRowsStay

\* Where no command's folder goes missing under it (runExternal rejects then,
\* and leaves its row running), a row says "running" exactly while one runTask
\* is in its turn: no task is executed twice at a time, by however many
\* drivers, and none is left running with nobody behind it.
THEOREM RowsHaveBodies ==
    ASSUME ~MissingFolder
    PROVE  Spec => []BodiesMatchRows
<1>1. ASSUME IInv PROVE BodiesMatchRows
  <2>1. \A b, c \in bodies : b.task = c.task => b = c
    BY <1>1 DEF IInv, Worked
  <2>2. ASSUME NEW t \in DOMAIN tasks, tasks[t].status = "running"
        PROVE  \E b \in bodies : b.task = t /\ b.stage = "turn"
    <3>1. PICK b \in bodies : b.task = t
      BY <1>1, <2>2 DEF IInv, Manned
    <3>2. b.stage = "turn"
      BY <1>1, <2>2, <3>1 DEF IInv, Worked, Terminal
    <3> QED BY <3>1, <3>2
  <2>3. ASSUME NEW t \in DOMAIN tasks, NEW b \in bodies, b.task = t, b.stage = "turn"
        PROVE  tasks[t].status = "running"
    BY <1>1, <2>3 DEF IInv, Worked
  <2> QED BY <2>1, <2>2, <2>3 DEF BodiesMatchRows
<1>2. IInv => BodiesMatchRows
  BY <1>1
<1> QED BY Invariance, <1>2, PTL

------------------------------------------------------------------------------
(* Who drives, and what they were let past.  A driver is let past the      *)
(* budget only when the run is; where no folder can be missing, whoever    *)
(* has a body in flight is still at its loop, and a run that says it is    *)
(* running has a driver or is about to.                                    *)

Allowed == \A d \in Drivers : drivers[d].approved => run.approved

Driven ==
    /\ Allowed
    /\ ~MissingFolder => /\ \A b \in bodies : drivers[b.drv].pc # "left"
                         /\ RunningIsDriven

\* A new body is in its turn only when a pass starts it.
NoTurns == \A b \in bodies' \ bodies : b.stage # "turn"

LEMMA ReleasedCarries ==
    ASSUME TypeOK, NEW b
    PROVE  Released(b).approved = run.approved
BY DEF Released, TypeOK, RunRows

LEMMA SettlesDrives ==
    ASSUME IInv, Driven, NEW b \in bodies, NEW c \in Contexts(DOMAIN tasks), NEW ts, NEW r,
           Carries(c, drivers[b.drv]), r.approved = run.approved,
           \/ Settles(b, c, ts, r)
           \/ \E stage \in Stages \ {"turn"} : GoesOn(b, stage, c, ts, r)
    PROVE  Driven' /\ NoTurns
<1>1. b \in BodyRows(DOMAIN tasks) /\ b.drv \in Drivers
  BY DEF IInv, TypeOK, BodyRows
<1> DEFINE e == [c EXCEPT !.pc = IF @ = "wait" THEN "loop" ELSE @]
<1>2. /\ e.approved = drivers[b.drv].approved /\ (e.pc = "left" <=> drivers[b.drv].pc = "left")
      /\ c.approved = drivers[b.drv].approved /\ c.pc = drivers[b.drv].pc
  BY DEF Contexts, Carries
<1> HIDE DEF e
<1>3. /\ drivers' = [drivers EXCEPT ![b.drv] = e] \/ drivers' = [drivers EXCEPT ![b.drv] = c]
      /\ run'.approved = run.approved /\ opening' = opening
  BY DEF Settles, GoesOn, elsewhere, e
<1>4. \A d \in Drivers : /\ drivers'[d].approved = drivers[d].approved
                         /\ drivers'[d].pc = "left" <=> drivers[d].pc = "left"
  BY <1>1, <1>2, <1>3 DEF IInv, TypeOK
<1>5. \A f \in bodies' : /\ \E g \in bodies : f.drv = g.drv /\ g.drv \in Drivers
                         /\ f \notin bodies => f.stage # "turn"
  <2>1. \A stage \in Stages \ {"turn"} : [b EXCEPT !.stage = stage].drv = b.drv
                                         /\ [b EXCEPT !.stage = stage].stage # "turn"
    BY <1>1 DEF BodyRows
  <2>2. \A f \in bodies : f.drv \in Drivers
    BY DEF IInv, TypeOK, BodyRows
  <2> QED BY <1>1, <2>1, <2>2 DEF Settles, GoesOn
<1>6. Allowed'
  BY <1>3, <1>4 DEF Driven, Allowed
<1>7. ~MissingFolder => /\ \A f \in bodies' : drivers'[f.drv].pc # "left"
                        /\ RunningIsDriven'
  BY <1>1, <1>4, <1>5 DEF Driven, RunningIsDriven
<1> QED BY <1>5, <1>6, <1>7 DEF Driven, NoTurns

\* A step that leaves the bodies and the loops alone.
LEMMA AsideDrives ==
    ASSUME Driven, bodies' = bodies, drivers' = drivers, run'.approved = run.approved,
           opening' = opening \/ opening', run'.status = "running" => run.status = "running"
    PROVE  Driven' /\ NoTurns
BY DEF Driven, NoTurns, Allowed, RunningIsDriven

LEMMA DriveDrives ==
    ASSUME IInv, Driven, bodies' = bodies, NEW ts, Drive(run', ts), run.approved => run'.approved
    PROVE  Driven' /\ NoTurns
<1>1. PICK d \in Free : drivers' = [drivers EXCEPT ![d] = Entered(run', ts)]
  BY DEF Drive
<1>2. Entered(run', ts).pc = "loop" /\ Entered(run', ts).approved = run'.approved
  BY DEF Entered, Off
<1>3. d \in Drivers /\ \A b \in bodies : b.drv \in Drivers /\ b.drv # d
  BY DEF Free, Mine, IInv, TypeOK, BodyRows
<1>4. /\ drivers'[d].pc = "loop" /\ drivers'[d].approved = run'.approved
      /\ \A e \in Drivers \ {d} : drivers'[e] = drivers[e]
  BY <1>1, <1>2, <1>3 DEF IInv, TypeOK
<1> QED BY <1>3, <1>4 DEF Driven, NoTurns, Allowed, RunningIsDriven

\* A loop that waits or goes round again, and one that leaves.
LEMMA StaysDriving ==
    ASSUME IInv, Driven, NEW d \in Drivers, NEW e, drivers' = [drivers EXCEPT ![d] = e],
           e.pc # "left", e.approved = drivers[d].approved, run'.approved = run.approved,
           \A b \in bodies' : b \in bodies \/ b.drv = d
    PROVE  Driven'
<1>1. /\ drivers'[d].pc # "left" /\ drivers'[d].approved = drivers[d].approved
      /\ \A f \in Drivers \ {d} : drivers'[f] = drivers[f]
  BY DEF IInv, TypeOK
<1>2. \A b \in bodies : b.drv \in Drivers
  BY DEF IInv, TypeOK, BodyRows
<1> QED BY <1>1, <1>2 DEF Driven, Allowed, RunningIsDriven

LEMMA LeavesDriving ==
    ASSUME IInv, Driven, NEW d \in Drivers, Mine(d) = {}, bodies' = bodies,
           NEW c, NEW ts, NEW r \in RunRows, r.approved = run.approved, Leave(d, c, ts, r)
    PROVE  Driven'
<1>1. drivers' = [drivers EXCEPT ![d] = Off] /\ run'.status # "running" /\ run'.approved = run.approved
  BY DEF Leave, RunRows
<1>2. /\ ~drivers'[d].approved
      /\ \A f \in Drivers \ {d} : drivers'[f] = drivers[f]
  BY <1>1 DEF IInv, TypeOK, Off
<1>3. \A b \in bodies : b.drv \in Drivers /\ b.drv # d
  BY DEF IInv, TypeOK, BodyRows, Mine
<1> QED BY <1>1, <1>2, <1>3 DEF Driven, Allowed, RunningIsDriven

LEMMA BodyDrives ==
    ASSUME IInv, Driven, NEW b \in bodies, Body(b)
    PROVE  Driven' /\ NoTurns
<1> DEFINE c == drivers[b.drv]
           Steps(e, r) == \E ts : \/ Settles(b, e, ts, r)
                                  \/ \E stage \in Stages \ {"turn"} : GoesOn(b, stage, e, ts, r)
<1>1. /\ c \in Contexts(DOMAIN tasks) /\ b.drv \in Drivers /\ b.task \in DOMAIN tasks /\ run \in RunRows
      /\ TypeOK
  BY BodyIs DEF IInv
<1>2. After(b) \in Contexts(DOMAIN tasks) /\ Carries(After(b), c)
  <2>1. c.waiting \ {b.task} \in SUBSET DOMAIN tasks
    BY <1>1 DEF Contexts
  <2> QED BY <1>1, <2>1, BodyIs, CarriesIs DEF After
<1>3. Released(b).approved = run.approved
  BY <1>1, ReleasedCarries
<1> HIDE DEF c
<1>4. ASSUME NEW e \in Contexts(DOMAIN tasks), Carries(e, c), NEW r, r.approved = run.approved, Steps(e, r)
      PROVE  Driven' /\ NoTurns
  BY <1>4, SettlesDrives DEF c
<1> HIDE DEF Steps
<1>5. ASSUME NEW e \in Contexts(DOMAIN tasks), Carries(e, c), NEW t \in DOMAIN tasks
      PROVE  [e EXCEPT !.notes = @ \cup {t}] \in Contexts(DOMAIN tasks)
             /\ Carries([e EXCEPT !.notes = @ \cup {t}], c)
  <2>1. e.notes \cup {t} \in SUBSET DOMAIN tasks
    BY DEF Contexts
  <2>2. [e EXCEPT !.notes = @ \cup {t}] = [e EXCEPT !.notes = e.notes \cup {t}]
    OBVIOUS
  <2>3. Carries([e EXCEPT !.notes = e.notes \cup {t}], e)
    BY <2>1, CarriesIs
  <2> QED BY <1>5, <2>3, Noted DEF Carries
<1>6. ASSUME NEW e \in Contexts(DOMAIN tasks), Carries(e, c), NEW x \in BOOLEAN
      PROVE  /\ [e EXCEPT !.failure = x] \in Contexts(DOMAIN tasks) /\ Carries([e EXCEPT !.failure = x], c)
             /\ [e EXCEPT !.halted = x] \in Contexts(DOMAIN tasks) /\ Carries([e EXCEPT !.halted = x], c)
  <2>1. Carries([e EXCEPT !.failure = x], e) /\ Carries([e EXCEPT !.halted = x], e)
    BY CarriesIs
  <2> QED BY <1>6, <2>1, ContextIs DEF Carries
<1>7. ASSUME NEW e \in Contexts(DOMAIN tasks), Carries(e, c)
      PROVE  PausedAtBudget(e) \in Contexts(DOMAIN tasks) /\ Carries(PausedAtBudget(e), c)
             /\ HeldAtBudget(e, run).approved = run.approved
  <2>1. Carries(PausedAtBudget(e), e)
    BY CarriesIs
  <2> QED BY <1>1, <1>7, <2>1, AtBudgetIs, RowsCarry DEF Carries
<1>8. CASE Ask(b) \/ Answered(b)
  <2>1. /\ \E W : drivers' = [drivers EXCEPT ![b.drv] = [c EXCEPT !.waiting = W]]
        /\ run'.approved = run.approved /\ bodies' = bodies /\ opening' = opening
    <3>1. [run EXCEPT !.status = "awaiting", !.paused = "request"].approved = run.approved
      BY <1>1 DEF RunRows
    <3> QED BY <1>3, <1>8, <3>1 DEF Ask, Answered, After, elsewhere, c
  <2>2. \A d \in Drivers : Carries(drivers'[d], drivers[d])
    BY <1>1, <2>1 DEF Carries, Contexts, TypeOK, c
  <2>3. \A f \in bodies : f.drv \in Drivers
    BY <1>1 DEF TypeOK, BodyRows
  <2> QED BY <1>1, <2>1, <2>2, <2>3 DEF Driven, NoTurns, Allowed, RunningIsDriven, Carries
<1>9. CASE TurnFails(b)
  <2>1. PICK x \in BOOLEAN : Steps([After(b) EXCEPT !.failure = x], Released(b))
    <3>1. After(b).failure \in BOOLEAN
      BY <1>2, ContextIs
    <3>2. \A off \in BOOLEAN : (After(b).failure \/ ~off) \in BOOLEAN
      BY <3>1
    <3> QED BY <1>9, <3>2 DEF TurnFails, Steps
  <2> QED BY <1>2, <1>3, <1>4, <1>6, <2>1
<1>10. CASE TurnStops(b)
  BY <1>2, <1>3, <1>4, <1>10 DEF TurnStops, Steps
<1>11. CASE TurnHalts(b)
  BY <1>2, <1>4, <1>6, <1>11 DEF TurnHalts, Steps
<1>12. CASE TurnCut(b)
  BY <1>2, <1>3, <1>4, <1>12 DEF TurnCut, Stages, Steps
<1>13. CASE TurnSucceeds(b)
  BY <1>1, <1>2, <1>3, <1>4, <1>5, <1>13 DEF TurnSucceeds, Stages, Steps
<1>14. CASE TurnBreaks(b)
  <2>1. /\ MissingFolder /\ drivers' = [drivers EXCEPT ![b.drv].pc = "left"]
        /\ bodies' = bodies \ {b} /\ run' \in {run, [run EXCEPT !.status = "failed"]}
    BY <1>14 DEF TurnBreaks
  <2>2. run'.approved = run.approved /\ \A d \in Drivers : drivers'[d].approved = drivers[d].approved
    BY <1>1, <2>1 DEF TypeOK, Contexts, RunRows
  <2> QED BY <2>1, <2>2 DEF Driven, NoTurns, Allowed
<1>15. ASSUME NEW ok \in BOOLEAN, NEW v \in VerdictValues, CheckEnds(b, ok, v) PROVE Driven' /\ NoTurns
  <2> DEFINE e == [After(b) EXCEPT !.notes = @ \cup {b.task}]
  <2>1. e \in Contexts(DOMAIN tasks) /\ Carries(e, c)
    BY <1>1, <1>2, <1>5
  <2>2. \/ Steps(PausedAtBudget(e), HeldAtBudget(e, run))
        \/ Steps(e, run)
        \/ Steps([e EXCEPT !.failure = @ \/ ~ExpectsFailure(tasks, tasks[b.task].name)], run)
    BY <1>15 DEF CheckEnds, Stages, Steps
  <2>3. (e.failure \/ ~ExpectsFailure(tasks, tasks[b.task].name)) \in BOOLEAN
    BY DEF ExpectsFailure
  <2> HIDE DEF e
  <2> QED BY <1>4, <1>6, <1>7, <2>1, <2>2, <2>3
<1>16. CASE Judge(b)
  <2>1. Steps(c, run) \/ Steps(PausedAtBudget(c), HeldAtBudget(c, run))
    BY <1>16 DEF Judge, Stages, c, Steps
  <2> QED BY <1>1, <1>4, <1>7, <2>1, CarriesIs
<1>17. CASE Note(b)
  <2>1. Steps([c EXCEPT !.notes = @ \cup {b.task}], run)
    BY <1>17 DEF Note, Stages, c, Steps
  <2> QED BY <1>1, <1>4, <1>5, <2>1, CarriesIs
<1>18. CASE Close(b)
  <2>1. Steps(c, run) \/ Steps([c EXCEPT !.pause = "gate"], Paused(run, "gate", FALSE))
    BY <1>18 DEF Close, c, Steps
  <2>2. "gate" \in Pauses \ {"request"}
    BY DEF Pauses
  <2>3. /\ [c EXCEPT !.pause = "gate"] \in Contexts(DOMAIN tasks) /\ Carries([c EXCEPT !.pause = "gate"], c)
        /\ Paused(run, "gate", FALSE).approved = run.approved /\ Carries(c, c)
    BY <1>1, <2>2, CarriesIs, ContextIs, RowsCarry, ZenonT(40)
  <2> QED BY <1>1, <1>4, <2>1, <2>3
<1>19. CASE CloseCut(b)
  <2>1. Steps(PausedAtBudget(c), HeldAtBudget(c, run))
    BY <1>19 DEF CloseCut, c, Steps
  <2> QED BY <1>1, <1>4, <1>7, <2>1, CarriesIs
<1>20. \A ok \in BOOLEAN, v \in VerdictValues : CheckEnds(b, ok, v) => Driven' /\ NoTurns
  BY <1>15
<1>21. Check(b) => \E ok \in BOOLEAN, v \in VerdictValues : CheckEnds(b, ok, v)
  BY DEF Check, VerdictValues
<1> QED BY <1>8, <1>9, <1>10, <1>11, <1>12, <1>13, <1>14, <1>16, <1>17, <1>18, <1>19, <1>20, <1>21
        DEF Body, TurnEnds, GoOn

\* Whoever lets a run on, retries it or picks it up drives it.
LEMMA RequestDrives ==
    ASSUME IInv, Driven, OpenThread \/ Request
    PROVE  Driven' /\ NoTurns
<1>1. TypeOK /\ run \in RunRows
  BY DEF IInv, TypeOK
<1>2. CASE OpenThread
  <2>1. bodies' = bodies /\ run' = run /\ Drive(run', tasks)
    BY <1>2 DEF OpenThread, rows
  <2> QED BY <2>1, DriveDrives
<1>3. CASE Approve
  <2>1. /\ bodies' = bodies
        /\ run' = [IF run.paused = "budget" THEN [Paused(run, "none", FALSE) EXCEPT !.approved = TRUE]
                   ELSE run EXCEPT !.status = "running"]
        /\ \E ts : Drive(run', ts)
    BY <1>3 DEF Approve
  <2>2. run.approved => run'.approved
    BY <1>1, <2>1 DEF RunRows, Paused
  <2> QED BY <2>1, <2>2, DriveDrives
<1>4. CASE Stop
  <2>1. /\ UNCHANGED <<drivers, bodies, opening>>
        /\ run' = run \/ run' = [run EXCEPT !.status = "stopped"]
    BY <1>4 DEF Stop
  <2>2. run'.approved = run.approved /\ (run'.status = "running" => run.status = "running")
    BY <1>1, <2>1 DEF RunRows
  <2> QED BY <2>1, <2>2, AsideDrives
<1>5. ASSUME NEW t \in DOMAIN tasks, Retry(t) PROVE Driven' /\ NoTurns
  <2>1. bodies' = bodies /\ opening' = opening /\ run' = Reopened(run)
    BY <1>5 DEF Retry
  <2>2. run'.approved = run.approved
    BY <1>1, <2>1, RowsCarry
  <2>3. CASE run.status = "running"
    BY <1>5, <2>1, <2>2, <2>3, AsideDrives DEF Retry
  <2>4. CASE run.status # "running"
    <3>1. Drive(run', tasks')
      BY <1>5, <2>4 DEF Retry
    <3> QED BY <2>1, <2>2, <3>1, DriveDrives
  <2> QED BY <2>3, <2>4
<1>6. ASSUME NEW t \in DOMAIN tasks, Cancel(t) PROVE Driven' /\ NoTurns
  BY <1>6, AsideDrives DEF Cancel, memory
<1>7. ASSUME NEW plan, PutBack(plan) PROVE Driven' /\ NoTurns
  <2>1. bodies' = bodies /\ run' = Reopened(run) /\ \E ts : Drive(run', ts)
    BY <1>7 DEF PutBack
  <2>2. run'.approved = run.approved
    BY <1>1, <2>1, RowsCarry
  <2> QED BY <2>1, <2>2, DriveDrives
<1>8. CASE Resuming
  <2>1. (\E plan : PutBack(plan)) \/ UNCHANGED <<run, drivers, bodies, opening>>
    BY <1>8 DEF Resuming, Restored, RestoreFails, Resume, rows
  <2> QED BY <1>7, <2>1, AsideDrives
<1> QED BY <1>2, <1>3, <1>4, <1>5, <1>6, <1>8 DEF Request

\* A restart leaves nobody driving, and no run that says it is running.
LEMMA CrashDrives ==
    ASSUME IInv, Driven, Crash
    PROVE  Driven' /\ NoTurns
<1>1. /\ bodies' = {} /\ drivers' = [d \in Drivers |-> Off]
      /\ run' = (IF Active THEN [run EXCEPT !.status = "failed"] ELSE run)
  BY DEF Crash
<1>2. run'.status # "running"
  BY <1>1 DEF Active, IInv, TypeOK, RunRows
<1> QED BY <1>1, <1>2 DEF Driven, NoTurns, Allowed, RunningIsDriven, Off

LEMMA SpendDrives ==
    ASSUME IInv, Driven, NEW level, Spend(level)
    PROVE  Driven' /\ NoTurns
<1>1. /\ UNCHANGED <<drivers, bodies, opening>>
      /\ run' = run \/ run' = Paused(run, "budget", TRUE)
  BY DEF Spend
<1>2. run'.approved = run.approved /\ run'.status = run.status
  BY <1>1 DEF IInv, TypeOK, RunRows, Paused
<1> QED BY <1>1, <1>2, AsideDrives

LEMMA LoopEndsDrive ==
    ASSUME IInv, Driven, NEW d \in Drivers, LoopStopped(d) \/ LoopDrained(d)
    PROVE  Driven' /\ NoTurns
<1> DEFINE c == drivers[d]
<1>1. c \in Contexts(DOMAIN tasks) /\ run \in RunRows /\ c.pc = "loop" /\ bodies' = bodies
      /\ opening' = opening
  BY DEF IInv, TypeOK, LoopStopped, LoopDrained
<1>2. \E ts : \/ Mine(d) = {} /\ Leave(d, c, ts, run)
              \/ Wait(d, c, ts, run)
  BY DEF LoopStopped, LoopDrained
<1> HIDE DEF c
<1>3. CASE \E ts : Mine(d) = {} /\ Leave(d, c, ts, run)
  BY <1>1, <1>3, LeavesDriving DEF NoTurns
<1>4. CASE \E ts : Wait(d, c, ts, run)
  <2>1. [c EXCEPT !.pc = "wait"].pc = "wait" /\ [c EXCEPT !.pc = "wait"].approved = c.approved
    BY <1>1 DEF Contexts
  <2>2. drivers' = [drivers EXCEPT ![d] = [c EXCEPT !.pc = "wait"]] /\ run' = run
    BY <1>4 DEF Wait
  <2>3. [c EXCEPT !.pc = "wait"].pc # "left" /\ c.approved = drivers[d].approved
    BY <2>1 DEF c
  <2> HIDE DEF c
  <2> QED BY <1>1, <2>1, <2>2, <2>3, StaysDriving DEF NoTurns
<1> QED BY <1>2, <1>3, <1>4

\* A pass starts nothing for a run over its budget that nobody let past it:
\* what it starts is under the ceiling that pauseForBudget leaves.
LEMMA PassDrives ==
    ASSUME IInv, Driven, NEW d \in Drivers, LoopPass(d)
    PROVE  Driven' /\ (bodies' # bodies => spend # "over" \/ run.approved)
<1> DEFINE c == PassContext(d)
<1>1. /\ drivers[d].pc = "loop" /\ bodies' = bodies \cup TurnsOf(d, PassStart(d) \ PassPlans(d))
      /\ opening' = opening
  BY PassIs
<1>2. \/ drivers' = [drivers EXCEPT ![d] = c] /\ run' = PassRow(d)
      \/ Mine(d) = {} /\ PassStart(d) = {} /\ \E ts : Leave(d, c, ts, PassRow(d))
      \/ \E ts : Wait(d, c, ts, PassRow(d))
  BY PassIs
<1>3. /\ Carries(c, drivers[d]) /\ PassRow(d) \in RunRows /\ PassRow(d).approved = run.approved
      /\ [c EXCEPT !.pc = "wait"].pc = "wait" /\ [c EXCEPT !.pc = "wait"].approved = drivers[d].approved
  BY PassContextIs
<1>4. bodies' # bodies => spend # "over" \/ run.approved
  <2> SUFFICES ASSUME bodies' # bodies PROVE spend # "over" \/ run.approved
    OBVIOUS
  <2>1. PassStart(d) # {}
    BY <1>1 DEF TurnsOf
  <2>2. ~AtBudget(drivers[d])
    BY <2>1, PassStarts, PassContextIs
  <2> QED BY <2>2 DEF AtBudget, Driven, Allowed
<1>5. \A b \in bodies' : b \in bodies \/ b.drv = d
  BY <1>1 DEF TurnsOf
<1> HIDE DEF c
<1>6. CASE Mine(d) = {} /\ PassStart(d) = {} /\ \E ts : Leave(d, c, ts, PassRow(d))
  <2>1. bodies' = bodies
    BY <1>1, <1>6 DEF TurnsOf
  <2> QED BY <1>3, <1>6, <2>1, LeavesDriving
<1>7. CASE (drivers' = [drivers EXCEPT ![d] = c] /\ run' = PassRow(d)) \/ \E ts : Wait(d, c, ts, PassRow(d))
  <2>1. PICK e \in {c, [c EXCEPT !.pc = "wait"]} : drivers' = [drivers EXCEPT ![d] = e] /\ run' = PassRow(d)
    BY <1>7 DEF Wait
  <2>2. e.pc # "left" /\ e.approved = drivers[d].approved
    BY <1>1, <1>3, <2>1 DEF Carries
  <2> QED BY <1>3, <1>4, <1>5, <2>1, <2>2, StaysDriving
<1> QED BY <1>2, <1>4, <1>6, <1>7

LEMMA InitDrives == Init => Driven
BY DEF Init, Driven, Allowed, RunningIsDriven, Off

LEMMA NextDrives ==
    ASSUME IInv, Driven, [Next]_vars
    PROVE  Driven' /\ (NoTurns \/ spend # "over" \/ run.approved)
<1>1. ASSUME UNCHANGED vars PROVE Driven' /\ NoTurns
  BY <1>1 DEF vars, rows, memory, Driven, Allowed, RunningIsDriven, NoTurns
<1>2. ASSUME NEW d \in Drivers, Loop(d) PROVE Driven' /\ (NoTurns \/ spend # "over" \/ run.approved)
  <2>1. CASE LoopPass(d)
    BY <2>1, PassDrives DEF NoTurns
  <2> QED BY <1>2, <2>1, LoopEndsDrive DEF Loop
<1>3. ASSUME NEW b \in bodies, Body(b) PROVE Driven' /\ NoTurns
  BY <1>3, BodyDrives
<1>4. CASE OpenThread \/ Request
  BY <1>4, RequestDrives
<1>5. CASE Crash
  BY <1>5, CrashDrives
<1>6. CASE Rest
  BY <1>1, <1>6 DEF Rest
<1>7. ASSUME NEW level \in {"near", "over"}, Spend(level) PROVE Driven' /\ NoTurns
  BY <1>7, SpendDrives
<1> QED BY <1>1, <1>2, <1>3, <1>4, <1>5, <1>6, <1>7 DEF Next

LEMMA DrivenAlways == Spec => []Driven
<1>1. IInv /\ Driven /\ [Next]_vars => Driven'
  BY NextDrives
<1> QED BY Invariance, InitDrives, <1>1, PTL DEF Spec

\* Where no command's folder goes missing, a run that says it is running has a
\* driver or a thread being opened for it: drive, retryTask, resume, approve
\* and the end of runGraph never leave the row behind without a loop.
THEOREM SomebodyDrives ==
    ASSUME ~MissingFolder
    PROVE  Spec => []RunningIsDriven
<1>1. Driven => RunningIsDriven
  BY DEF Driven
<1> QED BY DrivenAlways, <1>1, PTL

\* Over its budget, a run that nobody let past it starts nothing, whoever
\* drives it and whether the ledger was checked at a turn's end or the loop
\* read it itself (pauseForBudget).
THEOREM BudgetIsKept == Spec => BudgetHolds
<1> DEFINE Held == \A t \in DOMAIN tasks : Starts(t) => spend # "over" \/ run.approved
<1>1. IInv /\ Driven /\ [Next]_vars => [Held]_vars
  BY NextDrives, NextKeeps DEF Kept, NoTurns
<1> QED BY Invariance, DrivenAlways, <1>1, PTL DEF Spec, BudgetHolds

------------------------------------------------------------------------------
(* Failures are judged.  The row of an agent or a check that failed says   *)
(* so in its verdict, whoever judged it last, and what an auditor is still *)
(* to judge has not failed.                                                *)

Said(row) == row.status = "failed" /\ row.kind \in {"agent", "verify"} =>
                 row.verdict \in {"needs-user", "failed"}

AllSaid(ts) == \A t \in DOMAIN ts : Said(ts[t])

Failures ==
    /\ AllSaid(tasks)
    /\ \A b \in bodies : b.stage = "judge" => tasks[b.task].status = "success"

\* Rows are settled, begun, judged and added with that kept.
LEMMA FinishSays ==
    ASSUME NEW ts \in Seq(TaskRows), AllSaid(ts), NEW S, NEW st \in Statuses \ {"failed"}
    PROVE  AllSaid(Finish(ts, S, st))
<1>1. \A row \in TaskRows : [row EXCEPT !.status = st].status = st
  BY DEF TaskRows
<1>2. \A t \in DOMAIN ts : ts[t] \in TaskRows
  OBVIOUS
<1> QED BY <1>1, <1>2 DEF AllSaid, Said, Finish

LEMMA BeginSays ==
    ASSUME NEW ts \in Seq(TaskRows), AllSaid(ts), NEW S
    PROVE  AllSaid(Begin(ts, S))
<1>1. \A row \in TaskRows : [row EXCEPT !.status = "running", !.started = TRUE].status = "running"
  BY DEF TaskRows
<1>2. \A t \in DOMAIN ts : ts[t] \in TaskRows
  OBVIOUS
<1> QED BY <1>1, <1>2 DEF AllSaid, Said, Begin

LEMMA JudgedSays ==
    ASSUME NEW ts \in Seq(TaskRows), NEW u \in DOMAIN ts, \A t \in DOMAIN ts \ {u} : Said(ts[t]),
           NEW v \in VerdictValues, NEW by,
           v \in {"needs-user", "failed"} \/ ts[u].status # "failed"
    PROVE  AllSaid(Judged(ts, u, v, by))
<1> DEFINE row == [ts[u] EXCEPT !.verdict = v, !.by = by]
<1>1. row.verdict = v /\ row.status = ts[u].status
  BY DEF TaskRows
<1>2. Judged(ts, u, v, by) = [ts EXCEPT ![u] = row]
  BY DEF Judged, TaskRows
<1> HIDE DEF row
<1> QED BY <1>1, <1>2 DEF AllSaid, Said

LEMMA AddedSays ==
    ASSUME NEW ts \in Seq(TaskRows), AllSaid(ts), NEW more \in Seq(TaskRows),
           \A i \in 1 .. Len(more) : more[i].status = "queued"
    PROVE  AllSaid(ts \o more)
<1> DEFINE us == ts \o more
<1>1. /\ \A t \in DOMAIN ts : us[t] = ts[t]
      /\ \A t \in DOMAIN us \ DOMAIN ts : us[t].status = "queued"
  BY AddedIs
<1> HIDE DEF us
<1>2. AllSaid(us)
  BY <1>1 DEF AllSaid, Said
<1> QED BY <1>2 DEF us

\* A row that fails is judged as failed in the same step, or is no agent's
\* and no check's.
LEMMA FailSays ==
    ASSUME NEW ts \in Seq(TaskRows), AllSaid(ts), NEW u \in DOMAIN ts
    PROVE  /\ Finish(ts, {u}, "failed") \in Seq(TaskRows) /\ DOMAIN Finish(ts, {u}, "failed") = DOMAIN ts
           /\ \A t \in DOMAIN ts \ {u} : Said(Finish(ts, {u}, "failed")[t])
           /\ \A t \in DOMAIN ts : /\ Finish(ts, {u}, "failed")[t].kind = ts[t].kind
                                   /\ Finish(ts, {u}, "failed")[t].verdict = ts[t].verdict
                                   /\ t # u => Finish(ts, {u}, "failed")[t] = ts[t]
           /\ ts[u].kind \notin {"agent", "verify"} => AllSaid(Finish(ts, {u}, "failed"))
           /\ \A v \in {"needs-user", "failed"}, by \in {"rule", "check"} :
                 AllSaid(Judged(Finish(ts, {u}, "failed"), u, v, by))
<1> DEFINE us == Finish(ts, {u}, "failed")
<1>1. us \in Seq(TaskRows) /\ DOMAIN us = DOMAIN ts
  BY FinishIs DEF Statuses
<1>2. \A t \in DOMAIN ts : us[t] = IF t = u THEN [ts[t] EXCEPT !.status = "failed"] ELSE ts[t]
  BY DEF Finish
<1>3. \A t \in DOMAIN ts : us[t].kind = ts[t].kind /\ us[t].verdict = ts[t].verdict
  <2>1. \A row \in TaskRows : /\ [row EXCEPT !.status = "failed"].kind = row.kind
                              /\ [row EXCEPT !.status = "failed"].verdict = row.verdict
    BY DEF TaskRows
  <2>2. \A t \in DOMAIN ts : ts[t] \in TaskRows
    OBVIOUS
  <2> HIDE DEF us
  <2> QED BY <1>2, <2>1, <2>2
<1> HIDE DEF us
<1>4. \A t \in DOMAIN ts \ {u} : Said(us[t])
  BY <1>2 DEF AllSaid
<1>5. ts[u].kind \notin {"agent", "verify"} => AllSaid(us)
  BY <1>1, <1>3, <1>4 DEF AllSaid, Said
<1>6. \A v \in {"needs-user", "failed"}, by \in {"rule", "check"} : AllSaid(Judged(us, u, v, by))
  BY <1>1, <1>4, JudgedSays DEF VerdictValues
<1> QED BY <1>1, <1>2, <1>3, <1>4, <1>5, <1>6 DEF us

\* What is being judged has settled, and a settled row that ran keeps its
\* status: only a turn that ended well begins a judgement.
LEMMA JudgingKeeps ==
    ASSUME IInv, Kept, Failures, AllSaid(tasks'),
           \A b \in bodies' : b \in bodies \/ b.stage # "judge"
    PROVE  Failures'
<1>1. \A b \in bodies : b.task \in DOMAIN tasks /\ (b.stage = "judge" => tasks[b.task].started)
  BY DEF IInv, TypeOK, BodyRows, Worked
<1>2. \A b \in bodies : b.stage = "judge" => tasks'[b.task].status = "success"
  BY <1>1 DEF Failures, Kept, Terminal
<1> QED BY <1>2 DEF Failures

\* A body that ends its row, and begins no judgement.
LEMMA EndsSaid ==
    ASSUME IInv, Failures, Kept, NEW b \in bodies, NEW c, NEW ts, AllSaid(ts), NEW r,
           Settles(b, c, ts, r) \/ \E stage \in Stages \ {"turn", "judge"} : GoesOn(b, stage, c, ts, r)
    PROVE  Failures'
<1>1. tasks' = ts
  BY DEF Settles, GoesOn
<1>2. b \in BodyRows(DOMAIN tasks)
  BY DEF IInv, TypeOK
<1>3. \A f \in bodies' : f \in bodies \/ f.stage # "judge"
  BY <1>2 DEF Settles, GoesOn, BodyRows
<1> QED BY <1>1, <1>3, JudgingKeeps

LEMMA TurnSays ==
    ASSUME IInv, Failures, Kept, NEW b \in bodies,
           \/ Ask(b) \/ Answered(b) \/ TurnFails(b) \/ TurnStops(b) \/ TurnHalts(b) \/ TurnCut(b)
           \/ TurnSucceeds(b) \/ TurnBreaks(b)
    PROVE  Failures'
<1>1. tasks \in Seq(TaskRows) /\ b.task \in DOMAIN tasks /\ AllSaid(tasks) /\ b \in BodyRows(DOMAIN tasks)
  BY BodyIs DEF Failures, IInv, TypeOK
<1>2. \A st \in Statuses \ {"failed"} : AllSaid(Finish(tasks, {b.task}, st))
  BY <1>1, FinishSays
<1>3. CASE Ask(b) \/ Answered(b) \/ TurnBreaks(b)
  <2>1. tasks' = tasks /\ bodies' \subseteq bodies
    BY <1>3 DEF Ask, Answered, TurnBreaks, elsewhere
  <2> QED BY <1>1, <2>1, JudgingKeeps
<1>4. CASE TurnFails(b)
  <2> DEFINE judged == tasks[b.task].kind \in {"agent", "verify"}
             off == judged /\ stopping
             done == Finish(tasks, {b.task}, IF off THEN "stopped" ELSE "failed")
  <2>1. PICK v \in {"failed", "needs-user"} :
           \E c, r : Settles(b, c, IF judged /\ ~off THEN Judged(done, b.task, v, "rule") ELSE done, r)
    BY <1>4 DEF TurnFails
  <2>2. CASE off
    BY <1>2, <2>1, <2>2, EndsSaid DEF Statuses
  <2>3. CASE ~off /\ judged
    <3>1. AllSaid(Judged(Finish(tasks, {b.task}, "failed"), b.task, v, "rule"))
      BY <1>1, FailSays
    <3> QED BY <2>1, <2>3, <3>1, EndsSaid
  <2>4. CASE ~off /\ ~judged
    <3>1. AllSaid(Finish(tasks, {b.task}, "failed"))
      BY <1>1, <2>4, FailSays
    <3> QED BY <2>1, <2>4, <3>1, EndsSaid
  <2> QED BY <2>2, <2>3, <2>4
<1>5. CASE TurnStops(b) \/ TurnHalts(b)
  <2>1. \E c, r : Settles(b, c, Finish(tasks, {b.task}, "stopped"), r)
    BY <1>5 DEF TurnStops, TurnHalts
  <2> QED BY <1>2, <2>1, EndsSaid DEF Statuses
<1>6. CASE TurnCut(b)
  <2> DEFINE done == Judged(Finish(tasks, {b.task}, "failed"), b.task, "failed", "rule")
             row == [done[b.task] EXCEPT !.cut = TRUE]
             ts == [done EXCEPT ![b.task].cut = TRUE]
  <2>1. \E c, r : GoesOn(b, "cut", c, ts, r)
    BY <1>6 DEF TurnCut
  <2>2. AllSaid(done)
    BY <1>1, FailSays
  <2>3. done \in Seq(TaskRows) /\ b.task \in DOMAIN done
    <3>1. Finish(tasks, {b.task}, "failed") \in Seq(TaskRows)
          /\ b.task \in DOMAIN Finish(tasks, {b.task}, "failed")
      BY <1>1, FailSays
    <3> QED BY <3>1, JudgedIs DEF VerdictValues
  <2> HIDE DEF done
  <2>4. /\ row.status = done[b.task].status /\ row.kind = done[b.task].kind
        /\ row.verdict = done[b.task].verdict
    <3>1. done[b.task] \in TaskRows
      BY <2>3
    <3> QED BY <3>1 DEF TaskRows
  <2>5. ts = [done EXCEPT ![b.task] = row]
    OBVIOUS
  <2> HIDE DEF row
  <2>6. AllSaid(ts)
    BY <2>2, <2>4, <2>5 DEF AllSaid, Said
  <2> HIDE DEF ts
  <2> QED BY <2>1, <2>6, EndsSaid DEF Stages
<1>7. CASE TurnSucceeds(b)
  <2>1. \/ \E c, r : GoesOn(b, "judge", c, Finish(tasks, {b.task}, "success"), r)
        \/ \E c, r : \E st \in {"stopped", "success"} : GoesOn(b, "close", c, Finish(tasks, {b.task}, st), r)
    BY <1>7 DEF TurnSucceeds
  <2>2. CASE \E c, r : \E st \in {"stopped", "success"} : GoesOn(b, "close", c, Finish(tasks, {b.task}, st), r)
    BY <1>2, <2>2, EndsSaid DEF Statuses, Stages
  <2>3. CASE \E c, r : GoesOn(b, "judge", c, Finish(tasks, {b.task}, "success"), r)
    <3>1. tasks' = Finish(tasks, {b.task}, "success") /\ bodies' = (bodies \ {b}) \cup {[b EXCEPT !.stage = "judge"]}
      BY <2>3 DEF GoesOn
    <3>2. AllSaid(tasks') /\ tasks'[b.task].status = "success"
      <4>1. "success" \in Statuses \ {"failed"}
        BY DEF Statuses
      <4>2. tasks'[b.task].status = IF b.task \in {b.task} THEN "success" ELSE tasks[b.task].status
        BY <1>1, <3>1, <4>1, FinishIs
      <4> QED BY <1>2, <3>1, <4>1, <4>2
    <3>3. \A f \in bodies' : f \in bodies \/ f.task = b.task
      BY <1>1, <3>1 DEF BodyRows
    <3>4. \A f \in bodies : f.task \in DOMAIN tasks /\ (f.stage = "judge" => tasks[f.task].started)
      BY DEF IInv, TypeOK, BodyRows, Worked
    <3>5. \A f \in bodies : f.stage = "judge" => tasks'[f.task].status = "success"
      BY <3>4 DEF Failures, Kept, Terminal
    <3> QED BY <3>2, <3>3, <3>5 DEF Failures
  <2> QED BY <2>1, <2>2, <2>3
<1> QED BY <1>3, <1>4, <1>5, <1>6, <1>7

\* A check speaks for the work it checked only for worse, once that has
\* failed: no check makes a failure look better.
LEMMA CheckSays ==
    ASSUME IInv, Failures, Kept, NEW b \in bodies, NEW ok \in BOOLEAN, NEW v \in VerdictValues,
           CheckEnds(b, ok, v), ok \/ v = "failed"
    PROVE  Failures'
<1> DEFINE t == b.task
           st == IF stopping THEN "stopped" ELSE IF ok THEN "success" ELSE "failed"
           done == Finish(tasks, {t}, st)
           own == Judged(done, t, v, "check")
           work == CheckedTask(tasks, t)
           ts == IF stopping THEN done
                 ELSE IF work # 0 /\ Speaks(v, tasks[work].verdict) THEN Judged(own, work, v, "check")
                 ELSE own
           again == ts \o RetryPair(tasks, work, t)
<1>1. tasks \in Seq(TaskRows) /\ t \in DOMAIN tasks /\ AllSaid(tasks) /\ tasks[t].kind = "verify"
  BY BodyIs DEF Failures, CheckEnds, InTurn
<1>2. \/ \E c, r : Settles(b, c, ts, r) \/ GoesOn(b, "close", c, ts, r)
      \/ \E c, r : MayRetry(tasks, t) /\ Settles(b, c, again, r)
  BY DEF CheckEnds
<1>3. work # 0 => work \in DOMAIN tasks /\ work # t /\ tasks[work].kind = "agent"
  BY <1>1, CheckedTaskIs
<1>4. work # 0 /\ Speaks(v, tasks[work].verdict) => v = "failed" \/ tasks[work].status # "failed"
  <2> SUFFICES ASSUME work # 0, Speaks(v, tasks[work].verdict), tasks[work].status = "failed"
               PROVE  v = "failed"
    OBVIOUS
  <2>1. tasks[work].verdict \in {"needs-user", "failed"}
    BY <1>1, <1>3 DEF AllSaid, Said
  <2> QED BY <2>1 DEF Speaks, Badness, VerdictValues
<1>5. /\ done \in Seq(TaskRows) /\ DOMAIN done = DOMAIN tasks
      /\ \A u \in DOMAIN tasks \ {t} : done[u] = tasks[u]
      /\ st # "failed" => AllSaid(done)
      /\ st = "failed" => v = "failed"
      /\ done[t].status = st
  <2>1. st \in Statuses
    BY DEF Statuses
  <2>2. \A u \in DOMAIN tasks \ {t} : done[u] = tasks[u]
    BY DEF Finish
  <2>3. st = "failed" => v = "failed"
    OBVIOUS
  <2> HIDE DEF st
  <2>4. /\ done \in Seq(TaskRows) /\ DOMAIN done = DOMAIN tasks
        /\ done[t].status = IF t \in {t} THEN st ELSE tasks[t].status
    BY <1>1, <2>1, FinishIs
  <2>5. st # "failed" => AllSaid(done)
    BY <1>1, <2>1, FinishSays
  <2> QED BY <2>2, <2>3, <2>4, <2>5
<1> HIDE DEF work, done, st
<1>6. /\ own \in Seq(TaskRows) /\ DOMAIN own = DOMAIN tasks
      /\ \A u \in DOMAIN tasks \ {t} : own[u].status = tasks[u].status
      /\ AllSaid(own)
  <2>1. \A u \in DOMAIN done \ {t} : Said(done[u])
    BY <1>1, <1>5 DEF AllSaid
  <2>2. t \in DOMAIN done /\ (v \in {"needs-user", "failed"} \/ done[t].status # "failed")
    BY <1>1, <1>5
  <2>3. AllSaid(own)
    BY <1>5, <2>1, <2>2, JudgedSays
  <2>4. /\ own \in Seq(TaskRows) /\ DOMAIN own = DOMAIN done
        /\ \A u \in DOMAIN done : own[u].status = done[u].status
    BY <1>5, <2>2, JudgedIs
  <2> QED BY <1>5, <2>3, <2>4
<1> HIDE DEF own
<1>7. AllSaid(ts) /\ ts \in Seq(TaskRows)
  <2>1. CASE stopping
    BY <1>5, <2>1 DEF st
  <2>2. CASE ~stopping /\ work # 0 /\ Speaks(v, tasks[work].verdict)
    <3>1. AllSaid(Judged(own, work, v, "check")) /\ Judged(own, work, v, "check") \in Seq(TaskRows)
      BY <1>3, <1>4, <1>6, <2>2, JudgedIs, JudgedSays DEF AllSaid
    <3> QED BY <2>2, <3>1
  <2>3. CASE ~stopping /\ ~(work # 0 /\ Speaks(v, tasks[work].verdict))
    BY <1>6, <2>3
  <2> QED BY <2>1, <2>2, <2>3
<1> HIDE DEF ts
<1>8. MayRetry(tasks, t) => AllSaid(again)
  <2> SUFFICES ASSUME MayRetry(tasks, t) PROVE AllSaid(again)
    OBVIOUS
  <2>1. work \in DOMAIN tasks /\ tasks[t].retries > 0
    BY <1>3 DEF MayRetry, work
  <2> DEFINE pair == RetryPair(tasks, work, t)
  <2>2. pair \in Seq(TaskRows) /\ Len(pair) = 2 /\ (\A i \in 1 .. 2 : pair[i].status = "queued")
    BY <1>1, <2>1, RetryPairIs
  <2>3. again = ts \o pair
    OBVIOUS
  <2> HIDE DEF pair, again
  <2> QED BY <1>7, <2>2, <2>3, AddedSays
<1> HIDE DEF again
<1> QED BY <1>2, <1>7, <1>8, EndsSaid DEF Stages

LEMMA BodySays ==
    ASSUME IInv, Failures, Kept, NEW b \in bodies, Body(b)
    PROVE  Failures'
<1>1. tasks \in Seq(TaskRows) /\ b.task \in DOMAIN tasks /\ AllSaid(tasks)
  BY BodyIs DEF Failures
<1>2. CASE Check(b)
  <2>1. PICK ok \in BOOLEAN, v \in VerdictValues : CheckEnds(b, ok, v) /\ (ok \/ v = "failed")
    BY <1>2 DEF Check, VerdictValues
  <2> QED BY <2>1, CheckSays
<1>3. CASE Judge(b)
  <2>1. tasks[b.task].status = "success"
    BY <1>3 DEF Judge, At, Failures
  <2>2. PICK v \in {"unverified", "needs-user", "failed"} :
           \E c, r : LET ts == Judged(tasks, b.task, v, "rule")
                     IN Settles(b, c, ts, r) \/ GoesOn(b, "note", c, ts, r)
    BY <1>3 DEF Judge
  <2>3. AllSaid(Judged(tasks, b.task, v, "rule"))
    BY <1>1, <2>1, JudgedSays DEF AllSaid, VerdictValues
  <2> QED BY <2>2, <2>3, EndsSaid DEF Stages
<1>4. CASE Note(b)
  <2>1. \E c, r : GoesOn(b, "close", c, tasks, r)
    BY <1>4 DEF Note
  <2> QED BY <1>1, <2>1, EndsSaid DEF Stages
<1>5. CASE Close(b) \/ CloseCut(b)
  <2>1. \E c, r : Settles(b, c, tasks, r)
    BY <1>5 DEF Close, CloseCut
  <2> QED BY <1>1, <2>1, EndsSaid
<1> QED BY <1>2, <1>3, <1>4, <1>5, TurnSays DEF Body, TurnEnds, GoOn

\* Rows that are put back or added are queued.
LEMMA RequestSays ==
    ASSUME IInv, Failures, Kept, Request
    PROVE  Failures'
<1>1. TypeOK /\ tasks \in Seq(TaskRows) /\ AllSaid(tasks) /\ resumes \in [Callers -> ResumeRows(DOMAIN tasks)]
  BY DEF Failures, IInv, TypeOK
<1>2. SUFFICES AllSaid(tasks') /\ bodies' = bodies
  BY JudgingKeeps
<1>3. CASE Approve
  <2> DEFINE cut == {t \in With(tasks, "failed") : tasks[t].cut /\ run.overBudget}
             more == [k \in 1 .. Cardinality(cut) |-> AgainOf(tasks, KthOf(cut, k))]
  <2>1. cut \in SUBSET DOMAIN tasks
    BY DEF With
  <2>2. bodies' = bodies /\ tasks' \in {tasks, tasks \o more}
    BY <1>3 DEF Approve
  <2> HIDE DEF cut
  <2>3. more \in Seq(TaskRows) /\ \A i \in 1 .. Len(more) : more[i].status = "queued"
    BY <1>1, <2>1, AgainsAre
  <2> HIDE DEF more
  <2> QED BY <1>1, <2>2, <2>3, AddedSays
<1>4. CASE Stop
  BY <1>1, <1>4 DEF Stop
<1>5. ASSUME NEW t \in DOMAIN tasks, Retry(t) PROVE AllSaid(tasks') /\ bodies' = bodies
  <2>1. RetryOf(tasks, t) \in TaskRows /\ RetryOf(tasks, t).status = "queued"
    BY <1>1, RetryOfIs
  <2>2. tasks' = Append(tasks, RetryOf(tasks, t)) /\ bodies' = bodies
    BY <1>5 DEF Retry
  <2> DEFINE more == <<RetryOf(tasks, t)>>
  <2>3. more \in Seq(TaskRows) /\ (\A i \in 1 .. Len(more) : more[i].status = "queued") /\ tasks' = tasks \o more
    BY <1>1, <2>1, <2>2
  <2> HIDE DEF more
  <2> QED BY <1>1, <2>2, <2>3, AddedSays
<1>6. ASSUME NEW t \in DOMAIN tasks, Cancel(t) PROVE AllSaid(tasks') /\ bodies' = bodies
  BY <1>1, <1>6, FinishSays DEF Cancel, memory, Statuses
<1>7. ASSUME NEW plan \in ResumeRows(DOMAIN tasks), PutBack(plan) PROVE AllSaid(tasks') /\ bodies' = bodies
  <2> DEFINE back == {t \in plan.fresh : ~tasks[t].started /\ tasks[t].status \in {"failed", "stopped", "skipped"}}
             new(row) == [row EXCEPT !.status = "queued", !.verdict = "none", !.by = "none", !.cut = FALSE]
             e(t) == IF t \in back THEN new(tasks[t]) ELSE tasks[t]
             put == [t \in DOMAIN tasks |-> e(t)]
             more == [k \in 1 .. Cardinality(plan.anew) |-> AgainOf(tasks, KthOf(plan.anew, k))]
  <2>1. bodies' = bodies /\ tasks' = put \o more
    BY <1>7 DEF PutBack
  <2>2. plan.anew \in SUBSET DOMAIN tasks
    BY DEF ResumeRows
  <2>3. more \in Seq(TaskRows) /\ \A i \in 1 .. Len(more) : more[i].status = "queued"
    BY <1>1, <2>2, AgainsAre
  <2> HIDE DEF more
  <2>4. \A row \in TaskRows : new(row) \in TaskRows /\ new(row).status = "queued"
    BY ZenonT(40) DEF TaskRows, Statuses
  <2> HIDE DEF new, back
  <2>5. \A t \in DOMAIN tasks : e(t) \in TaskRows /\ Said(e(t))
    BY <1>1, <2>4 DEF AllSaid, Said
  <2>6. DOMAIN tasks = 1 .. Len(tasks) /\ Len(tasks) \in Nat
    BY <1>1
  <2> HIDE DEF e
  <2>7. put \in Seq(TaskRows) /\ AllSaid(put)
    BY <2>5, <2>6 DEF AllSaid
  <2> HIDE DEF put
  <2> QED BY <2>1, <2>3, <2>7, AddedSays
<1>8. CASE Resuming
  <2>1. \/ \E p \in Callers : PutBack(resumes[p])
        \/ \E from : PutBack(Plan(from))
        \/ UNCHANGED <<tasks, bodies>>
    BY <1>8 DEF Resuming, Restored, RestoreFails, Resume, rows
  <2>2. \A from : Plan(from) \in ResumeRows(DOMAIN tasks)
    BY DEF Plan, ResumeRows, Again, Behind
  <2> QED BY <1>1, <1>7, <2>1, <2>2
<1> QED BY <1>3, <1>4, <1>5, <1>6, <1>8 DEF Request

\* A loop calls off, starts, skips and adds: it fails nothing.
LEMMA LoopSays ==
    ASSUME IInv, Failures, Kept, NEW d \in Drivers, Loop(d)
    PROVE  Failures'
<1>1. TypeOK /\ tasks \in Seq(TaskRows) /\ AllSaid(tasks)
  BY DEF Failures, IInv, TypeOK
<1>2. ASSUME NEW ts \in Seq(TaskRows), AllSaid(ts) PROVE AllSaid(CallOff(ts)) /\ CallOff(ts) \in Seq(TaskRows)
  BY <1>2, FinishIs, FinishSays DEF CallOff, Statuses
<1>3. CASE LoopStopped(d) \/ LoopDrained(d)
  <2>1. bodies' = bodies /\ tasks' \in {tasks, CallOff(tasks), CallOff(CallOff(tasks))}
    BY <1>3 DEF LoopStopped, LoopDrained, Leave, Wait
  <2> QED BY <1>1, <1>2, <2>1, JudgingKeeps
<1>4. CASE LoopPass(d)
  <2> DEFINE begun == Begin(tasks, PassStart(d))
             planned == Finish(begun, PassPlans(d), "success")
             walked == Finish(planned, PassSkip(d), "skipped")
  <2>1. bodies' = bodies \cup TurnsOf(d, PassStart(d) \ PassPlans(d))
    BY <1>4, PassIs
  <2>2. PICK n \in PassSteps(d) : tasks' \in {PassRows(d, n), CallOff(PassRows(d, n))}
    BY <1>4, PassIs DEF Leave, Wait
  <2> DEFINE more == PassAdds(d, n)
  <2>3. more \in Seq(TaskRows) /\ \A i \in 1 .. Len(more) : more[i].status = "queued"
    BY PassAddsAre
  <2>4. AllSaid(begun) /\ begun \in Seq(TaskRows)
    BY <1>1, BeginIs, BeginSays
  <2> HIDE DEF begun
  <2>5. AllSaid(planned) /\ planned \in Seq(TaskRows)
    BY <2>4, FinishIs, FinishSays DEF Statuses
  <2> HIDE DEF planned
  <2>6. AllSaid(walked) /\ walked \in Seq(TaskRows)
    BY <2>5, FinishIs, FinishSays DEF Statuses
  <2> HIDE DEF walked, more
  <2>7. AllSaid(walked \o more) /\ walked \o more \in Seq(TaskRows)
    BY <2>3, <2>6, AddedSays, AddedIs
  <2>8. tasks' \in {walked \o more, CallOff(walked \o more)}
    BY <2>2 DEF PassRows, Walk, walked, planned, begun, more
  <2>9. AllSaid(tasks')
    BY <1>2, <2>7, <2>8
  <2>10. \A b \in bodies' : b \in bodies \/ b.stage # "judge"
    BY <2>1 DEF TurnsOf
  <2> QED BY <2>9, <2>10, JudgingKeeps
<1> QED BY <1>3, <1>4 DEF Loop

LEMMA NextSays ==
    ASSUME IInv, Failures, [Next]_vars
    PROVE  Failures'
<1>1. Kept
  BY NextKeeps
<1>2. tasks \in Seq(TaskRows) /\ AllSaid(tasks)
  BY DEF IInv, TypeOK, Failures
<1>3. ASSUME UNCHANGED <<tasks, bodies>> PROVE Failures'
  BY <1>3 DEF Failures
<1>4. CASE UNCHANGED vars \/ OpenThread \/ Rest \/ \E level \in {"near", "over"} : Spend(level)
  BY <1>3, <1>4 DEF vars, rows, memory, OpenThread, Rest, Spend
<1>5. CASE Crash
  <2>1. tasks' = Finish(tasks, With(tasks, "running"), "queued") /\ bodies' = {}
    BY <1>5 DEF Crash
  <2> QED BY <1>2, <2>1, FinishSays DEF Failures, Statuses
<1> QED BY <1>1, <1>4, <1>5, LoopSays, BodySays, RequestSays DEF Next

LEMMA InitSays == Init => Failures
<1> SUFFICES ASSUME Init PROVE Failures
  OBVIOUS
<1>1. bodies = {} /\ \A t \in DOMAIN tasks : tasks[t].status = "queued"
  BY EngineAssumption DEF Init
<1> QED BY <1>1 DEF Failures, AllSaid, Said

\* The worst of some verdicts is one of them.
LEMMA WorstIs ==
    ASSUME NEW judged \in SUBSET VerdictValues, NEW bad \in judged, bad \in {"needs-user", "failed"}
    PROVE  (CHOOSE v \in judged : \A w \in judged : Badness(w) <= Badness(v)) \in {"needs-user", "failed"}
<1>1. /\ Badness("verified") = 1 /\ Badness("unverified") = 2
      /\ Badness("needs-user") = 3 /\ Badness("failed") = 4
  BY DEF Badness
<1>2. \A v \in judged : v \in {"verified", "unverified", "needs-user", "failed"}
  BY DEF VerdictValues
<1>3. \E v \in judged : \A w \in judged : Badness(w) <= Badness(v)
  <2>1. CASE "failed" \in judged
    BY <1>1, <1>2, <2>1
  <2>2. CASE "failed" \notin judged
    <3>1. bad = "needs-user"
      BY <2>2
    <3> QED BY <1>1, <1>2, <2>2, <3>1
  <2> QED BY <2>1, <2>2
<1> DEFINE worst == CHOOSE v \in judged : \A w \in judged : Badness(w) <= Badness(v)
<1>4. worst \in judged /\ Badness(bad) <= Badness(worst)
  BY <1>3
<1> HIDE DEF worst
<1>5. worst \in {"needs-user", "failed"}
  BY <1>1, <1>2, <1>4
<1> QED BY <1>5 DEF worst

\* However checks, auditors, retries and resumes judge a run, its verdict is
\* never better than the failure of an agent or a check that still stands in
\* it: applyVerdict and runVerdict hide none.
THEOREM FailuresAreJudged == Spec => []FailureIsJudged
<1>1. ASSUME IInv, Failures PROVE FailureIsJudged
  <2> SUFFICES ASSUME NEW t \in Standing(tasks), tasks[t].status = "failed",
                      tasks[t].kind \in {"agent", "verify"}
               PROVE  RunVerdict(tasks) \in {"needs-user", "failed"}
    BY DEF FailureIsJudged
  <2> DEFINE judged == {tasks[u].verdict : u \in {w \in Standing(tasks) : tasks[w].verdict # "none"}}
  <2>1. tasks[t].verdict \in {"needs-user", "failed"}
    BY <1>1 DEF Failures, AllSaid, Said, Standing
  <2>2. tasks[t].verdict \in judged
    BY <2>1
  <2>3. judged \in SUBSET VerdictValues
    <3>1. \A u \in DOMAIN tasks : tasks[u] \in TaskRows
      BY <1>1 DEF IInv, TypeOK
    <3>2. \A u \in DOMAIN tasks : tasks[u].verdict \in VerdictValues \cup {"none"}
      BY <3>1 DEF TaskRows
    <3> QED BY <3>2 DEF Standing
  <2>4. RunVerdict(tasks) = (CHOOSE v \in judged : \A w \in judged : Badness(w) <= Badness(v))
    BY <2>2 DEF RunVerdict
  <2> HIDE DEF judged
  <2> QED BY <2>1, <2>2, <2>3, <2>4, WorstIs
<1>2. IInv /\ Failures /\ [Next]_vars => Failures'
  BY NextSays
<1>3. IInv /\ Failures => FailureIsJudged
  BY <1>1
<1> QED BY Invariance, InitSays, <1>2, <1>3, PTL DEF Spec

------------------------------------------------------------------------------
(* One task at a time.  What follows is about a run that works on one task *)
(* after the other (Serial), as a plan written as a list makes it.  A      *)
(* retry and a resume do not meet, nor do two resumes: two calls that met  *)
(* while a folder is restored would each start a driver (two_drivers).     *)

LoneCalls == "resume" \in Calls => "retry" \notin Calls /\ \A p, q \in Callers : p = q

On(d) == drivers[d].pc # "left"
Held  == run.status = "awaiting" /\ run.paused = "request"

\* A run that is held waits for the agent whose turn it is.
Asking(d) ==
    \A t \in drivers[d].waiting :
        tasks[t].kind = "agent" /\ \E b \in bodies : b.task = t /\ b.drv = d /\ b.stage = "turn"

\* A loop that something pauses has said why, and goes round to leave.
Told(d) == drivers[d].pause # "none" => drivers[d].pc = "loop" /\ run.paused \notin {"none", "request"}

\* A loop that goes round beside the body it started, because it skipped a
\* task or unrolled a plan, finds nothing to pause for that it had not found.
Beside(d) ==
    drivers[d].pc = "loop" /\ bodies # {} =>
        /\ run.status = "running" /\ ~stopping /\ drivers[d].waiting = {} /\ drivers[d].pause = "none"
        /\ ~AtBudget(drivers[d]) /\ ~Nears(drivers[d])

(***************************************************************************)
(* One driver at most, and it waits only while its task's body goes on. It *)
(* drives a run that is running, or held for as long as its turn waits for *)
(* a person; a run that is running or asked to stop has it or is about to, *)
(* and a run somebody picks up is over.                                    *)
(***************************************************************************)
Alone ==
    /\ \A d, e \in Drivers : On(d) /\ On(e) => d = e
    /\ \A b \in bodies : On(b.drv)
    /\ \A d \in Drivers : drivers[d].pc = "wait" => \E b \in bodies : b.drv = d
    /\ opening => run.status = "running" /\ \A d \in Drivers : ~On(d)
    /\ \A d \in Drivers : On(d) => /\ run.status = "running" \/ Held
                                   /\ Held <=> drivers[d].waiting # {}
                                   /\ Asking(d) /\ Told(d) /\ Beside(d)
    /\ Held \/ run.status = "running" \/ stopping => opening \/ \E d \in Drivers : On(d)
    /\ \A p \in Callers : resumes[p].open => ~Active /\ "resume" \in Calls
    /\ AwaitingSaysWhy

\* The states a step leaves: nobody drives,
LEMMA AtRest ==
    ASSUME \A d \in Drivers : ~On(d)', bodies' = {}, ~opening', ~stopping', run'.status # "running",
           AwaitingSaysWhy', ~Held',
           \A p \in Callers : resumes'[p].open => ~Active' /\ "resume" \in Calls
    PROVE  Alone'
BY DEF Alone, On

\* or one loop does, about to go round,
LEMMA Looping ==
    ASSUME NEW d \in Drivers, drivers'[d].pc = "loop", \A e \in Drivers \ {d} : ~On(e)',
           \A b \in bodies' : b.drv = d, bodies' # {} => Beside(d)',
           ~opening', run'.status = "running", drivers'[d].waiting = {},
           drivers'[d].pause # "none" => run'.paused \notin {"none", "request"},
           \A p \in Callers : ~resumes'[p].open
    PROVE  Alone'
<1>1. Beside(d)'
  BY DEF Beside
<1> QED BY <1>1 DEF Alone, On, Told, Asking, Held, AwaitingSaysWhy

\* or waiting for the one body there is.
LEMMA Waiting ==
    ASSUME NEW d \in Drivers, drivers'[d].pc = "wait", \A e \in Drivers \ {d} : ~On(e)',
           NEW b \in bodies', \A f \in bodies' : f = b, b.drv = d,
           ~opening', run'.status = "running" \/ Held', drivers'[d].pause = "none",
           Held' <=> drivers'[d].waiting # {}, Asking(d)',
           \A p \in Callers : ~resumes'[p].open
    PROVE  Alone'
<1>1. Beside(d)'
  BY DEF Beside
<1> QED BY <1>1 DEF Alone, On, Told, Held, AwaitingSaysWhy

\* What a body finds: its driver waits for it, nothing paused the run, and
\* once its turn no longer waits for a person the run is not held.
LEMMA BodyAlone ==
    ASSUME IInv, Alone, Serial, Quiet, NEW b \in bodies
    PROVE  /\ b.drv \in Drivers /\ drivers[b.drv].pc = "wait" /\ drivers[b.drv].pause = "none"
           /\ \A d \in Drivers \ {b.drv} : ~On(d)
           /\ ~opening /\ bodies = {b} /\ \A p \in Callers : ~resumes[p].open
           /\ drivers[b.drv].waiting \subseteq {b.task}
           /\ b.stage # "turn" \/ tasks[b.task].kind # "agent" => drivers[b.drv].waiting = {} /\ run.status = "running"
           /\ After(b).waiting = {} /\ After(b).pc = "wait" /\ After(b).pause = "none"
           /\ Released(b).status = "running"
<1>1. /\ b.drv \in Drivers /\ drivers[b.drv].pc = "wait" /\ run \in RunRows
      /\ drivers[b.drv] \in Contexts(DOMAIN tasks)
  <2>1. b.drv \in Drivers /\ run \in RunRows /\ drivers[b.drv] \in Contexts(DOMAIN tasks)
    BY BodyIs
  <2>2. On(b.drv)
    BY DEF Alone
  <2>3. drivers[b.drv].pc \in {"loop", "wait", "left"}
    BY <2>1 DEF Contexts
  <2> QED BY <2>1, <2>2, <2>3 DEF On, Quiet
<1>2. On(b.drv)
  BY <1>1 DEF On
<1>3. /\ \A d \in Drivers \ {b.drv} : ~On(d)
      /\ ~opening /\ drivers[b.drv].pause = "none"
      /\ run.status = "running" \/ Held
      /\ Held <=> drivers[b.drv].waiting # {}
      /\ Asking(b.drv)
  BY <1>1, <1>2 DEF Alone, Told
<1>4. bodies = {b}
  BY DEF Serial
<1>5. \A p \in Callers : ~resumes[p].open
  BY <1>3 DEF Alone, Active, Held
<1>6. \A t \in drivers[b.drv].waiting : tasks[t].kind = "agent" /\ b.task = t /\ b.stage = "turn"
  BY <1>3, <1>4 DEF Asking
<1>7. /\ After(b).waiting = drivers[b.drv].waiting \ {b.task}
      /\ After(b).pc = drivers[b.drv].pc /\ After(b).pause = drivers[b.drv].pause
  BY <1>1 DEF After, Contexts
<1>8. Released(b).status = "running"
  <2>1. CASE drivers[b.drv].waiting = {}
    BY <1>3, <2>1 DEF Released, Held
  <2>2. CASE drivers[b.drv].waiting # {}
    <3>1. drivers[b.drv].waiting = {b.task} /\ Held
      BY <1>3, <1>6, <2>2
    <3> QED BY <1>1, <3>1 DEF Released, Held, RunRows
  <2> QED BY <2>1, <2>2
<1>9. b.stage # "turn" \/ tasks[b.task].kind # "agent" => drivers[b.drv].waiting = {} /\ run.status = "running"
  BY <1>3, <1>6
<1> QED BY <1>1, <1>3, <1>4, <1>5, <1>6, <1>7, <1>8, <1>9

\* The run goes on, or is held with its rows as they were.
Goes == UNCHANGED stopping /\ (run'.status = "running" \/ (Held' /\ UNCHANGED tasks))

\* A body that settles, or goes on to its next await.
LEMMA SettlesAlone ==
    ASSUME IInv, Alone, Serial, Quiet, NEW b \in bodies, NEW c \in Contexts(DOMAIN tasks), NEW ts, NEW r,
           c.pc = "wait", c.waiting = {}, r.status = "running",
           c.pause # "none" => r.paused \notin {"none", "request"}, Settles(b, c, ts, r)
    PROVE  Alone' /\ Goes
<1>1. /\ b.drv \in Drivers /\ bodies = {b} /\ \A d \in Drivers \ {b.drv} : ~On(d)
      /\ ~opening /\ \A p \in Callers : ~resumes[p].open
  BY BodyAlone
<1>2. /\ drivers' = [drivers EXCEPT ![b.drv] = [c EXCEPT !.pc = "loop"]]
      /\ bodies' = {} /\ run' = r /\ UNCHANGED <<opening, resumes, stopping>>
  BY <1>1 DEF Settles, elsewhere
<1>3. /\ drivers'[b.drv] = [c EXCEPT !.pc = "loop"]
      /\ \A d \in Drivers \ {b.drv} : drivers'[d] = drivers[d]
  BY <1>1, <1>2 DEF IInv, TypeOK
<1>4. /\ drivers'[b.drv].pc = "loop" /\ drivers'[b.drv].waiting = {} /\ drivers'[b.drv].pause = c.pause
      /\ \A d \in Drivers \ {b.drv} : ~On(d)'
  BY <1>1, <1>3 DEF Contexts, On
<1> QED BY <1>1, <1>2, <1>4, Looping DEF Goes

LEMMA GoesOnAlone ==
    ASSUME IInv, Alone, Serial, Quiet, NEW b \in bodies, NEW c \in Contexts(DOMAIN tasks), NEW ts, NEW r,
           NEW stage, c.pc = "wait", c.waiting = {}, c.pause = "none", r.status = "running",
           GoesOn(b, stage, c, ts, r)
    PROVE  Alone' /\ Goes
<1>1. /\ b.drv \in Drivers /\ bodies = {b} /\ \A d \in Drivers \ {b.drv} : ~On(d)
      /\ ~opening /\ \A p \in Callers : ~resumes[p].open
  BY BodyAlone
<1> DEFINE f == [b EXCEPT !.stage = stage]
<1>2. /\ drivers' = [drivers EXCEPT ![b.drv] = c]
      /\ bodies' = {f} /\ run' = r /\ UNCHANGED <<opening, resumes, stopping>>
  BY <1>1 DEF GoesOn, elsewhere
<1>3. f.drv = b.drv
  BY DEF IInv, TypeOK, BodyRows
<1> HIDE DEF f
<1>4. drivers'[b.drv] = c /\ \A d \in Drivers \ {b.drv} : drivers'[d] = drivers[d]
  BY <1>1, <1>2 DEF IInv, TypeOK
<1>5. \A d \in Drivers \ {b.drv} : ~On(d)'
  BY <1>1, <1>4 DEF On
<1>6. ~Held' /\ Asking(b.drv)'
  BY <1>2, <1>4 DEF Held, Asking
<1> QED BY <1>1, <1>2, <1>3, <1>4, <1>5, <1>6, Waiting DEF Goes

\* A body moves on only when no loop is about to go round.
LEMMA BodyIsQuiet ==
    ASSUME NEW b \in bodies, Body(b)
    PROVE  Quiet
BY DEF Body, Ask, Answered, TurnEnds, GoOn, TurnFails, TurnStops, TurnHalts, TurnCut, TurnSucceeds,
       TurnBreaks, Check, CheckEnds, Judge, Note, Close, CloseCut, InTurn, At

LEMMA BodyKeepsAlone ==
    ASSUME IInv, Alone, Serial, NEW b \in bodies, Body(b)
    PROVE  Alone' /\ (Goes \/ TurnBreaks(b))
<1>0. Quiet
  BY BodyIsQuiet
<1> DEFINE c == drivers[b.drv]
           Ends(e, r) == \E ts : \/ Settles(b, e, ts, r)
                                 \/ \E stage : e.pause = "none" /\ GoesOn(b, stage, e, ts, r)
           Fit(e) == e \in Contexts(DOMAIN tasks) /\ e.pc = "wait" /\ e.waiting = {}
<1>1. /\ c \in Contexts(DOMAIN tasks) /\ b.drv \in Drivers /\ b.task \in DOMAIN tasks /\ run \in RunRows
      /\ After(b) \in Contexts(DOMAIN tasks) /\ Released(b) \in RunRows
  BY BodyIs
<1>2. /\ c.pc = "wait" /\ c.pause = "none" /\ \A d \in Drivers \ {b.drv} : ~On(d)
      /\ ~opening /\ bodies = {b} /\ \A p \in Callers : ~resumes[p].open
      /\ b.stage # "turn" \/ tasks[b.task].kind # "agent" => c.waiting = {} /\ run.status = "running"
      /\ Fit(After(b)) /\ After(b).pause = "none" /\ Released(b).status = "running"
  BY <1>0, <1>1, BodyAlone
<1> HIDE DEF c
<1>3. ASSUME NEW e, Fit(e), NEW r, r.status = "running", Ends(e, r),
             e.pause # "none" => r.paused \notin {"none", "request"}
      PROVE  Alone' /\ Goes
  BY <1>0, <1>3, SettlesAlone, GoesOnAlone
<1>4. ASSUME NEW e, Fit(e)
      PROVE  /\ \A x \in BOOLEAN : /\ Fit([e EXCEPT !.failure = x]) /\ [e EXCEPT !.failure = x].pause = e.pause
                                   /\ Fit([e EXCEPT !.halted = x]) /\ [e EXCEPT !.halted = x].pause = e.pause
             /\ \A N \in SUBSET DOMAIN tasks : /\ Fit([e EXCEPT !.notes = N])
                                               /\ [e EXCEPT !.notes = N].pause = e.pause
             /\ \A why \in Pauses \ {"request"} : /\ Fit([e EXCEPT !.pause = why])
                                                  /\ [e EXCEPT !.pause = why].pause = why
  BY <1>4 DEF Contexts
<1>5. ASSUME NEW e, Fit(e)
      PROVE  Fit([e EXCEPT !.notes = @ \cup {b.task}]) /\ [e EXCEPT !.notes = @ \cup {b.task}].pause = e.pause
  <2>1. e.notes \cup {b.task} \in SUBSET DOMAIN tasks
    BY <1>1, <1>5 DEF Contexts
  <2> QED BY <1>4, <1>5, <2>1
\* A budget's pause is said, and leaves the run running.
<1>6. ASSUME NEW e, Fit(e), e.pause = "none", run.status = "running"
      PROVE  /\ Fit(PausedAtBudget(e)) /\ HeldAtBudget(e, run).status = "running"
             /\ PausedAtBudget(e).pause # "none" => HeldAtBudget(e, run).paused \notin {"none", "request"}
  <2>1. "budget" \in Pauses \ {"request"}
    BY DEF Pauses
  <2>2. AtBudget(e) => PausedAtBudget(e).pause = "budget" /\ Fit(PausedAtBudget(e))
    BY <1>4, <1>6, <2>1 DEF PausedAtBudget
  <2>3. ~AtBudget(e) => PausedAtBudget(e) = e
    BY DEF PausedAtBudget
  <2>4. /\ HeldAtBudget(e, run).status = "running"
        /\ AtBudget(e) => HeldAtBudget(e, run).paused = "budget"
    BY <1>1, <1>6 DEF HeldAtBudget, Paused, RunRows
  <2> QED BY <1>6, <2>2, <2>3, <2>4
<1> HIDE DEF Fit
<1> HIDE DEF Ends
<1>7. CASE Ask(b) \/ Answered(b)
  <2>1. PICK W \in {c.waiting \cup {b.task}, c.waiting \ {b.task}} :
           drivers' = [drivers EXCEPT ![b.drv] = [c EXCEPT !.waiting = W]]
    BY <1>7 DEF Ask, Answered, After, c
  <2>2. /\ drivers'[b.drv] = [c EXCEPT !.waiting = W]
        /\ \A d \in Drivers \ {b.drv} : drivers'[d] = drivers[d]
    BY <1>1, <2>1 DEF IInv, TypeOK
  <2>3. /\ drivers'[b.drv].pc = "wait" /\ drivers'[b.drv].pause = "none" /\ drivers'[b.drv].waiting = W
        /\ \A d \in Drivers \ {b.drv} : ~On(d)'
    BY <1>1, <1>2, <2>2 DEF Contexts, On
  <2>4. /\ UNCHANGED <<bodies, opening, resumes, tasks, stopping>>
        /\ b.stage = "turn" /\ tasks[b.task].kind = "agent"
    BY <1>7 DEF Ask, Answered, InTurn, At, elsewhere
  <2>5. c.waiting \subseteq {b.task}
    BY <1>0, BodyAlone DEF c
  <2>6. (run'.status = "running" \/ Held') /\ (Held' <=> W # {})
    <3>1. CASE Ask(b)
      <4>1. W = {b.task} /\ c.waiting = {}
        <5>1. drivers'[b.drv].waiting = c.waiting \cup {b.task}
          BY <1>1, <3>1 DEF Ask, IInv, TypeOK, Contexts, c
        <5> QED BY <2>3, <2>5, <3>1, <5>1 DEF Ask, c
      <4>2. run.status = "running"
        BY <1>2, <4>1 DEF Released, c
      <4>3. run' = [run EXCEPT !.status = "awaiting", !.paused = "request"]
        BY <3>1, <4>1, <4>2 DEF Ask, c
      <4>4. Held'
        BY <1>1, <4>3 DEF Held, RunRows
      <4> QED BY <4>1, <4>4
    <3>2. CASE Answered(b)
      <4>1. run' = Released(b) /\ drivers'[b.drv] = After(b)
        BY <1>1, <3>2 DEF Answered, IInv, TypeOK
      <4>2. W = {}
        BY <1>2, <2>3, <4>1 DEF Fit
      <4> QED BY <1>2, <4>1, <4>2 DEF Held
    <3> QED BY <1>7, <3>1, <3>2
  <2>7. Asking(b.drv)'
    BY <2>3, <2>4, <2>5, <2>1 DEF Asking
  <2> QED BY <1>1, <1>2, <2>3, <2>4, <2>6, <2>7, Waiting DEF Goes
<1>8. CASE TurnFails(b)
  <2>1. PICK x \in BOOLEAN : Ends([After(b) EXCEPT !.failure = x], Released(b))
    <3>1. After(b).failure \in BOOLEAN
      BY <1>1, ContextIs
    <3>2. \A off \in BOOLEAN : (After(b).failure \/ ~off) \in BOOLEAN
      BY <3>1
    <3> QED BY <1>8, <3>2 DEF TurnFails, Ends
  <2>2. Fit([After(b) EXCEPT !.failure = x]) /\ [After(b) EXCEPT !.failure = x].pause = "none"
    BY <1>2, <1>4
  <2> QED BY <1>2, <1>3, <2>1, <2>2
<1>9. CASE TurnStops(b)
  BY <1>2, <1>3, <1>9 DEF TurnStops, Ends
<1>10. CASE TurnHalts(b)
  <2>1. Ends([After(b) EXCEPT !.halted = TRUE], run) /\ run.status = "running"
    BY <1>2, <1>10 DEF TurnHalts, InTurn, Ends
  <2>2. Fit([After(b) EXCEPT !.halted = TRUE]) /\ [After(b) EXCEPT !.halted = TRUE].pause = "none"
    BY <1>2, <1>4
  <2> QED BY <1>3, <2>1, <2>2
<1>11. CASE TurnCut(b)
  BY <1>2, <1>3, <1>11 DEF TurnCut, Ends
<1>12. CASE TurnSucceeds(b)
  <2>1. CASE \E ts, stage : GoesOn(b, stage, After(b), ts, Released(b))
    BY <1>2, <1>3, <2>1 DEF Ends
  <2>2. CASE /\ \E ts, stage : GoesOn(b, stage, [After(b) EXCEPT !.notes = @ \cup {b.task}], ts, run)
             /\ run.status = "running"
    <3> DEFINE e == [After(b) EXCEPT !.notes = @ \cup {b.task}]
    <3>1. Fit(e) /\ e.pause = "none"
      BY <1>2, <1>5
    <3>2. Ends(e, run)
      BY <2>2, <3>1 DEF Ends
    <3> QED BY <1>3, <2>2, <3>1, <3>2
  <2> QED BY <1>2, <1>12, <2>1, <2>2 DEF TurnSucceeds, InTurn
<1>13. CASE TurnBreaks(b)
  <2>1. /\ drivers' = [drivers EXCEPT ![b.drv].pc = "left"] /\ bodies' = {}
        /\ run' = [run EXCEPT !.status = "failed"] /\ stopping' = FALSE
        /\ UNCHANGED <<opening, resumes>>
    BY <1>2, <1>13 DEF TurnBreaks, c
  <2>2. \A d \in Drivers : ~On(d)'
    BY <1>1, <1>2, <2>1 DEF On, IInv, TypeOK, Contexts
  <2>3. run'.status = "failed"
    BY <1>1, <2>1 DEF RunRows
  <2> QED BY <1>2, <2>1, <2>2, <2>3, <1>13, AtRest DEF AwaitingSaysWhy, Held
<1>14. ASSUME NEW ok \in BOOLEAN, NEW v \in VerdictValues, CheckEnds(b, ok, v) PROVE Alone' /\ Goes
  <2> DEFINE e == [After(b) EXCEPT !.notes = @ \cup {b.task}]
             x == ~ExpectsFailure(tasks, tasks[b.task].name)
  <2>1. Fit(e) /\ e.pause = "none"
    BY <1>2, <1>5
  <2>2. run.status = "running"
    BY <1>2, <1>14 DEF CheckEnds, InTurn
  <2> HIDE DEF e
  <2>3. \/ Ends(PausedAtBudget(e), HeldAtBudget(e, run))
        \/ Ends(e, run)
        \/ Ends([e EXCEPT !.failure = @ \/ x], run)
    BY <1>14, <2>1 DEF CheckEnds, Ends, e
  <2>4. (e.failure \/ x) \in BOOLEAN
    BY DEF ExpectsFailure
  <2>5. Fit([e EXCEPT !.failure = @ \/ x]) /\ [e EXCEPT !.failure = @ \/ x].pause = "none"
    BY <1>4, <2>1, <2>4
  <2> QED BY <1>3, <1>6, <2>1, <2>2, <2>3, <2>5
<1>15. CASE Judge(b) \/ Note(b) \/ Close(b) \/ CloseCut(b)
  <2>1. Fit(c) /\ c.pause = "none" /\ run.status = "running"
    BY <1>1, <1>2, <1>15 DEF Judge, Note, Close, CloseCut, At, Fit
  <2>2. \/ Ends(c, run) \/ Ends(PausedAtBudget(c), HeldAtBudget(c, run))
        \/ Ends([c EXCEPT !.notes = @ \cup {b.task}], run)
        \/ Ends([c EXCEPT !.pause = "gate"], Paused(run, "gate", FALSE))
    <3>1. [c EXCEPT !.notes = @ \cup {b.task}].pause = "none"
      BY <1>5, <2>1
    <3> QED BY <1>15, <2>1, <3>1 DEF Judge, Note, Close, CloseCut, Ends, c
  <2>3. CASE Ends([c EXCEPT !.pause = "gate"], Paused(run, "gate", FALSE))
    <3>1. "gate" \in Pauses \ {"request"}
      BY DEF Pauses
    <3>2. Paused(run, "gate", FALSE).status = "running" /\ Paused(run, "gate", FALSE).paused = "gate"
      BY <1>1, <2>1 DEF Paused, RunRows
    <3> QED BY <1>3, <1>4, <2>1, <2>3, <3>1, <3>2
  <2> QED BY <1>3, <1>5, <1>6, <2>1, <2>2, <2>3
<1>16. \A ok \in BOOLEAN, v \in VerdictValues : CheckEnds(b, ok, v) => Alone' /\ Goes
  BY <1>14
<1>17. Check(b) => \E ok \in BOOLEAN, v \in VerdictValues : CheckEnds(b, ok, v)
  BY DEF Check, VerdictValues
<1> QED BY <1>7, <1>8, <1>9, <1>10, <1>11, <1>12, <1>13, <1>15, <1>16, <1>17 DEF Body, TurnEnds, GoOn

\* A step that leaves the drivers, the bodies and the run's status alone.
LEMMA AsideAlone ==
    ASSUME IInv, Alone, Quiet, UNCHANGED <<drivers, bodies, opening>>, run'.status = run.status,
           run'.paused = run.paused \/ (run.status = "running" /\ run'.paused \notin {"none", "request"}),
           \A t \in DOMAIN tasks : tasks'[t].kind = tasks[t].kind,
           stopping' => stopping \/ run.status = "running" \/ Held,
           \A p \in Callers : resumes'[p].open => ~Active' /\ "resume" \in Calls
    PROVE  Alone'
<1>1. /\ Held' <=> Held
      /\ AwaitingSaysWhy'
  BY DEF Alone, Held, AwaitingSaysWhy
<1>2. ASSUME NEW d \in Drivers, On(d)
      PROVE  Asking(d)' /\ Told(d)' /\ Beside(d)'
  <2>1. drivers[d].waiting \subseteq DOMAIN tasks
    BY DEF IInv, TypeOK, Contexts
  <2> QED BY <1>2, <2>1 DEF Alone, Asking, Told, Beside, Quiet
<1> QED BY <1>1, <1>2 DEF Alone, On

\* Nobody drives, and somebody starts to.
LEMMA DrivesAlone ==
    ASSUME IInv, Alone, \A d \in Drivers : ~On(d), bodies' = bodies, NEW ts, Drive(run', ts),
           run'.status = "running", ~opening', \A p \in Callers : ~resumes'[p].open
    PROVE  Alone'
<1>1. PICK d \in Free : drivers' = [drivers EXCEPT ![d] = Entered(run', ts)]
  BY DEF Drive
<1>2. /\ Entered(run', ts).pc = "loop" /\ Entered(run', ts).waiting = {}
      /\ Entered(run', ts).pause = "none"
  BY DEF Entered, Off
<1>3. d \in Drivers /\ drivers'[d] = Entered(run', ts) /\ \A e \in Drivers \ {d} : drivers'[e] = drivers[e]
  BY <1>1 DEF Free, IInv, TypeOK
<1>4. bodies = {}
  <2>1. \A b \in bodies : b.drv \in Drivers /\ On(b.drv)
    BY DEF Alone, IInv, TypeOK, BodyRows
  <2> QED BY <2>1
<1> QED BY <1>2, <1>3, <1>4, Looping DEF On

LEMMA RequestKeepsAlone ==
    ASSUME LoneCalls, IInv, Alone, OpenThread \/ Request
    PROVE  Alone'
<1>1. /\ tasks \in Seq(TaskRows) /\ run \in RunRows /\ drivers \in [Drivers -> Contexts(DOMAIN tasks)]
      /\ resumes \in [Callers -> ResumeRows(DOMAIN tasks)]
  BY DEF IInv, TypeOK
\* Nobody drives a run that is over, or waits for a person at a gate.
<1>2. ASSUME ~(run.status = "running" \/ Held) PROVE (\A d \in Drivers : ~On(d)) /\ ~opening
  BY <1>2 DEF Alone
<1>3. ASSUME Active PROVE \A p \in Callers : ~resumes[p].open
  BY <1>3 DEF Alone
<1>4. CASE OpenThread
  <2>1. bodies' = bodies /\ run' = run /\ Drive(run', tasks) /\ ~opening' /\ resumes' = resumes
    BY <1>4 DEF OpenThread, rows
  <2>2. (\A d \in Drivers : ~On(d)) /\ run.status = "running"
    BY <1>4 DEF OpenThread, Alone
  <2>3. \A p \in Callers : ~resumes'[p].open
    BY <1>3, <2>1, <2>2 DEF Active
  <2> QED BY <2>1, <2>2, <2>3, DrivesAlone
<1>5. CASE Approve
  <2>1. /\ bodies' = bodies /\ opening' = opening /\ resumes' = resumes
        /\ run.status = "awaiting" /\ run.paused # "request"
        /\ run' = [IF run.paused = "budget" THEN [Paused(run, "none", FALSE) EXCEPT !.approved = TRUE]
                   ELSE run EXCEPT !.status = "running"]
        /\ \E ts : Drive(run', ts)
    BY <1>5 DEF Approve
  <2>2. run'.status = "running"
    BY <1>1, <2>1 DEF RunRows, Paused
  <2>3. (\A d \in Drivers : ~On(d)) /\ ~opening /\ \A p \in Callers : ~resumes[p].open
    BY <1>2, <1>3, <2>1 DEF Held, Active
  <2> QED BY <2>1, <2>2, <2>3, DrivesAlone
<1>6. CASE Stop
  <2>1. UNCHANGED <<tasks, drivers, bodies, opening, resumes>> /\ Quiet
    BY <1>6 DEF Stop, Asked
  <2>2. CASE /\ run.status = "awaiting" /\ run.paused # "request"
             /\ run' = [run EXCEPT !.status = "stopped"] /\ stopping' = FALSE
    <3>1. run'.status = "stopped"
      BY <1>1, <2>2 DEF RunRows
    <3>2. (\A d \in Drivers : ~On(d)) /\ ~opening /\ \A p \in Callers : ~resumes[p].open
      BY <1>2, <1>3, <2>2 DEF Held, Active
    <3>3. bodies = {}
      <4>1. \A b \in bodies : b.drv \in Drivers /\ On(b.drv)
        BY DEF Alone, IInv, TypeOK, BodyRows
      <4> QED BY <3>2, <4>1
    <3>4. (\A d \in Drivers : ~On(d)') /\ AwaitingSaysWhy' /\ ~Held'
      BY <2>1, <3>1, <3>2 DEF On, AwaitingSaysWhy, Held
    <3> QED BY <2>1, <2>2, <3>1, <3>2, <3>3, <3>4, AtRest
  <2>3. CASE run' = run /\ (run.status = "running" \/ Held)
    <3>1. \A p \in Callers : ~resumes[p].open
      BY <1>3, <2>3 DEF Held, Active
    <3> QED BY <2>1, <2>3, <3>1, AsideAlone
  <2> QED BY <1>6, <2>2, <2>3 DEF Stop, Held
<1>7. ASSUME NEW t \in DOMAIN tasks, Retry(t) PROVE Alone'
  <2>1. /\ UNCHANGED <<bodies, opening, stopping, resumes>> /\ run' = Reopened(run) /\ Quiet
        /\ "retry" \in Calls /\ run.status # "awaiting"
        /\ tasks' = Append(tasks, RetryOf(tasks, t))
    BY <1>7 DEF Retry, Asked
  <2>2. \A p \in Callers : ~resumes[p].open
    BY <2>1 DEF LoneCalls, Alone
  <2>3. CASE run.status = "running"
    <3>1. run' = run /\ drivers' = drivers
      BY <1>7, <2>1, <2>3 DEF Retry, Reopened
    <3>2. \A u \in DOMAIN tasks : tasks'[u] = tasks[u]
      BY <1>1, <2>1
    <3> QED BY <2>1, <2>2, <3>1, <3>2, AsideAlone
  <2>4. CASE run.status # "running"
    <3>1. Drive(run', tasks') /\ run'.status = "running"
      BY <1>1, <1>7, <2>1, <2>4 DEF Retry, Reopened, RunRows
    <3>2. (\A d \in Drivers : ~On(d)) /\ ~opening
      BY <1>2, <2>1, <2>4 DEF Held
    <3> QED BY <2>1, <2>2, <3>1, <3>2, DrivesAlone
  <2> QED BY <2>3, <2>4
<1>8. ASSUME NEW t \in DOMAIN tasks, Cancel(t) PROVE Alone'
  <2>1. /\ UNCHANGED <<run, drivers, bodies, opening, stopping, resumes>> /\ Quiet
        /\ tasks' = Finish(tasks, {t}, "stopped")
    BY <1>8 DEF Cancel, memory, Asked
  <2>2. \A u \in DOMAIN tasks : tasks'[u].kind = tasks[u].kind
    <3>1. \A u \in DOMAIN tasks : tasks[u] \in TaskRows
      BY <1>1
    <3>2. \A u \in DOMAIN tasks : [tasks[u] EXCEPT !.status = "stopped"].kind = tasks[u].kind
      BY <3>1 DEF TaskRows
    <3> QED BY <2>1, <3>2 DEF Finish
  <2>3. Active' = Active
    BY <2>1 DEF Active
  <2> QED BY <2>1, <2>2, <2>3, AsideAlone DEF Alone
<1>9. ASSUME NEW plan, PutBack(plan), ~Active, \A p \in Callers : ~resumes'[p].open PROVE Alone'
  <2>1. bodies' = bodies /\ opening' = opening /\ run' = Reopened(run) /\ \E ts : Drive(run', ts)
    BY <1>9 DEF PutBack
  <2>2. (\A d \in Drivers : ~On(d)) /\ ~opening
    BY <1>2, <1>9 DEF Held, Active
  <2>3. run'.status = "running"
    BY <1>1, <1>9, <2>1 DEF Active, Reopened, RunRows
  <2> QED BY <1>9, <2>1, <2>2, <2>3, DrivesAlone
<1>10. ASSUME NEW p \in Callers, Restored(p) \/ RestoreFails(p) \/ \E from \in 0 .. Len(tasks) : Resume(p, from)
       PROVE  Alone'
  <2>1. "resume" \in Calls /\ Quiet /\ \A q \in Callers : q = p
    BY <1>10 DEF Restored, RestoreFails, Resume, Asked, LoneCalls
  <2>2. CASE Restored(p)
    <3>1. ~Active
      BY <2>2 DEF Restored, Alone
    <3>2. resumes' = [resumes EXCEPT ![p] = NoResume] /\ PutBack(resumes[p])
      BY <2>2 DEF Restored
    <3>3. \A q \in Callers : ~resumes'[q].open
      BY <1>1, <2>1, <3>2 DEF NoResume
    <3> QED BY <1>9, <3>1, <3>2, <3>3
  <2>3. ASSUME NEW from \in 0 .. Len(tasks), Resume(p, from), PutBack(Plan(from)), UNCHANGED resumes
        PROVE  Alone'
    <3>1. ~Active /\ ~resumes[p].open
      BY <2>3 DEF Resume
    <3> QED BY <1>9, <2>1, <2>3, <3>1
  <2>4. ASSUME ~Active, UNCHANGED <<rows, drivers, bodies, opening, stopping>>
        PROVE  Alone'
    <3>1. ~Active'
      BY <2>4 DEF Active, rows
    <3> QED BY <2>1, <2>4, <3>1, AsideAlone DEF rows
  <2>5. CASE RestoreFails(p)
    <3>1. ~Active
      BY <2>5 DEF RestoreFails, Alone
    <3> QED BY <2>4, <2>5, <3>1 DEF RestoreFails
  <2>6. ASSUME NEW from \in 0 .. Len(tasks), Resume(p, from)
        PROVE  Alone'
    BY <2>3, <2>4, <2>6 DEF Resume
  <2> QED BY <1>10, <2>2, <2>5, <2>6
<1> QED BY <1>4, <1>5, <1>6, <1>7, <1>8, <1>10 DEF Request, Resuming

LEMMA OthersKeepAlone ==
    ASSUME IInv, Alone, Crash \/ \E level : Spend(level)
    PROVE  Alone'
<1>1. run \in RunRows
  BY DEF IInv, TypeOK
<1>2. CASE Crash
  <2>1. /\ bodies' = {} /\ drivers' = [d \in Drivers |-> Off] /\ ~opening' /\ ~stopping'
        /\ run' = (IF Active THEN [run EXCEPT !.status = "failed"] ELSE run)
        /\ resumes' = [p \in Callers |-> NoResume]
    BY <1>2 DEF Crash
  <2>2. run'.status \notin {"running", "awaiting"}
    BY <1>1, <2>1 DEF Active, RunRows
  <2>3. (\A d \in Drivers : ~On(d)') /\ \A p \in Callers : ~resumes'[p].open
    BY <2>1 DEF On, Off, NoResume
  <2> QED BY <2>1, <2>2, <2>3, AtRest DEF AwaitingSaysWhy, Held
<1>3. ASSUME NEW level, Spend(level) PROVE Alone'
  <2>1. /\ UNCHANGED <<tasks, drivers, bodies, opening, stopping, resumes>> /\ Quiet
        /\ run' = run \/ (run.status = "running" /\ run' = Paused(run, "budget", TRUE))
    BY <1>3 DEF Spend
  <2>2. /\ run'.status = run.status
        /\ run'.paused = run.paused \/ (run.status = "running" /\ run'.paused = "budget")
    BY <1>1, <2>1 DEF RunRows, Paused
  <2>3. Active' = Active
    BY <2>2 DEF Active
  <2> QED BY <2>1, <2>2, <2>3, AsideAlone DEF Alone
<1> QED BY <1>2, <1>3

\* A pass that pauses its driver has said why on the run's row.
LEMMA PassTells ==
    ASSUME IInv, NEW d \in Drivers, drivers[d].pause # "none" => run.paused \notin {"none", "request"}
    PROVE  /\ PassContext(d).pause # "none" => PassRow(d).paused \notin {"none", "request"}
           /\ drivers[d].pause # "none" => PassContext(d).pause # "none"
           /\ PassRow(d).status = run.status
           /\ PassContext(d).waiting = drivers[d].waiting /\ PassContext(d).notes = drivers[d].notes
           /\ PassContext(d).failure = drivers[d].failure /\ PassContext(d).halted = drivers[d].halted
<1> DEFINE c == drivers[d]
           p == PausedAtBudget(c)
           h == HeldAtBudget(c, run)
<1>1. c \in Contexts(DOMAIN tasks) /\ run \in RunRows /\ Nearing(d) \in BOOLEAN
  BY DEF IInv, TypeOK, Nearing, Nears, AtBudget
<1>2. /\ p \in Contexts(DOMAIN tasks) /\ p.waiting = c.waiting /\ p.notes = c.notes
      /\ p.failure = c.failure /\ p.halted = c.halted
      /\ p.pause = IF AtBudget(c) THEN "budget" ELSE c.pause
  <2>1. p \in Contexts(DOMAIN tasks)
    BY <1>1, AtBudgetIs
  <2>2. p = IF AtBudget(c) THEN [c EXCEPT !.pause = "budget"] ELSE c
    BY DEF PausedAtBudget
  <2>3. LET q == [c EXCEPT !.pause = "budget"]
        IN /\ q.waiting = c.waiting /\ q.notes = c.notes /\ q.failure = c.failure
           /\ q.halted = c.halted /\ q.pause = "budget"
    BY <1>1 DEF Contexts
  <2> HIDE DEF c, p
  <2> QED BY <2>1, <2>2, <2>3
<1>3. /\ h \in RunRows /\ h.status = run.status
      /\ h.paused = IF AtBudget(c) /\ c.pause # "budget" THEN "budget" ELSE run.paused
  BY <1>1, AtBudgetIs, ZenonT(40) DEF HeldAtBudget, Paused, RunRows
<1> HIDE DEF p, h
<1>4. /\ PassContext(d).pause = IF Gating(d) THEN "threshold" ELSE p.pause
      /\ PassContext(d).waiting = p.waiting /\ PassContext(d).notes = p.notes
      /\ PassContext(d).failure = p.failure /\ PassContext(d).halted = p.halted
  BY <1>2 DEF PassContext, p, Contexts
<1>5. NearedRow(d) \in RunRows /\ NearedRow(d).status = h.status /\ NearedRow(d).paused = h.paused
  BY <1>1, <1>3 DEF NearedRow, h, RunRows
<1>6. /\ PassRow(d).status = run.status
      /\ PassRow(d).paused = IF Gating(d) THEN "threshold" ELSE h.paused
  BY <1>3, <1>5 DEF PassRow, Paused, RunRows
<1> QED BY <1>2, <1>3, <1>4, <1>6

\* A pass that pauses for nothing leaves nothing to pause for, and one that
\* finds nothing to pause for pauses for nothing.
LEMMA PassGoesOn ==
    ASSUME IInv, NEW d \in Drivers
    PROVE  /\ PassContext(d).pause = "none" => ~AtBudget(PassContext(d)) /\ ~Nears(PassContext(d))
           /\ drivers[d].pause = "none" /\ ~AtBudget(drivers[d]) /\ ~Nears(drivers[d]) =>
                 PassContext(d).pause = "none"
<1> DEFINE c == drivers[d]
           p == PausedAtBudget(c)
<1>1. c \in Contexts(DOMAIN tasks) /\ run \in RunRows /\ Nearing(d) \in BOOLEAN
  BY DEF IInv, TypeOK, Nearing, Nears, AtBudget
<1>2. ~AtBudget(c) => p = c
  BY DEF PausedAtBudget
<1>3. p \in Contexts(DOMAIN tasks)
  BY <1>1, AtBudgetIs
<1> HIDE DEF p
<1>4. /\ PassContext(d).pause = IF Gating(d) THEN "threshold" ELSE p.pause
      /\ PassContext(d).near = (p.near \/ Nearing(d)) /\ PassContext(d).approved = p.approved
  BY <1>3 DEF PassContext, p, Contexts
<1>5. ASSUME PassContext(d).pause = "none"
      PROVE  ~AtBudget(PassContext(d)) /\ ~Nears(PassContext(d))
  <2>1. ~AtBudget(c)
    BY <1>5, PassContextIs
  <2>2. ~AtBudget(PassContext(d))
    BY <1>2, <1>4, <1>5, <2>1 DEF AtBudget
  <2>3. ~Nears(PassContext(d))
    BY <1>2, <1>4, <2>1 DEF Nearing, Nears
  <2> QED BY <2>2, <2>3
<1>6. c.pause = "none" /\ ~AtBudget(c) /\ ~Nears(c) => PassContext(d).pause = "none"
  BY <1>2, <1>4 DEF Gating, Nearing
<1> QED BY <1>5, <1>6

\* A driver at its loop drives a run that is running, and has nothing in
\* flight but what the pass before this one started.
LEMMA LoopAlone ==
    ASSUME IInv, Alone, Serial, NEW d \in Drivers, drivers[d].pc = "loop"
    PROVE  /\ Mine(d) = bodies /\ run.status = "running" /\ ~Held /\ ~opening
           /\ drivers[d].waiting = {}
           /\ bodies # {} => ~stopping /\ drivers[d].pause = "none" /\ PassContext(d).pause = "none"
           /\ drivers[d].pause # "none" => run.paused \notin {"none", "request"}
           /\ \A e \in Drivers \ {d} : ~On(e)
           /\ \A p \in Callers : ~resumes[p].open
<1>1. On(d) /\ Beside(d)
  BY DEF Alone, On
<1>2. Mine(d) = bodies /\ \A e \in Drivers \ {d} : ~On(e)
  <2>1. \A b \in bodies : b.drv \in Drivers /\ On(b.drv)
    BY BodyIs DEF Alone
  <2> QED BY <1>1, <2>1 DEF Alone, Mine
<1>3. drivers[d].waiting = {}
  BY <1>1 DEF Alone, Asking, Beside
<1>4. run.status = "running" /\ ~Held /\ ~opening
  BY <1>1, <1>3 DEF Alone, Held
<1>5. \A p \in Callers : ~resumes[p].open
  BY <1>4 DEF Alone, Active
<1>6. bodies # {} => ~stopping /\ drivers[d].pause = "none" /\ PassContext(d).pause = "none"
  BY <1>1, PassGoesOn DEF Beside
<1>7. drivers[d].pause # "none" => run.paused \notin {"none", "request"}
  BY <1>1 DEF Alone, Told
<1> QED BY <1>2, <1>3, <1>4, <1>5, <1>6, <1>7

\* The driver leaves: the run ends, or waits and says what for.
LEMMA LeavesAlone ==
    ASSUME IInv, Alone, Serial, NEW d \in Drivers, drivers[d].pc = "loop",
           NEW c, NEW ts, NEW r \in RunRows, r.status = "running",
           c.pause # "none" => r.paused \notin {"none", "request"},
           Leave(d, c, ts, r), bodies' = {}, UNCHANGED <<opening, resumes>>
    PROVE  Alone'
<1> DEFINE ending == IF c.failure /\ ~stopping THEN "failed"
                     ELSE IF stopping \/ c.halted THEN "stopped"
                     ELSE IF c.pause # "none" THEN "awaiting" ELSE "success"
<1>1. /\ drivers' = [drivers EXCEPT ![d] = Off]
      /\ run' = [r EXCEPT !.status = ending]
      /\ stopping' = (stopping /\ ending = "awaiting")
  BY DEF Leave
<1>2. run'.status = ending /\ run'.paused = r.paused
  BY <1>1 DEF RunRows
<1>3. /\ ending \in {"failed", "stopped", "awaiting", "success"}
      /\ ending = "awaiting" => ~stopping /\ c.pause # "none"
  OBVIOUS
<1>4. /\ \A e \in Drivers : ~On(e)'
      /\ ~opening' /\ \A p \in Callers : ~resumes'[p].open
  BY <1>1, LoopAlone DEF On, Off, IInv, TypeOK
<1> HIDE DEF ending
<1> QED BY <1>1, <1>2, <1>3, <1>4, AtRest DEF AwaitingSaysWhy, Held

LEMMA LoopKeepsAlone ==
    ASSUME IInv, Alone, Serial, Serial', NEW d \in Drivers, Loop(d)
    PROVE  Alone'
<1>1. drivers[d].pc = "loop" /\ UNCHANGED <<opening, resumes>>
  BY PassIs DEF Loop, LoopStopped, LoopDrained
<1>2. /\ Mine(d) = bodies /\ run.status = "running" /\ ~opening /\ drivers[d].waiting = {}
      /\ bodies # {} => ~stopping /\ drivers[d].pause = "none" /\ PassContext(d).pause = "none"
      /\ drivers[d].pause # "none" => run.paused \notin {"none", "request"}
      /\ \A e \in Drivers \ {d} : ~On(e)
      /\ \A p \in Callers : ~resumes[p].open
  BY <1>1, LoopAlone
<1>3. run \in RunRows
  BY DEF IInv, TypeOK
<1>4. CASE LoopStopped(d) \/ LoopDrained(d)
  <2>1. CASE bodies = {}
    <3>1. (\E ts : Leave(d, drivers[d], ts, run)) /\ bodies' = {}
      BY <1>2, <1>4, <2>1 DEF LoopStopped, LoopDrained
    <3> QED BY <1>1, <1>2, <1>3, <3>1, LeavesAlone
  <2>2. CASE bodies # {}
    <3>1. drivers' = [drivers EXCEPT ![d] = [drivers[d] EXCEPT !.pc = "wait"]] /\ run' = run /\ bodies' = bodies
      BY <1>2, <1>4, <2>2 DEF LoopStopped, LoopDrained, Wait
    <3>2. /\ drivers'[d].pc = "wait" /\ drivers'[d].pause = "none" /\ drivers'[d].waiting = {}
          /\ \A e \in Drivers \ {d} : drivers'[e] = drivers[e]
      BY <1>2, <2>2, <3>1 DEF IInv, TypeOK, Contexts
    <3>3. PICK b \in bodies' : b.drv = d /\ \A f \in bodies' : f = b
      BY <1>2, <2>2, <3>1 DEF Serial, Mine
    <3>4. ~Held' /\ Asking(d)'
      BY <1>2, <3>1, <3>2 DEF Held, Asking
    <3> QED BY <1>1, <1>2, <3>1, <3>2, <3>3, <3>4, Waiting DEF On
  <2> QED BY <2>1, <2>2
<1>5. CASE LoopPass(d)
  <2> DEFINE c == PassContext(d)
             start == PassStart(d)
             more == PassPlans(d) \cup PassSkip(d)
  <2>1. /\ bodies' = bodies \cup TurnsOf(d, start \ PassPlans(d))
        /\ \/ /\ more # {} /\ drivers' = [drivers EXCEPT ![d] = c] /\ run' = PassRow(d)
              /\ UNCHANGED <<stopping, crossed, spend>> /\ ~stopping
           \/ bodies = {} /\ start = {} /\ \E ts : Leave(d, c, ts, PassRow(d))
           \/ more = {} /\ (bodies # {} \/ start # {}) /\ \E ts : Wait(d, c, ts, PassRow(d))
    BY <1>2, <1>5, PassIs
  <2>0. \A b \in bodies' : b.drv = d
    BY <1>2, <2>1 DEF TurnsOf, Mine
  <2>2. /\ PassRow(d) \in RunRows /\ PassRow(d).status = "running"
        /\ c \in Contexts(DOMAIN tasks) /\ c.waiting = {} /\ c.pc = "loop"
        /\ c.pause # "none" => PassRow(d).paused \notin {"none", "request"}
        /\ bodies # {} \/ start # {} => c.pause = "none"
        /\ c.pause = "none" => ~AtBudget(c) /\ ~Nears(c)
    BY <1>1, <1>2, PassTells, PassContextIs, PassStarts, PassGoesOn DEF Carries
  <2> HIDE DEF c, start
  <2>3. CASE /\ drivers' = [drivers EXCEPT ![d] = c] /\ run' = PassRow(d)
             /\ UNCHANGED <<stopping, crossed, spend>> /\ ~stopping
    <3>1. drivers'[d] = c /\ \A e \in Drivers \ {d} : drivers'[e] = drivers[e]
      BY <2>3 DEF IInv, TypeOK
    <3>2. bodies' # {} => c.pause = "none"
      BY <2>1, <2>2 DEF TurnsOf
    <3>4. bodies' # {} => Beside(d)'
      BY <2>2, <2>3, <3>1, <3>2 DEF Beside, AtBudget, Nears
    <3> QED BY <1>1, <1>2, <2>0, <2>2, <2>3, <3>1, <3>4, Looping DEF On
  <2>4. CASE bodies = {} /\ start = {} /\ \E ts : Leave(d, c, ts, PassRow(d))
    <3>1. bodies' = {}
      BY <2>1, <2>4 DEF TurnsOf
    <3> QED BY <1>1, <2>2, <2>4, <3>1, LeavesAlone
  <2>5. CASE more = {} /\ (bodies # {} \/ start # {}) /\ \E ts : Wait(d, c, ts, PassRow(d))
    <3>1. drivers' = [drivers EXCEPT ![d] = [c EXCEPT !.pc = "wait"]] /\ run' = PassRow(d)
      BY <2>5 DEF Wait
    <3>2. /\ drivers'[d].pc = "wait" /\ drivers'[d].pause = "none" /\ drivers'[d].waiting = {}
          /\ \A e \in Drivers \ {d} : drivers'[e] = drivers[e]
      BY <2>2, <2>5, <3>1 DEF IInv, TypeOK, Contexts
    <3>3. PICK b : b \in bodies'
      <4>1. \A t \in start : [drv |-> d, task |-> t, stage |-> "turn"] \in bodies'
        BY <2>1, <2>5 DEF TurnsOf
      <4> QED BY <2>1, <2>5, <4>1
    <3>5. \A f \in bodies' : f = b
      BY <3>3 DEF Serial
    <3>6. ~Held' /\ Asking(d)'
      BY <2>2, <3>1, <3>2 DEF Held, Asking
    <3> QED BY <1>1, <1>2, <2>2, <2>0, <3>1, <3>2, <3>3, <3>5, <3>6, Waiting DEF On
  <2> QED BY <2>1, <2>3, <2>4, <2>5
<1> QED BY <1>4, <1>5 DEF Loop

LEMMA NextAlone ==
    ASSUME LoneCalls, IInv, Alone, Serial, Serial', [Next]_vars
    PROVE  Alone'
<1>1. ASSUME UNCHANGED vars PROVE Alone'
  BY <1>1 DEF vars, rows, memory, Alone, On, Held, Asking, Told, Beside, AtBudget, Nears, Active, AwaitingSaysWhy
<1>2. ASSUME NEW d \in Drivers, Loop(d) PROVE Alone'
  BY <1>2, LoopKeepsAlone
<1>3. ASSUME NEW b \in bodies, Body(b) PROVE Alone'
  BY <1>3, BodyKeepsAlone
<1>4. CASE OpenThread \/ Request
  BY <1>4, RequestKeepsAlone
<1>5. CASE Crash \/ \E level \in {"near", "over"} : Spend(level)
  BY <1>5, OthersKeepAlone
<1>6. CASE Rest
  BY <1>1, <1>6 DEF Rest
<1> QED BY <1>1, <1>2, <1>3, <1>4, <1>5, <1>6 DEF Next

LEMMA InitAlone == Init => Alone
BY DEF Init, Alone, On, Off, Held, Active, NoResume, AwaitingSaysWhy

LEMMA AloneAlways ==
    ASSUME LoneCalls
    PROVE  Spec /\ []Serial => []Alone
<1>1. IInv /\ Alone /\ Serial /\ Serial' /\ [Next]_vars => Alone'
  BY NextAlone
<1> QED BY Invariance, InitAlone, <1>1, PTL DEF Spec

\* Where tasks come one at a time and calls do not meet, one loop at most
\* drives a run, and only one that is running or held for a request: "only
\* the last is still being driven" (types.ts), which two_drivers refutes for
\* branches.
THEOREM OneDrives ==
    ASSUME LoneCalls
    PROVE  Spec /\ []Serial => []OneDriver
<1>1. Alone => OneDriver
  BY DEF Alone, OneDriver, On, Held
<1> QED BY AloneAlways, <1>1, PTL

\* And a run that waits always says what for: a gate, a budget or a question
\* (setPaused, waitingOnPerson), whoever let it on before.
THEOREM WaitsForAReason ==
    ASSUME LoneCalls
    PROVE  Spec /\ []Serial => []AwaitingSaysWhy
<1>1. Alone => AwaitingSaysWhy
  BY DEF Alone
<1> QED BY AloneAlways, <1>1, PTL

------------------------------------------------------------------------------
(* What a row is asked to do stays as it was asked, and a step of a body   *)
(* moves no row but its own, whatever it adds.                             *)

AsAsked(row, new) ==
    /\ new.name = row.name /\ new.kind = row.kind /\ new.gate = row.gate /\ new.foreach = row.foreach
    /\ new.when = row.when /\ new.whenIs = row.whenIs /\ new.retryOf = row.retryOf
    /\ new.listed = row.listed /\ new.dependsOn = row.dependsOn /\ new.require = row.require

Follows(ts, us, S) ==
    /\ us \in Seq(TaskRows) /\ DOMAIN ts \subseteq DOMAIN us
    /\ \A t \in DOMAIN ts : AsAsked(ts[t], us[t]) /\ (t \notin S => us[t].status = ts[t].status)
    /\ \A t \in DOMAIN us \ DOMAIN ts : us[t].status = "queued"

LEMMA RowAsAsked ==
    ASSUME NEW row \in TaskRows
    PROVE  /\ AsAsked(row, row)
           /\ \A s \in Statuses : AsAsked(row, [row EXCEPT !.status = s])
           /\ AsAsked(row, [row EXCEPT !.status = "running", !.started = TRUE])
           /\ \A v, by : AsAsked(row, [row EXCEPT !.verdict = v, !.by = by])
           /\ \A x : /\ AsAsked(row, [row EXCEPT !.cut = x])
                     /\ [row EXCEPT !.cut = x].status = row.status
BY DEF TaskRows, AsAsked

LEMMA FollowsItself ==
    ASSUME NEW ts \in Seq(TaskRows), NEW S
    PROVE  Follows(ts, ts, S)
BY DEF Follows, AsAsked

LEMMA FollowsOn ==
    ASSUME NEW ts, NEW us, NEW vs, NEW S, S \subseteq DOMAIN ts, Follows(ts, us, S), Follows(us, vs, S)
    PROVE  Follows(ts, vs, S)
BY DEF Follows, AsAsked

LEMMA FinishFollows ==
    ASSUME NEW ts \in Seq(TaskRows), NEW S, NEW st \in Statuses
    PROVE  Follows(ts, Finish(ts, S, st), S)
<1>1. \A t \in DOMAIN ts : ts[t] \in TaskRows
  OBVIOUS
<1>2. \A t \in DOMAIN ts : AsAsked(ts[t], Finish(ts, S, st)[t])
  BY <1>1, RowAsAsked DEF Finish
<1> QED BY <1>2, FinishIs DEF Follows

LEMMA JudgedFollows ==
    ASSUME NEW ts \in Seq(TaskRows), NEW u \in DOMAIN ts, NEW v \in VerdictValues,
           NEW by \in {"rule", "check"}, NEW S
    PROVE  Follows(ts, Judged(ts, u, v, by), S)
<1>1. \A t \in DOMAIN ts : ts[t] \in TaskRows
  OBVIOUS
<1> DEFINE row == [ts[u] EXCEPT !.verdict = v, !.by = by]
<1>2. Judged(ts, u, v, by) = [ts EXCEPT ![u] = row]
  BY <1>1 DEF Judged, TaskRows
<1>4. AsAsked(ts[u], row) /\ \A t \in DOMAIN ts : AsAsked(ts[t], ts[t])
  BY <1>1, RowAsAsked
<1> HIDE DEF row
<1>3. \A t \in DOMAIN ts : AsAsked(ts[t], Judged(ts, u, v, by)[t])
  BY <1>2, <1>4
<1> QED BY <1>3, JudgedIs, SMTT(30) DEF Follows

LEMMA CutFollows ==
    ASSUME NEW ts \in Seq(TaskRows), NEW u \in DOMAIN ts, NEW S
    PROVE  Follows(ts, [ts EXCEPT ![u].cut = TRUE], S)
<1> DEFINE row == [ts[u] EXCEPT !.cut = TRUE]
<1>1. ts[u] \in TaskRows
  OBVIOUS
<1>2. row \in TaskRows /\ AsAsked(ts[u], row) /\ row.status = ts[u].status
  BY <1>1, RowAsAsked DEF TaskRows
<1> DEFINE us == [ts EXCEPT ![u] = row]
<1>3. [ts EXCEPT ![u].cut = TRUE] = us
  OBVIOUS
<1> HIDE DEF row
<1>4. \A t \in DOMAIN ts : AsAsked(ts[t], ts[t])
  BY DEF AsAsked
<1>5. /\ us \in Seq(TaskRows) /\ DOMAIN us = DOMAIN ts
      /\ \A t \in DOMAIN ts : us[t] = IF t = u THEN row ELSE ts[t]
  BY <1>2
<1> HIDE DEF us
<1> QED BY <1>2, <1>3, <1>4, <1>5 DEF Follows

LEMMA AddedFollows ==
    ASSUME NEW ts \in Seq(TaskRows), NEW more \in Seq(TaskRows), NEW S,
           \A i \in 1 .. Len(more) : more[i].status = "queued"
    PROVE  Follows(ts, ts \o more, S)
<1>1. \A t \in DOMAIN ts : AsAsked(ts[t], ts[t])
  BY DEF AsAsked
<1> QED BY <1>1, AddedIs DEF Follows

\* A body moves its own row only.
LEMMA BodyFollows ==
    ASSUME IInv, NEW b \in bodies, Body(b)
    PROVE  Follows(tasks, tasks', {b.task})
<1> DEFINE t == b.task
<1>1. tasks \in Seq(TaskRows) /\ t \in DOMAIN tasks /\ tasks[t] \in TaskRows
  BY BodyIs
<1>2. Follows(tasks, tasks, {t})
  BY <1>1, FollowsItself
<1>3. ASSUME NEW st \in {"failed", "stopped", "success"}
      PROVE  /\ Follows(tasks, Finish(tasks, {t}, st), {t})
             /\ Finish(tasks, {t}, st) \in Seq(TaskRows) /\ DOMAIN Finish(tasks, {t}, st) = DOMAIN tasks
  <2>1. st \in Statuses
    BY DEF Statuses
  <2> QED BY <1>1, <2>1, FinishFollows, FinishIs
<1>4. ASSUME NEW ts, Follows(tasks, ts, {t}), NEW u \in DOMAIN tasks, NEW v \in VerdictValues,
             NEW by \in {"rule", "check"}
      PROVE  Follows(tasks, Judged(ts, u, v, by), {t}) /\ DOMAIN Judged(ts, u, v, by) = DOMAIN ts
  <2>1. ts \in Seq(TaskRows) /\ u \in DOMAIN ts
    BY <1>4 DEF Follows
  <2> QED BY <1>1, <1>4, <2>1, JudgedFollows, JudgedIs, FollowsOn, ZenonT(40)
<1> SUFFICES Follows(tasks, tasks', {t})
  OBVIOUS
<1> HIDE DEF t
<1>5. CASE Ask(b) \/ Answered(b) \/ TurnBreaks(b) \/ Note(b) \/ Close(b) \/ CloseCut(b)
  BY <1>2, <1>5 DEF Ask, Answered, TurnBreaks, Note, Close, CloseCut, Settles, GoesOn
<1>6. CASE TurnFails(b)
  <2>1. \E st \in {"failed", "stopped"} :
           \/ tasks' = Finish(tasks, {t}, st)
           \/ \E v \in {"failed", "needs-user"} : tasks' = Judged(Finish(tasks, {t}, st), t, v, "rule")
    BY <1>6 DEF TurnFails, Settles, t
  <2> QED BY <1>1, <1>3, <1>4, <2>1 DEF VerdictValues
<1>7. CASE TurnStops(b) \/ TurnHalts(b)
  BY <1>3, <1>7 DEF TurnStops, TurnHalts, Settles, t
<1>8. CASE TurnCut(b)
  <2> DEFINE ts == Judged(Finish(tasks, {t}, "failed"), t, "failed", "rule")
  <2>1. tasks' = [ts EXCEPT ![t].cut = TRUE]
    BY <1>8 DEF TurnCut, GoesOn, t
  <2>2. Follows(tasks, ts, {t})
    BY <1>1, <1>3, <1>4 DEF VerdictValues
  <2>3. ts \in Seq(TaskRows) /\ t \in DOMAIN ts
    BY <1>1, <2>2 DEF Follows
  <2> HIDE DEF ts
  <2> QED BY <1>1, <2>1, <2>2, <2>3, CutFollows, FollowsOn
<1>9. CASE TurnSucceeds(b)
  BY <1>3, <1>9 DEF TurnSucceeds, GoesOn, t
<1>10. CASE Judge(b)
  <2>1. \E v \in VerdictValues : tasks' = Judged(tasks, t, v, "rule")
    BY <1>10 DEF Judge, Settles, GoesOn, VerdictValues, t
  <2> QED BY <1>1, <1>2, <1>4, <2>1
<1>11. ASSUME NEW ok \in BOOLEAN, NEW v \in VerdictValues, CheckEnds(b, ok, v)
       PROVE  Follows(tasks, tasks', {t})
  <2> DEFINE done == Finish(tasks, {t}, IF stopping THEN "stopped" ELSE IF ok THEN "success" ELSE "failed")
             own  == Judged(done, t, v, "check")
             work == CheckedTask(tasks, t)
             ts   == IF stopping THEN done
                     ELSE IF work # 0 /\ Speaks(v, tasks[work].verdict) THEN Judged(own, work, v, "check")
                     ELSE own
  <2>1. work # 0 => work \in DOMAIN tasks
    BY <1>1, CheckedTaskIs
  <2>2. Follows(tasks, done, {t})
    BY <1>3
  <2>3. Follows(tasks, own, {t})
    BY <1>1, <1>4, <2>2
  <2>4. work # 0 => Follows(tasks, Judged(own, work, v, "check"), {t})
    BY <1>4, <2>1, <2>3
  <2>5. Follows(tasks, ts, {t})
    BY <2>2, <2>3, <2>4
  <2>6. \/ tasks' = ts
        \/ MayRetry(tasks, t) /\ tasks' = ts \o RetryPair(tasks, work, t)
    BY <1>11 DEF CheckEnds, Settles, GoesOn, t
  <2> HIDE DEF ts, own, done, work
  <2>7. CASE MayRetry(tasks, t) /\ tasks' = ts \o RetryPair(tasks, work, t)
    <3>1. work \in DOMAIN tasks /\ tasks[t].retries > 0
      BY <2>1, <2>7 DEF MayRetry, work
    <3>2. /\ RetryPair(tasks, work, t) \in Seq(TaskRows) /\ Len(RetryPair(tasks, work, t)) = 2
          /\ \A i \in 1 .. 2 : RetryPair(tasks, work, t)[i].status = "queued"
      BY <1>1, <3>1, RetryPairIs
    <3>3. ts \in Seq(TaskRows)
      BY <2>5 DEF Follows
    <3>4. Follows(ts, tasks', {t})
      BY <2>7, <3>2, <3>3, AddedFollows
    <3> QED BY <1>1, <2>5, <3>4, FollowsOn
  <2> QED BY <2>5, <2>6, <2>7
<1>12. \A ok \in BOOLEAN, v \in VerdictValues : CheckEnds(b, ok, v) => Follows(tasks, tasks', {t})
  BY <1>11
<1>13. Check(b) => \E ok \in BOOLEAN, v \in VerdictValues : CheckEnds(b, ok, v)
  BY DEF Check, VerdictValues
<1> QED BY <1>5, <1>6, <1>7, <1>8, <1>9, <1>10, <1>12, <1>13 DEF Body, TurnEnds, GoOn, t

------------------------------------------------------------------------------
(* What is finished is remembered.  The driver of a run that goes on has   *)
(* the note of everything that came to something, or its body is about to  *)
(* hand it over; a plan has none to hand.                                  *)

Remembered ==
    \A d \in Drivers : On(d) =>
        \A u \in With(tasks, "success") :
            \/ tasks[u].foreach # "" \/ u \in drivers[d].notes
            \/ stopping \/ drivers[d].pause # "none"
            \/ \E b \in bodies : b.task = u /\ b.stage \in {"judge", "note"}

\* A step that brings nothing to an end.
LEMMA AsideRemembers ==
    ASSUME Remembered, UNCHANGED <<drivers, bodies>>, stopping => stopping', NEW S,
           Follows(tasks, tasks', S), \A t \in S : tasks'[t].status # "success"
    PROVE  Remembered'
<1>1. ASSUME NEW u \in With(tasks', "success")
      PROVE  u \in With(tasks, "success") /\ tasks'[u].foreach = tasks[u].foreach
  BY DEF Follows, With, AsAsked
<1>2. drivers' = drivers /\ bodies' = bodies /\ (stopping => stopping')
  OBVIOUS
<1>3. ASSUME NEW d \in Drivers, On(d)', NEW u \in With(tasks', "success")
      PROVE  \/ tasks'[u].foreach # "" \/ u \in drivers'[d].notes
             \/ stopping' \/ drivers'[d].pause # "none"
             \/ \E b \in bodies' : b.task = u /\ b.stage \in {"judge", "note"}
  <2>1. On(d)
    BY <1>2, <1>3 DEF On
  <2>2. u \in With(tasks, "success") /\ tasks'[u].foreach = tasks[u].foreach
    BY <1>1
  <2> QED BY ONLY Remembered, <1>2, <2>1, <2>2, ZenonT(40) DEF Remembered
<1> QED BY ONLY <1>3 DEF Remembered

\* A driver that starts reads all of it back.
LEMMA DrivesRemember ==
    ASSUME IInv, \A d \in Drivers : ~On(d), Drive(run', tasks')
    PROVE  Remembered'
<1>1. PICK d \in Free : drivers' = [drivers EXCEPT ![d] = Entered(run', tasks')]
  BY DEF Drive
<1>2. d \in Drivers /\ drivers'[d] = Entered(run', tasks') /\ \A e \in Drivers \ {d} : drivers'[e] = drivers[e]
  BY <1>1 DEF Free, IInv, TypeOK
<1>3. drivers'[d].notes = With(tasks', "success")
  BY <1>2 DEF Entered, Off
<1> QED BY <1>2, <1>3 DEF Remembered, On

\* A body hands its note over, or goes on to where it will.
LEMMA BodyStepRemembers ==
    ASSUME IInv, Alone, Serial, Quiet, Remembered, NEW b \in bodies, NEW c, UNCHANGED stopping,
           Follows(tasks, tasks', {b.task}),
           drivers'[b.drv] = c, \A d \in Drivers \ {b.drv} : drivers'[d] = drivers[d],
           drivers[b.drv].notes \subseteq c.notes,
           \/ tasks'[b.task].status # "success" \/ b.task \in c.notes
           \/ stopping \/ c.pause # "none"
           \/ (b.stage \in {"close", "cut"} /\ tasks' = tasks)
           \/ \E f \in bodies' : f.task = b.task /\ f.stage \in {"judge", "note"}
    PROVE  Remembered'
<1>1. /\ b.drv \in Drivers /\ drivers[b.drv].pause = "none" /\ bodies = {b}
      /\ \A d \in Drivers \ {b.drv} : ~On(d)
      /\ On(b.drv)
  BY BodyAlone DEF On
<1>2. b.task \in DOMAIN tasks /\ b.stage \in Stages /\ (b.stage # "turn" => tasks[b.task].status \in Terminal)
      /\ (b.stage = "turn" => tasks[b.task].status = "running")
  BY BodyIs
<1>3. \A d \in Drivers \ {b.drv} : ~On(d)'
  BY <1>1 DEF On
<1>4. ASSUME NEW u \in With(tasks', "success")
      PROVE  \/ tasks'[u].foreach # "" \/ u \in c.notes \/ stopping' \/ c.pause # "none"
             \/ \E f \in bodies' : f.task = u /\ f.stage \in {"judge", "note"}
  <2>1. CASE u # b.task
    <3>1. u \in With(tasks, "success") /\ tasks'[u].foreach = tasks[u].foreach
      BY <2>1 DEF Follows, With, AsAsked
    <3>2. \A f \in bodies : f.task # u
      BY <1>1, <2>1
    <3>3. tasks[u].foreach # "" \/ u \in drivers[b.drv].notes \/ stopping
      BY <1>1, <3>1, <3>2 DEF Remembered
    <3> QED BY <3>1, <3>3
  <2>2. CASE u = b.task /\ b.stage \in {"close", "cut"} /\ tasks' = tasks
    BY <1>1, <2>2 DEF Remembered
  <2>3. CASE u = b.task /\ ~(b.stage \in {"close", "cut"} /\ tasks' = tasks)
    BY <2>3 DEF With
  <2> QED BY <2>1, <2>2, <2>3
<1>5. ASSUME NEW d \in Drivers, On(d)', NEW u \in With(tasks', "success")
      PROVE  \/ tasks'[u].foreach # "" \/ u \in drivers'[d].notes
             \/ stopping' \/ drivers'[d].pause # "none"
             \/ \E f \in bodies' : f.task = u /\ f.stage \in {"judge", "note"}
  <2>1. drivers'[d] = c
    BY <1>3, <1>5
  <2> QED BY <1>4, <2>1
<1> QED BY ONLY <1>5 DEF Remembered

LEMMA BodyRemembers ==
    ASSUME IInv, Alone, Serial, Remembered, NEW b \in bodies, Body(b)
    PROVE  Remembered'
<1>0. Quiet
  BY BodyIsQuiet
<1> DEFINE t == b.task
           c == drivers[b.drv]
           Handed(e, ts) == \/ ts[t].status # "success" \/ t \in e.notes
                            \/ stopping \/ e.pause # "none"
                            \/ (b.stage \in {"close", "cut"} /\ ts = tasks)
           Fit(e) == e \in Contexts(DOMAIN tasks) /\ c.notes \subseteq e.notes
<1>1. /\ b.drv \in Drivers /\ t \in DOMAIN tasks /\ c \in Contexts(DOMAIN tasks)
      /\ tasks \in Seq(TaskRows) /\ Fit(c) /\ Fit(After(b))
      /\ \A d \in Drivers \ {b.drv} : ~On(d)
  <2>1. After(b).notes = c.notes
    BY BodyIs DEF After, Contexts
  <2> QED BY <1>0, <2>1, BodyIs, BodyAlone
<1>2. Follows(tasks, tasks', {t})
  BY BodyFollows
<1>3. ASSUME NEW e, Fit(e), NEW ts, NEW r, Settles(b, e, ts, r), Handed(e, ts)
      PROVE  Remembered'
  <2> DEFINE g == [e EXCEPT !.pc = IF @ = "wait" THEN "loop" ELSE @]
  <2>1. g.notes = e.notes /\ g.pause = e.pause
    BY <1>3 DEF Contexts
  <2>2. /\ drivers'[b.drv] = g /\ \A d \in Drivers \ {b.drv} : drivers'[d] = drivers[d]
        /\ tasks' = ts /\ UNCHANGED stopping
    BY <1>1, <1>3 DEF Settles, elsewhere, IInv, TypeOK
  <2> HIDE DEF g
  <2> QED BY <1>2, <1>3, <2>1, <2>2, BodyStepRemembers, <1>0
<1>4. ASSUME NEW e, Fit(e), NEW ts, NEW r, NEW stage, GoesOn(b, stage, e, ts, r),
             Handed(e, ts) \/ stage \in {"judge", "note"}
      PROVE  Remembered'
  <2> DEFINE f == [b EXCEPT !.stage = stage]
  <2>1. f.task = t /\ f.stage = stage
    BY DEF IInv, TypeOK, BodyRows
  <2>2. /\ drivers'[b.drv] = e /\ \A d \in Drivers \ {b.drv} : drivers'[d] = drivers[d]
        /\ tasks' = ts /\ UNCHANGED stopping /\ f \in bodies'
    BY <1>1, <1>4 DEF GoesOn, elsewhere, IInv, TypeOK
  <2> HIDE DEF f
  <2> QED BY <1>2, <1>4, <2>1, <2>2, BodyStepRemembers, <1>0
<1>5. ASSUME NEW e, Fit(e)
      PROVE  /\ \A x \in BOOLEAN : /\ Fit([e EXCEPT !.failure = x]) /\ Fit([e EXCEPT !.halted = x])
             /\ \A why \in Pauses \ {"request"} : /\ Fit([e EXCEPT !.pause = why])
                                                  /\ [e EXCEPT !.pause = why].pause = why
                                                  /\ [e EXCEPT !.pause = why].notes = e.notes
             /\ Fit([e EXCEPT !.notes = @ \cup {t}]) /\ t \in [e EXCEPT !.notes = @ \cup {t}].notes
  BY <1>1, <1>5 DEF Contexts
<1>6. ASSUME NEW e, Fit(e)
      PROVE  Fit(PausedAtBudget(e)) /\ (AtBudget(e) => PausedAtBudget(e).pause # "none")
             /\ PausedAtBudget(e).notes = e.notes
  <2>1. "budget" \in Pauses \ {"request"}
    BY DEF Pauses
  <2> QED BY <1>5, <1>6, <2>1 DEF PausedAtBudget
<1>7. ASSUME NEW st \in {"failed", "stopped"}
      PROVE  Finish(tasks, {t}, st)[t].status = st
  BY <1>1, <1>7, FinishIs DEF Statuses
<1> HIDE DEF c, Fit
<1>8. CASE Ask(b) \/ Answered(b)
  <2>1. PICK W \in {c.waiting \cup {t}, c.waiting \ {t}} :
           drivers' = [drivers EXCEPT ![b.drv] = [c EXCEPT !.waiting = W]]
    BY <1>8 DEF Ask, Answered, After, c
  <2>2. /\ drivers'[b.drv].notes = c.notes /\ drivers'[b.drv].pause = c.pause
        /\ drivers'[b.drv].pc = c.pc
        /\ \A d \in Drivers \ {b.drv} : drivers'[d] = drivers[d]
    BY <1>1, <2>1 DEF IInv, TypeOK, Contexts
  <2>3. UNCHANGED <<tasks, bodies, stopping>>
    BY <1>8 DEF Ask, Answered, elsewhere
  <2>4. ASSUME NEW d \in Drivers, On(d)'
        PROVE  On(d) /\ drivers'[d].notes = drivers[d].notes /\ drivers'[d].pause = drivers[d].pause
    BY <2>2, <2>4 DEF On, c
  <2>5. tasks' = tasks /\ bodies' = bodies /\ stopping' = stopping
    BY <2>3
  <2>6. ASSUME NEW d \in Drivers, On(d)', NEW u \in With(tasks, "success")
        PROVE  \/ tasks[u].foreach # "" \/ u \in drivers'[d].notes
               \/ stopping \/ drivers'[d].pause # "none"
               \/ \E f \in bodies : f.task = u /\ f.stage \in {"judge", "note"}
    <3>1. On(d) /\ drivers'[d].notes = drivers[d].notes /\ drivers'[d].pause = drivers[d].pause
      BY <2>4, <2>6
    <3>2. \/ tasks[u].foreach # "" \/ u \in drivers[d].notes
          \/ stopping \/ drivers[d].pause # "none"
          \/ \E f \in bodies : f.task = u /\ f.stage \in {"judge", "note"}
      BY <3>1 DEF Remembered
    <3> QED BY <3>1, <3>2
  <2> QED BY <2>5, <2>6 DEF Remembered
<1>9. CASE TurnFails(b)
  <2>1. PICK x, ts : /\ x \in BOOLEAN /\ Settles(b, [After(b) EXCEPT !.failure = x], ts, Released(b))
                    /\ ts[t].status # "success"
    <3>1. After(b).failure \in BOOLEAN
      BY BodyIs, ContextIs
    <3>2. \A off \in BOOLEAN : (After(b).failure \/ ~off) \in BOOLEAN
      BY <3>1
    <3>3. ASSUME NEW st \in {"failed", "stopped"}, NEW v \in {"failed", "needs-user"}
          PROVE  Judged(Finish(tasks, {t}, st), t, v, "rule")[t].status # "success"
      <4> DEFINE done == Finish(tasks, {t}, st)
      <4>1. done \in Seq(TaskRows) /\ t \in DOMAIN done /\ done[t].status = st
        BY <1>1, <1>7, <3>3, FinishIs DEF Statuses
      <4>2. v \in VerdictValues
        BY DEF VerdictValues
      <4> HIDE DEF done
      <4>3. Judged(done, t, v, "rule")[t].status = st
        BY <4>1, <4>2, JudgedIs
      <4> QED BY <4>3 DEF done
    <3> QED BY <1>7, <1>9, <3>2, <3>3 DEF TurnFails
  <2>2. Fit([After(b) EXCEPT !.failure = x])
    BY <1>1, <1>5, <2>1
  <2> QED BY <1>3, <2>1, <2>2
<1>10. CASE TurnStops(b)
  BY <1>1, <1>3, <1>7, <1>10 DEF TurnStops
<1>11. CASE TurnHalts(b)
  <2>1. Fit([After(b) EXCEPT !.halted = TRUE])
    BY <1>1, <1>5
  <2> QED BY <1>3, <1>7, <1>11, <2>1 DEF TurnHalts
<1>12. CASE TurnCut(b)
  <2> DEFINE ts == Judged(Finish(tasks, {t}, "failed"), t, "failed", "rule")
             us == [ts EXCEPT ![t].cut = TRUE]
  <2>1. ts \in Seq(TaskRows) /\ t \in DOMAIN ts /\ ts[t].status = "failed"
    <3> DEFINE done == Finish(tasks, {t}, "failed")
    <3>1. done \in Seq(TaskRows) /\ t \in DOMAIN done /\ done[t].status = "failed"
      BY <1>1, <1>7, FinishIs DEF Statuses
    <3>2. "failed" \in VerdictValues
      BY DEF VerdictValues
    <3> HIDE DEF done
    <3>3. LET ts2 == Judged(done, t, "failed", "rule")
          IN ts2 \in Seq(TaskRows) /\ t \in DOMAIN ts2 /\ ts2[t].status = "failed"
      BY <3>1, <3>2, JudgedIs
    <3> QED BY <3>3 DEF done
  <2>2. us[t].status = "failed"
    <3> HIDE DEF ts
    <3>1. us[t] = [ts[t] EXCEPT !.cut = TRUE] /\ ts[t] \in TaskRows
      BY <2>1
    <3> QED BY <2>1, <3>1, RowAsAsked
  <2>3. GoesOn(b, "cut", After(b), us, Released(b))
    BY <1>12 DEF TurnCut
  <2> HIDE DEF us, ts
  <2> QED BY <1>1, <1>4, <2>2, <2>3
<1>13. CASE TurnSucceeds(b)
  <2>1. CASE \E ts : GoesOn(b, "judge", After(b), ts, Released(b))
    BY <1>1, <1>4, <2>1
  <2>2. CASE \E ts : GoesOn(b, "close", [After(b) EXCEPT !.notes = @ \cup {t}], ts, run)
    BY <1>1, <1>4, <1>5, <2>2
  <2> QED BY <1>13, <2>1, <2>2 DEF TurnSucceeds
<1>14. CASE TurnBreaks(b)
  <2>1. drivers' = [drivers EXCEPT ![b.drv].pc = "left"]
    BY <1>14 DEF TurnBreaks
  <2>2. \A d \in Drivers : ~On(d)'
    BY <1>1, <2>1 DEF On, IInv, TypeOK, Contexts
  <2> QED BY <2>2 DEF Remembered, On
<1>15. ASSUME NEW ok \in BOOLEAN, NEW v \in VerdictValues, CheckEnds(b, ok, v) PROVE Remembered'
  <2> DEFINE e == [After(b) EXCEPT !.notes = @ \cup {t}]
             x == ~ExpectsFailure(tasks, tasks[t].name)
             Ends(g, r) == \E ts : Settles(b, g, ts, r) \/ \E stage : GoesOn(b, stage, g, ts, r)
  <2>1. Fit(e) /\ t \in e.notes
    BY <1>1, <1>5
  <2>2. \/ Ends(PausedAtBudget(e), HeldAtBudget(e, run))
        \/ Ends(e, run)
        \/ Ends([e EXCEPT !.failure = @ \/ x], run)
    BY <1>15 DEF CheckEnds
  <2> HIDE DEF e
  <2>3. ASSUME NEW g, NEW r, Fit(g), t \in g.notes, Ends(g, r) PROVE Remembered'
    BY <1>3, <1>4, <2>3
  <2>4. (e.failure \/ x) \in BOOLEAN
    BY DEF ExpectsFailure
  <2>5. Fit([e EXCEPT !.failure = @ \/ x]) /\ t \in [e EXCEPT !.failure = @ \/ x].notes
    BY <1>5, <2>1, <2>4, ZenonT(40) DEF Fit, Contexts
  <2> HIDE DEF Ends
  <2> QED BY <1>6, <2>1, <2>2, <2>3, <2>5
<1>16. CASE Judge(b)
  <2>1. \E ts : \/ /\ stopping
                  /\ Settles(b, c, ts, run)
               \/ /\ AtBudget(c)
                  /\ Settles(b, PausedAtBudget(c), ts, HeldAtBudget(c, run))
               \/ GoesOn(b, "note", c, ts, run)
    BY <1>16 DEF Judge, c
  <2> QED BY <1>1, <1>3, <1>4, <1>6, <2>1
<1>17. CASE Note(b)
  BY <1>1, <1>4, <1>5, <1>17 DEF Note, c
<1>18. CASE Close(b) \/ CloseCut(b)
  <2>1. /\ b.stage \in {"close", "cut"}
        /\ \E r : \/ Settles(b, c, tasks, r) \/ Settles(b, [c EXCEPT !.pause = "gate"], tasks, r)
                  \/ Settles(b, PausedAtBudget(c), tasks, r)
    BY <1>18 DEF Close, CloseCut, At, c
  <2>2. Fit(c) /\ Fit([c EXCEPT !.pause = "gate"]) /\ Fit(PausedAtBudget(c))
    BY <1>1, <1>5, <1>6 DEF Pauses
  <2> QED BY <1>3, <2>1, <2>2
<1>19. \A ok \in BOOLEAN, v \in VerdictValues : CheckEnds(b, ok, v) => Remembered'
  BY <1>15
<1>20. Check(b) => \E ok \in BOOLEAN, v \in VerdictValues : CheckEnds(b, ok, v)
  BY DEF Check, VerdictValues
<1> QED BY <1>8, <1>9, <1>10, <1>11, <1>12, <1>13, <1>14, <1>16, <1>17, <1>18, <1>19, <1>20
        DEF Body, TurnEnds, GoOn

LEMMA WalkFollows ==
    ASSUME IInv, NEW start \in SUBSET With(tasks, "queued"), NEW skip \in SUBSET With(tasks, "queued"),
           NEW plans \in SUBSET start, NEW more \in Seq(TaskRows),
           \A i \in 1 .. Len(more) : more[i].status = "queued"
    PROVE  \A t \in DOMAIN tasks : AsAsked(tasks[t], Walk(start, plans, skip, more)[t])
<1> DEFINE begun == Begin(tasks, start)
           planned == Finish(begun, plans, "success")
           walked == Finish(planned, skip, "skipped")
<1>1. tasks \in Seq(TaskRows) /\ "success" \in Statuses /\ "skipped" \in Statuses
  BY DEF IInv, TypeOK, Statuses
<1>2. begun \in Seq(TaskRows) /\ DOMAIN begun = DOMAIN tasks
  BY <1>1, BeginIs
<1>3. \A t \in DOMAIN tasks : AsAsked(tasks[t], begun[t])
  <2>1. \A t \in DOMAIN tasks : tasks[t] \in TaskRows
    BY <1>1
  <2> QED BY <2>1, RowAsAsked DEF Begin
<1> HIDE DEF begun
<1>4. Follows(begun, planned, plans) /\ DOMAIN planned = DOMAIN begun
  BY <1>1, <1>2, FinishFollows, FinishIs
<1>5. planned \in Seq(TaskRows)
  BY <1>4 DEF Follows
<1> HIDE DEF planned
<1>6. Follows(planned, walked, skip) /\ DOMAIN walked = DOMAIN planned
  BY <1>1, <1>5, FinishFollows, FinishIs
<1>7. walked \in Seq(TaskRows)
  BY <1>6 DEF Follows
<1> HIDE DEF walked
<1>8. \A t \in DOMAIN walked : (walked \o more)[t] = walked[t]
  BY <1>7, AddedIs
<1>9. \A t \in DOMAIN tasks : AsAsked(tasks[t], walked[t])
  BY <1>2, <1>3, <1>4, <1>6 DEF Follows, AsAsked
<1>10. \A t \in DOMAIN tasks : AsAsked(tasks[t], (walked \o more)[t])
  BY <1>2, <1>4, <1>6, <1>8, <1>9
<1> QED BY <1>10 DEF begun, planned, walked, Walk

\* A pass brings plans to an end, which have no note, and nothing else.
LEMMA PassRemembers ==
    ASSUME IInv, Alone, Serial, Serial', Remembered, NEW d \in Drivers, LoopPass(d)
    PROVE  Remembered'
<1> DEFINE c == PassContext(d)
           start == PassStart(d)
           plans == PassPlans(d)
           skip == PassSkip(d)
<1>1. drivers[d].pc = "loop" /\ ~stopping
  BY PassIs
<1>2. /\ bodies \subseteq bodies' /\ \A e \in Drivers \ {d} : ~On(e)
      /\ c.notes = drivers[d].notes
      /\ drivers[d].pause # "none" => c.pause # "none"
  BY <1>1, LoopAlone, PassTells, PassIs
<1>3. PICK n \in PassSteps(d) :
         /\ tasks' = PassRows(d, n) \/ Leave(d, c, PassRows(d, n), PassRow(d))
         /\ \/ drivers' = [drivers EXCEPT ![d] = c]
            \/ Leave(d, c, PassRows(d, n), PassRow(d))
            \/ Wait(d, c, PassRows(d, n), PassRow(d))
  BY PassIs DEF Wait
<1>4. /\ start \in SUBSET With(tasks, "queued") /\ skip \in SUBSET With(tasks, "queued")
      /\ start \cap skip = {} /\ plans \in SUBSET start
      /\ \A t \in plans : tasks[t].foreach # ""
  BY PassSets DEF PassPlans
<1>5. PassAdds(d, n) \in Seq(TaskRows) /\ \A i \in 1 .. Len(PassAdds(d, n)) : PassAdds(d, n)[i].status = "queued"
  BY PassAddsAre
<1>6. PassRows(d, n) = Walk(start, plans, skip, PassAdds(d, n))
  BY DEF PassRows
<1>7. c \in Contexts(DOMAIN tasks)
  BY PassContextIs
<1> HIDE DEF c, start, plans, skip
<1>8. Walked(PassRows(d, n), start, plans, skip)
  BY <1>4, <1>5, <1>6, WalkedIs
<1>9. \A t \in DOMAIN tasks : AsAsked(tasks[t], PassRows(d, n)[t])
  BY <1>4, <1>5, <1>6, WalkFollows
<1>10. CASE Leave(d, c, PassRows(d, n), PassRow(d))
  <2>1. drivers' = [drivers EXCEPT ![d] = Off]
    BY <1>10 DEF Leave
  <2>2. \A e \in Drivers : ~On(e)'
    BY <1>2, <2>1 DEF On, Off, IInv, TypeOK
  <2> QED BY <2>2 DEF Remembered
<1>11. CASE /\ tasks' = PassRows(d, n)
            /\ drivers' = [drivers EXCEPT ![d] = c] \/ Wait(d, c, PassRows(d, n), PassRow(d))
  <2>1. PICK e \in {c, [c EXCEPT !.pc = "wait"]} : drivers' = [drivers EXCEPT ![d] = e]
    BY <1>11 DEF Wait
  <2>2. /\ drivers'[d].notes = drivers[d].notes
        /\ drivers[d].pause # "none" => drivers'[d].pause # "none"
        /\ \A f \in Drivers \ {d} : drivers'[f] = drivers[f]
    BY <1>2, <1>7, <2>1 DEF IInv, TypeOK, Contexts
  <2>3. ASSUME NEW f \in Drivers, On(f)' PROVE f = d
    BY <1>2, <2>2, <2>3 DEF On
  <2>4. On(d)
    BY <1>1 DEF On
  <2>5. ASSUME NEW u \in With(tasks', "success")
        PROVE  \/ tasks'[u].foreach # ""
               \/ u \in With(tasks, "success") /\ tasks'[u].foreach = tasks[u].foreach
    <3>1. u \in DOMAIN tasks' /\ tasks'[u].status = "success"
      BY DEF With
    <3>2. u \in DOMAIN tasks /\ (u \in plans \/ tasks[u].status = "success")
      BY <1>4, <1>8, <1>11, <3>1 DEF Walked
    <3>3. tasks'[u].foreach = tasks[u].foreach
      BY <1>9, <1>11, <3>2 DEF AsAsked
    <3> QED BY <1>4, <3>2, <3>3 DEF With
  <2>6. ASSUME NEW u \in With(tasks', "success")
        PROVE  \/ tasks'[u].foreach # "" \/ u \in drivers'[d].notes \/ drivers'[d].pause # "none"
               \/ \E b \in bodies' : b.task = u /\ b.stage \in {"judge", "note"}
    <3>1. CASE tasks'[u].foreach # "" \/ drivers[d].pause # "none"
      BY <2>2, <3>1
    <3>2. CASE u \in With(tasks, "success") /\ tasks[u].foreach = "" /\ drivers[d].pause = "none"
      <4>1. u \in drivers[d].notes \/ \E b \in bodies : b.task = u /\ b.stage \in {"judge", "note"}
        BY <1>1, <2>4, <3>2 DEF Remembered
      <4> QED BY <1>2, <2>2, <4>1
    <3> QED BY <2>5, <3>1, <3>2
  <2>7. ASSUME NEW f \in Drivers, On(f)', NEW u \in With(tasks', "success")
        PROVE  \/ tasks'[u].foreach # "" \/ u \in drivers'[f].notes \/ drivers'[f].pause # "none"
               \/ \E b \in bodies' : b.task = u /\ b.stage \in {"judge", "note"}
    BY <2>3, <2>6, <2>7
  <2> QED BY ONLY <2>7 DEF Remembered
<1> QED BY <1>3, <1>10, <1>11

LEMMA NextRemembers ==
    ASSUME LoneCalls, IInv, Alone, Serial, Serial', Remembered, [Next]_vars
    PROVE  Remembered'
<1>1. tasks \in Seq(TaskRows) /\ run \in RunRows
  BY DEF IInv, TypeOK
<1>2. ASSUME UNCHANGED <<tasks, drivers, bodies, stopping>> PROVE Remembered'
  <2>1. Follows(tasks, tasks', {})
    BY <1>1, <1>2, FollowsItself
  <2> QED BY <1>2, <2>1, AsideRemembers
<1>3. CASE UNCHANGED vars \/ Rest
  BY <1>2, <1>3 DEF Rest, vars, rows, memory
<1>4. ASSUME NEW d \in Drivers, Loop(d) PROVE Remembered'
  <2>1. CASE LoopStopped(d) \/ LoopDrained(d)
    <3>1. drivers[d].pc = "loop"
      BY <2>1 DEF LoopStopped, LoopDrained
    <3>2. Mine(d) = bodies /\ (bodies # {} => ~stopping) /\ \A e \in Drivers \ {d} : ~On(e)
      BY <3>1, LoopAlone
    <3>3. CASE bodies = {}
      <4>1. drivers' = [drivers EXCEPT ![d] = Off]
        BY <2>1, <3>2, <3>3 DEF LoopStopped, LoopDrained, Leave
      <4>2. \A e \in Drivers : ~On(e)'
        BY <3>2, <4>1 DEF On, Off, IInv, TypeOK
      <4> QED BY <4>2 DEF Remembered
    <3>4. CASE bodies # {}
      <4>1. /\ drivers' = [drivers EXCEPT ![d] = [drivers[d] EXCEPT !.pc = "wait"]]
            /\ UNCHANGED <<tasks, bodies, stopping>>
        BY <2>1, <3>2, <3>4 DEF LoopStopped, LoopDrained, Wait
      <4>2. /\ drivers'[d].notes = drivers[d].notes /\ drivers'[d].pause = drivers[d].pause
            /\ On(d) /\ \A e \in Drivers \ {d} : ~On(e)'
        BY <3>1, <3>2, <4>1 DEF IInv, TypeOK, Contexts, On
      <4>3. ASSUME NEW e \in Drivers, On(e)', NEW u \in With(tasks', "success")
            PROVE  \/ tasks'[u].foreach # "" \/ u \in drivers'[e].notes
                   \/ stopping' \/ drivers'[e].pause # "none"
                   \/ \E b \in bodies' : b.task = u /\ b.stage \in {"judge", "note"}
        <5>1. e = d /\ u \in With(tasks, "success")
          BY <4>1, <4>2, <4>3 DEF With
        <5>2. \/ tasks[u].foreach # "" \/ u \in drivers[d].notes
              \/ stopping \/ drivers[d].pause # "none"
              \/ \E b \in bodies : b.task = u /\ b.stage \in {"judge", "note"}
          BY ONLY Remembered, <4>2, <5>1 DEF Remembered
        <5>3. UNCHANGED <<tasks, bodies, stopping>>
          BY <4>1
        <5> QED BY ONLY <4>2, <5>1, <5>2, <5>3
      <4> QED BY ONLY <4>3 DEF Remembered
    <3> QED BY <3>3, <3>4
  <2> QED BY <1>4, <2>1, PassRemembers DEF Loop
<1>5. ASSUME NEW b \in bodies, Body(b) PROVE Remembered'
  BY <1>5, BodyRemembers
\* Whoever starts a driver finds none.
<1>6. ASSUME Drive(run', tasks'), ~(run.status = "running" \/ Held) \/ opening PROVE Remembered'
  <2>1. \A d \in Drivers : ~On(d)
    BY <1>6 DEF Alone
  <2> QED BY <1>6, <2>1, DrivesRemember
<1>7. CASE OpenThread
  BY <1>6, <1>7 DEF OpenThread, rows
<1>8. CASE Approve
  BY <1>6, <1>8 DEF Approve, Held
<1>9. CASE Stop
  <2>1. UNCHANGED <<tasks, drivers, bodies>>
    BY <1>9 DEF Stop
  <2>2. CASE stopping => stopping'
    <3>1. Follows(tasks, tasks', {})
      BY <1>1, <2>1, FollowsItself
    <3> QED BY <2>1, <2>2, <3>1, AsideRemembers
  <2>3. CASE ~(stopping => stopping')
    <3>1. run.status = "awaiting" /\ run.paused # "request"
      BY <1>9, <2>3 DEF Stop
    <3>2. \A d \in Drivers : ~On(d)
      BY <3>1 DEF Alone, Held
    <3>3. \A d \in Drivers : ~On(d)'
      BY <2>1, <3>2 DEF On
    <3> QED BY <3>3 DEF Remembered
  <2> QED BY <2>2, <2>3
<1>10. ASSUME NEW t \in DOMAIN tasks, Retry(t) PROVE Remembered'
  <2>1. CASE run.status = "running"
    <3>1. /\ tasks' = Append(tasks, RetryOf(tasks, t))
          /\ UNCHANGED <<drivers, bodies, stopping>>
      BY <1>10, <2>1 DEF Retry
    <3>2. RetryOf(tasks, t) \in TaskRows /\ RetryOf(tasks, t).status = "queued"
      BY <1>1, RetryOfIs
    <3>3. tasks' = tasks \o <<RetryOf(tasks, t)>>
      BY <1>1, <3>1, <3>2
    <3> DEFINE more == <<RetryOf(tasks, t)>>
    <3>5. more \in Seq(TaskRows) /\ \A i \in 1 .. Len(more) : more[i].status = "queued"
      BY <3>2
    <3> HIDE DEF more
    <3>4. Follows(tasks, tasks \o more, {})
      BY <1>1, <3>5, AddedFollows
    <3> USE DEF more
    <3> QED BY <3>1, <3>3, <3>4, AsideRemembers
  <2>2. CASE run.status # "running"
    <3>1. Drive(run', tasks') /\ run.status # "awaiting"
      BY <1>10, <2>2 DEF Retry
    <3> QED BY <1>6, <2>2, <3>1 DEF Held
  <2> QED BY <2>1, <2>2
<1>11. ASSUME NEW t \in DOMAIN tasks, Cancel(t) PROVE Remembered'
  <2>1. /\ UNCHANGED <<drivers, bodies, stopping>>
        /\ tasks' = Finish(tasks, {t}, "stopped")
    BY <1>11 DEF Cancel, memory
  <2>2. Follows(tasks, tasks', {t}) /\ tasks'[t].status = "stopped"
    BY <1>1, <2>1, FinishFollows, FinishIs DEF Statuses
  <2> QED BY <2>1, <2>2, AsideRemembers
<1>12. CASE Resuming
  <2>1. \/ (\E plan : PutBack(plan)) /\ ~Active
        \/ UNCHANGED <<tasks, drivers, bodies, stopping>>
    BY <1>12 DEF Resuming, Restored, RestoreFails, Resume, rows, Alone
  <2>2. CASE (\E plan : PutBack(plan)) /\ ~Active
    <3>1. Drive(run', tasks') /\ ~(run.status = "running" \/ Held)
      BY <2>2 DEF PutBack, Active, Held
    <3> QED BY <1>6, <3>1
  <2> QED BY <1>2, <2>1, <2>2
<1>13. CASE Crash
  <2>1. \A d \in Drivers : ~On(d)'
    BY <1>13 DEF Crash, On, Off
  <2> QED BY <2>1 DEF Remembered
<1>14. CASE \E level \in {"near", "over"} : Spend(level)
  BY <1>2, <1>14 DEF Spend
<1> QED BY <1>3, <1>4, <1>5, <1>7, <1>8, <1>9, <1>10, <1>11, <1>12, <1>13, <1>14 DEF Next, Request

\* What a task is handed is the note of something that came to an end.
LEMMA HandedIs ==
    ASSUME IInv, NEW t \in DOMAIN tasks
    PROVE  HandedBy(tasks, t) \subseteq With(tasks, "success")
<1>1. tasks \in Seq(TaskRows) /\ Len(tasks) \in Nat /\ DOMAIN tasks = 1 .. Len(tasks)
  BY DEF IInv, TypeOK
<1>2. ASSUME NEW n, Successes(tasks, n) # {}
      PROVE  Newest(Successes(tasks, n)) \in With(tasks, "success")
  <2>1. Successes(tasks, n) \in SUBSET (1 .. Len(tasks))
    BY <1>1 DEF Successes, Instances
  <2>2. Newest(Successes(tasks, n)) \in Successes(tasks, n)
    BY <1>1, <1>2, <2>1, NewestIs
  <2> QED BY <2>2 DEF Successes, Instances, With
<1> QED BY <1>2 DEF HandedBy

\* A task starts in a pass of a driver nothing holds, which goes on with the
\* notes it has.
LEMMA StartsHanded ==
    ASSUME IInv, Alone, Serial, Serial', Remembered, Kept, NEW d \in Drivers, LoopPass(d),
           NEW t \in DOMAIN tasks, Starts(t)
    PROVE  \E b \in bodies' :
              /\ b.task = t
              /\ \A u \in HandedBy(tasks, t) : tasks[u].foreach = "" => u \in drivers[b.drv].notes
<1>1. /\ drivers[d].pc = "loop" /\ ~stopping
      /\ bodies' = bodies \cup TurnsOf(d, PassStart(d) \ PassPlans(d))
  BY PassIs
<1>2. PICK b \in bodies' \ bodies : b.task = t
  BY DEF Kept
<1>3. b.drv = d /\ PassStart(d) # {}
  BY <1>1, <1>2 DEF TurnsOf
<1>4. bodies = {}
  <2>1. ASSUME NEW f \in bodies PROVE FALSE
    <3>1. f \in bodies' /\ f # b
      BY <1>1, <1>2
    <3> QED BY <3>1 DEF Serial
  <2> QED BY <2>1
<1>6. On(d) /\ drivers[d].pause = "none"
  BY <1>1, <1>3, LoopAlone, PassTells, PassStarts DEF On
<1>5. \A u \in With(tasks, "success") : tasks[u].foreach # "" \/ u \in drivers[d].notes
  BY <1>1, <1>4, <1>6 DEF Remembered
<1> QED BY <1>2, <1>3, <1>5, HandedIs

LEMMA InitRemembers == Init => Remembered
<1>1. Init => \A d \in Drivers : drivers[d].pc = "left"
  BY DEF Init, Off
<1> QED BY <1>1 DEF Remembered, On

\* Where tasks come one at a time and calls do not meet, a task starts with
\* the note of everything it builds on, whatever pauses, restarts, retries and
\* resumes the run has been through (handoffFor, rehydrate).
THEOREM NotesAreHandedOn ==
    ASSUME LoneCalls
    PROVE  Spec /\ []Serial => HandedOn
<1> DEFINE Handed == \A t \in DOMAIN tasks : Starts(t) =>
                        \E b \in bodies' :
                           /\ b.task = t
                           /\ \A u \in HandedBy(tasks, t) : tasks[u].foreach = "" => u \in drivers[b.drv].notes
<1>1. IInv /\ Alone /\ Serial /\ Serial' /\ Remembered /\ [Next]_vars => Remembered'
  BY NextRemembers
<1>2. IInv /\ Driven /\ Alone /\ Serial /\ Serial' /\ Remembered /\ [Next]_vars => [Handed]_vars
  <2> SUFFICES ASSUME IInv, Driven, Alone, Serial, Serial', Remembered, Next,
                      NEW t \in DOMAIN tasks, Starts(t)
               PROVE  \E b \in bodies' :
                         /\ b.task = t
                         /\ \A u \in HandedBy(tasks, t) : tasks[u].foreach = "" => u \in drivers[b.drv].notes
    OBVIOUS
  <2>1. Kept
    BY NextKeeps
  <2>2. ~NoTurns
    BY <2>1 DEF Kept, NoTurns
  <2>3. \E d \in Drivers : LoopPass(d)
    <3>1. Rest => NoTurns
      BY DEF Rest, vars, memory, NoTurns
    <3>2. \A d \in Drivers : LoopStopped(d) \/ LoopDrained(d) => NoTurns
      BY LoopEndsDrive
    <3>3. \A b \in bodies : Body(b) => NoTurns
      BY BodyDrives
    <3>4. OpenThread \/ Request \/ Crash => NoTurns
      BY RequestDrives, CrashDrives
    <3>5. \A level : Spend(level) => NoTurns
      BY SpendDrives
    <3> QED BY <2>2, <3>1, <3>2, <3>3, <3>4, <3>5 DEF Next, Loop
  <2> QED BY <2>1, <2>3, StartsHanded
<1> HIDE DEF Handed
<1>3. Spec /\ []Serial => [][Handed]_vars
  BY Invariance, DrivenAlways, AloneAlways, InitRemembers, <1>1, <1>2, PTL DEF Spec
<1> QED BY <1>3 DEF Handed, HandedOn

------------------------------------------------------------------------------
(* The promise, of a run whose graph always has something to decide        *)
(* (Unstuck).                                                              *)

\* What a reader is shown: the phase, how many work on it, what is left.
Phase == IF run.status # "awaiting" THEN run.status
         ELSE IF run.paused = "request" THEN "held" ELSE "waiting"
Heads == Cardinality({d \in Drivers : drivers[d].pc # "left"}) + (IF opening THEN 1 ELSE 0)
Left  == With(tasks, "queued") # {}

AtWork == Phase \in {"running", "held"}

LEMMA PhaseIs ==
    ASSUME run \in RunRows
    PROVE  /\ Phase \in {"running", "held", "waiting", "success", "failed", "stopped"}
           /\ AtWork <=> run.status = "running" \/ Held
           /\ Phase = "running" <=> run.status = "running"
           /\ Phase = "held" <=> Held
           /\ Phase = "waiting" <=> run.status = "awaiting" /\ ~Held
           /\ run.status # "awaiting" => Phase = run.status
BY DEF Phase, AtWork, Held, RunRows

\* One works on it exactly while it runs or is held.
LEMMA HeadsAre ==
    ASSUME IInv, Alone
    PROVE  /\ Heads = IF AtWork THEN 1 ELSE 0
           /\ stopping => AtWork
<1> DEFINE there == {d \in Drivers : drivers[d].pc # "left"}
<1>1. AtWork <=> run.status = "running" \/ Held
  BY PhaseIs DEF IInv, TypeOK
<1>2. CASE AtWork
  <2>1. CASE opening
    <3>1. there = {}
      BY <2>1 DEF Alone, On
    <3> QED BY <1>2, <2>1, <3>1, FS_EmptySet DEF Heads
  <2>2. CASE ~opening
    <3>1. PICK d \in Drivers : On(d)
      BY <1>1, <1>2, <2>2 DEF Alone
    <3>2. there = {d}
      BY <3>1 DEF Alone, On
    <3> QED BY <1>2, <2>2, <3>2, FS_Singleton, SMTT(30) DEF Heads
  <2> QED BY <2>1, <2>2
<1>3. CASE ~AtWork
  <2>1. there = {} /\ ~opening /\ ~stopping
    BY <1>1, <1>3 DEF Alone, On
  <2> QED BY <1>3, <2>1, FS_EmptySet DEF Heads
<1> QED BY <1>2, <1>3

Shown ==
    /\ Phase \in {"running", "held", "waiting", "success", "failed", "stopped"}
    /\ Heads = IF AtWork THEN 1 ELSE 0
    /\ stopping \in BOOLEAN /\ (stopping => AtWork)

LEMMA ShownIs == IInv /\ Alone => Shown
BY HeadsAre, PhaseIs DEF Shown, IInv, TypeOK

\* A move of the phase, of the wish to stop it and of what is left is a step
\* of the promise; who works on it follows.
Moves ==
    \/ AtWork /\ Phase' = Phase /\ UNCHANGED stopping
    \/ Phase = "running" /\ Phase' = "held" /\ UNCHANGED <<stopping, tasks>>
    \/ Phase = "held" /\ Phase' = "running" /\ UNCHANGED stopping
    \/ Phase = "running" /\ ~stopping /\ Phase' = "waiting"
    \/ /\ Phase = "running" /\ Phase' \in {"success", "failed", "stopped"}
       /\ stopping => Phase' = "stopped"
       /\ Phase' = "success" => ~Left'
    \/ ~AtWork /\ Phase' = "running" /\ ~stopping'
    \/ AtWork /\ Phase' = Phase /\ stopping' /\ UNCHANGED tasks
    \/ Phase = "waiting" /\ Phase' = "stopped" /\ UNCHANGED tasks
    \/ ~AtWork /\ Phase' = Phase
    \/ Phase \in {"running", "held", "waiting"} /\ Phase' = "failed"

LEMMA MovesMap ==
    ASSUME Shown, Shown', Moves
    PROVE  Lifecycle!Next
<1>1. Left \in BOOLEAN /\ Left' \in BOOLEAN /\ (UNCHANGED tasks => Left' = Left)
  BY DEF Left, With
<1>2. (AtWork <=> Phase \in {"running", "held"}) /\ (AtWork' <=> Phase' \in {"running", "held"})
  BY DEF AtWork
<1>3. AtWork /\ UNCHANGED <<Phase, Heads, stopping>> => Lifecycle!Work
  BY DEF Lifecycle!Work, Phase, Heads, AtWork
<1>4. Phase = "running" /\ Phase' = "held" /\ UNCHANGED <<Heads, stopping, Left>> => Lifecycle!Hold
  BY DEF Lifecycle!Hold, Phase, Heads, Left
<1>5. Phase = "held" /\ Phase' = "running" /\ UNCHANGED <<Heads, stopping>> => Lifecycle!Go
  BY DEF Lifecycle!Go, Phase, Heads
<1>6. Phase = "running" /\ ~stopping /\ Phase' = "waiting" /\ Heads' = 0 /\ UNCHANGED stopping => Lifecycle!Pause
  BY <1>1 DEF Lifecycle!Pause, Phase, Heads, Left
<1>7. ASSUME Phase = "running", Phase' \in {"success", "failed", "stopped"},
             stopping => Phase' = "stopped", Phase' = "success" => ~Left', Heads' = 0, stopping' = FALSE
      PROVE  Lifecycle!End
  BY <1>7 DEF Lifecycle!End, Lifecycle!Endings, Phase, Heads, Left
<1>8. Phase \in {"waiting", "success", "failed", "stopped"} /\ Phase' = "running" /\ Heads' = 1
      /\ UNCHANGED stopping => Lifecycle!Resume
  BY DEF Lifecycle!Resume, Lifecycle!Endings, Phase, Heads
<1>9. AtWork /\ stopping' = TRUE /\ UNCHANGED <<Phase, Heads, Left>> => Lifecycle!Stop
  BY DEF Lifecycle!Stop, Phase, Heads, Left, AtWork
<1>10. Phase = "waiting" /\ Phase' = "stopped" /\ UNCHANGED <<Heads, stopping, Left>> => Lifecycle!Stop
  BY DEF Lifecycle!Stop, Phase, Heads, Left
<1>11. ~AtWork /\ UNCHANGED <<Phase, Heads, stopping>> => Lifecycle!Cancel
  BY <1>1 DEF Lifecycle!Cancel, Phase, Heads, Left, AtWork
<1>12. Phase \in {"running", "held", "waiting"} /\ Phase' = "failed" /\ Heads' = 0 /\ stopping' = FALSE
       => Lifecycle!Die
  BY DEF Lifecycle!Die, Lifecycle!Endings, Phase, Heads
<1>13. \/ Lifecycle!Work \/ Lifecycle!Hold \/ Lifecycle!Go \/ Lifecycle!Pause \/ Lifecycle!End
       \/ Lifecycle!Resume \/ Lifecycle!Stop \/ Lifecycle!Cancel \/ Lifecycle!Die
  BY <1>1, <1>2, <1>3, <1>4, <1>5, <1>6, <1>7, <1>8, <1>9, <1>10, <1>11, <1>12 DEF Shown, Moves
<1> QED BY <1>13 DEF Lifecycle!Next

LEMMA DecideIs ==
    ASSUME NEW t
    PROVE  Decide(tasks, t) \in {"run", "skip", "wait"}
BY DEF Decide, Condition

\* A pass that starts nothing and skips nothing, though nothing holds it, found
\* everything waiting.
LEMMA PassStuck ==
    ASSUME IInv, Alone, Serial, Unstuck, NEW d \in Drivers, LoopPass(d),
           Mine(d) = {}, PassStart(d) = {}, PassSkip(d) = {},
           ~PassContext(d).failure, ~PassContext(d).halted, PassContext(d).pause = "none"
    PROVE  FALSE
<1>1. bodies = {} /\ run.status = "running" /\ With(tasks, "queued") # {}
  BY LoopAlone, PassIs
<1>2. PassFree(d) \in Nat \ {0}
  <2>1. PassRoom(d) \in Nat \ {0}
    BY EngineAssumption DEF PassRoom
  <2>2. Cardinality(Mine(d)) = 0
    BY FS_EmptySet
  <2>3. ~(Cardinality(Mine(d)) >= PassRoom(d)) /\ PassRoom(d) - Cardinality(Mine(d)) = PassRoom(d)
    BY <2>1, <2>2
  <2> QED BY <2>1, <2>3 DEF PassFree
<1>3. Ready \in SUBSET Nat /\ Decided("skip") \in SUBSET Nat
  <2>1. Ready \in SUBSET DOMAIN tasks /\ Decided("skip") \in SUBSET DOMAIN tasks /\ tasks \in Seq(TaskRows)
    BY DEF Ready, Decided, With, IInv, TypeOK
  <2> QED BY <2>1, PositionsAre
<1>4. Ready = {}
  <2> SUFFICES ASSUME Ready # {} PROVE FALSE
    OBVIOUS
  <2> DEFINE t == Oldest(Ready)
  <2>1. t \in Ready /\ \A u \in Ready : t <= u
    BY <1>3, OldestIs
  <2> HIDE DEF t
  <2>2. {u \in Ready : u < t} = {}
    <3>1. \A u \in Ready : u \in Nat /\ t \in Nat /\ ~(u < t)
      BY <1>3, <2>1
    <3> QED BY <3>1
  <2>3. Cardinality({u \in Ready : u < t}) = 0
    BY <2>2, FS_EmptySet
  <2>4. t \in PassStart(d)
    BY <1>2, <2>1, <2>3 DEF PassStart, FirstOf
  <2> QED BY <2>4
<1>5. Decided("skip") = {}
  <2>1. Cardinality(Ready) < PassFree(d)
    BY <1>2, <1>4, FS_EmptySet
  <2> QED BY <2>1 DEF PassSkip
<1>6. Decided("run") = {}
  BY <1>4, <1>5 DEF Ready
<1>7. PICK t \in With(tasks, "queued") : Decide(tasks, t) # "wait"
  BY <1>1 DEF Unstuck
<1> QED BY <1>5, <1>6, <1>7, DecideIs DEF Decided

\* The driver leaves: the run ends as its driver's context says, or waits.
LEMMA LeaveMoves ==
    ASSUME IInv, Alone, Serial, NEW d \in Drivers, drivers[d].pc = "loop",
           NEW c, NEW ts, NEW r \in RunRows, r.status = "running",
           c.pause # "none" => r.paused \notin {"none", "request"}, Leave(d, c, ts, r),
           ~stopping /\ ~c.failure /\ ~c.halted /\ c.pause = "none" => With(ts, "queued") = {}
    PROVE  Moves
<1> DEFINE ending == IF c.failure /\ ~stopping THEN "failed"
                     ELSE IF stopping \/ c.halted THEN "stopped"
                     ELSE IF c.pause # "none" THEN "awaiting" ELSE "success"
<1>1. /\ run' = [r EXCEPT !.status = ending]
      /\ tasks' = IF ending = "stopped" /\ ~stopping THEN CallOff(ts) ELSE ts
  BY DEF Leave
<1>2. run'.status = ending /\ run'.paused = r.paused
  BY <1>1 DEF RunRows
<1>3. Phase = "running"
  BY LoopAlone DEF Phase
<1>4. /\ stopping => ending = "stopped"
      /\ ending = "awaiting" => ~stopping /\ c.pause # "none"
      /\ ending = "success" => ~stopping /\ ~c.failure /\ ~c.halted /\ c.pause = "none"
      /\ ending \in {"failed", "stopped", "awaiting", "success"}
  OBVIOUS
<1> HIDE DEF ending
<1>5. CASE ending = "awaiting"
  <2>1. Phase' = "waiting"
    BY <1>2, <1>4, <1>5 DEF Phase
  <2> QED BY <1>3, <1>4, <1>5, <2>1 DEF Moves
<1>6. CASE ending # "awaiting"
  <2>1. Phase' = ending
    BY <1>2, <1>6 DEF Phase
  <2>2. ending = "success" => ~Left'
    BY <1>1, <1>4 DEF Left
  <2> QED BY <1>3, <1>4, <1>6, <2>1, <2>2 DEF Moves
<1> QED BY <1>5, <1>6

LEMMA LoopMoves ==
    ASSUME IInv, Alone, Serial, Unstuck, NEW d \in Drivers, Loop(d)
    PROVE  Moves
<1>1. drivers[d].pc = "loop"
  BY PassIs DEF Loop, LoopStopped, LoopDrained
<1>2. /\ run.status = "running" /\ (Mine(d) # {} => ~stopping)
      /\ drivers[d].pause # "none" => run.paused \notin {"none", "request"}
  BY <1>1, LoopAlone
<1>3. run \in RunRows /\ tasks \in Seq(TaskRows)
  BY DEF IInv, TypeOK
<1>4. CASE LoopStopped(d)
  BY <1>1, <1>2, <1>3, <1>4, LeaveMoves DEF LoopStopped
<1>5. CASE LoopDrained(d)
  <2>1. CASE Mine(d) = {}
    BY <1>1, <1>2, <1>3, <1>5, <2>1, LeaveMoves DEF LoopDrained
  <2>2. CASE Mine(d) # {}
    <3>1. UNCHANGED <<run, stopping>>
      BY <1>5, <2>2 DEF LoopDrained, Wait
    <3> QED BY <1>2, <3>1 DEF Moves, Phase, AtWork
  <2> QED BY <2>1, <2>2
<1>6. CASE LoopPass(d)
  <2> DEFINE c == PassContext(d)
  <2>1. /\ ~stopping
        /\ \/ run' = PassRow(d) /\ UNCHANGED stopping
           \/ /\ Mine(d) = {} /\ PassStart(d) = {} /\ PassPlans(d) \cup PassSkip(d) = {}
              /\ \E ts : Leave(d, c, ts, PassRow(d))
    BY <1>6, PassIs DEF Wait
  <2>2. /\ PassRow(d) \in RunRows /\ PassRow(d).status = "running"
        /\ c.pause # "none" => PassRow(d).paused \notin {"none", "request"}
    BY <1>2, PassTells, PassContextIs
  <2>3. CASE run' = PassRow(d) /\ UNCHANGED stopping
    BY <1>2, <2>2, <2>3 DEF Moves, Phase, AtWork
  <2>4. CASE /\ Mine(d) = {} /\ PassStart(d) = {} /\ PassPlans(d) \cup PassSkip(d) = {}
             /\ \E ts : Leave(d, c, ts, PassRow(d))
    <3>1. c.failure \/ c.halted \/ c.pause # "none"
      BY <1>6, <2>4, PassStuck
    <3> HIDE DEF c
    <3> QED BY <1>1, <2>2, <2>4, <3>1, LeaveMoves
  <2> QED BY <2>1, <2>3, <2>4
<1> QED BY <1>4, <1>5, <1>6 DEF Loop

\* A body works on a run that is running or held, and is seen to hold it, to
\* let it go or to break.
LEMMA BodyMoves ==
    ASSUME IInv, Alone, Serial, NEW b \in bodies, Body(b)
    PROVE  Moves
<1>1. run \in RunRows /\ drivers[b.drv].pc = "wait" /\ b.drv \in Drivers
  BY BodyAlone, BodyIsQuiet DEF IInv, TypeOK
<1>2. AtWork /\ Phase \in {"running", "held"}
  <2>1. On(b.drv)
    BY <1>1 DEF On
  <2>2. run.status = "running" \/ Held
    BY <1>1, <2>1 DEF Alone
  <2> QED BY <1>1, <2>2, PhaseIs DEF AtWork
<1>3. Goes \/ TurnBreaks(b)
  BY BodyKeepsAlone
<1>4. CASE TurnBreaks(b)
  <2>1. run' = [run EXCEPT !.status = "failed"]
    BY <1>1, <1>4 DEF TurnBreaks
  <2>2. Phase' = "failed"
    BY <1>1, <2>1 DEF Phase, RunRows
  <2> QED BY <1>2, <2>2 DEF Moves
<1>5. CASE Goes
  <2>1. UNCHANGED stopping /\ (Phase' = "running" \/ (Phase' = "held" /\ UNCHANGED tasks))
    BY <1>5 DEF Goes, Phase, Held
  <2> QED BY <1>2, <2>1 DEF Moves
<1> QED BY <1>3, <1>4, <1>5

LEMMA RequestMoves ==
    ASSUME IInv, Alone, OpenThread \/ Request
    PROVE  Moves
<1>1. run \in RunRows
  BY DEF IInv, TypeOK
<1>2. /\ AtWork <=> run.status = "running" \/ Held
      /\ stopping => AtWork
      /\ run.status # "awaiting" => Phase = run.status
  BY <1>1, PhaseIs, HeadsAre
<1>3. ASSUME run' = run, stopping' = stopping PROVE Moves
  BY <1>3 DEF Moves, Phase
<1>4. ASSUME ~AtWork, run'.status = "running", UNCHANGED stopping PROVE Moves
  BY <1>2, <1>4 DEF Moves, Phase
<1>5. CASE OpenThread
  BY <1>3, <1>5 DEF OpenThread, rows
<1>6. CASE Approve
  <2>1. /\ UNCHANGED stopping /\ run.status = "awaiting" /\ run.paused # "request"
        /\ run' = [IF run.paused = "budget" THEN [Paused(run, "none", FALSE) EXCEPT !.approved = TRUE]
                   ELSE run EXCEPT !.status = "running"]
    BY <1>6 DEF Approve
  <2>2. run'.status = "running"
    BY <1>1, <2>1 DEF RunRows, Paused
  <2> QED BY <1>2, <1>4, <2>1, <2>2 DEF Held
<1>7. CASE Stop
  <2>1. UNCHANGED tasks
    BY <1>7 DEF Stop
  <2>2. CASE run.status = "awaiting" /\ run.paused # "request" /\ run' = [run EXCEPT !.status = "stopped"]
    <3>1. Phase = "waiting" /\ Phase' = "stopped"
      BY <1>1, <2>2 DEF Phase, RunRows
    <3> QED BY <2>1, <3>1 DEF Moves
  <2>3. CASE (run.status = "running" \/ Held) /\ stopping' /\ run' = run
    <3>1. AtWork /\ Phase' = Phase
      BY <1>2, <2>3 DEF Phase
    <3> QED BY <2>1, <2>3, <3>1 DEF Moves
  <2> QED BY <1>7, <2>2, <2>3 DEF Stop, Held
<1>8. ASSUME NEW t \in DOMAIN tasks, Retry(t) PROVE Moves
  <2>1. UNCHANGED stopping /\ run' = Reopened(run) /\ run.status # "awaiting"
    BY <1>8 DEF Retry
  <2>2. CASE run.status = "running"
    BY <1>3, <2>1, <2>2 DEF Reopened
  <2>3. CASE run.status # "running"
    <3>1. run'.status = "running" /\ ~AtWork
      BY <1>1, <1>2, <2>1, <2>3 DEF Reopened, RunRows, Held
    <3> QED BY <1>4, <2>1, <3>1
  <2> QED BY <2>2, <2>3
<1>9. ASSUME NEW t \in DOMAIN tasks, Cancel(t) PROVE Moves
  BY <1>3, <1>9 DEF Cancel, memory
<1>10. CASE Resuming
  <2>1. \/ (\E plan : PutBack(plan)) /\ ~Active
        \/ UNCHANGED <<run, stopping>>
    BY <1>10 DEF Resuming, Restored, RestoreFails, Resume, rows, Alone
  <2>2. CASE (\E plan : PutBack(plan)) /\ ~Active
    <3>1. UNCHANGED stopping /\ run' = Reopened(run)
      BY <2>2 DEF PutBack
    <3>2. run'.status = "running" /\ ~AtWork
      BY <1>1, <1>2, <2>2, <3>1 DEF Active, Reopened, RunRows, Held
    <3> QED BY <1>4, <3>1, <3>2
  <2> QED BY <1>3, <2>1, <2>2
<1> QED BY <1>5, <1>6, <1>7, <1>8, <1>9, <1>10 DEF Request

LEMMA OthersMove ==
    ASSUME IInv, Alone, Crash \/ \E level : Spend(level)
    PROVE  Moves
<1>1. run \in RunRows
  BY DEF IInv, TypeOK
<1>2. CASE Crash
  <2>1. CASE Active
    <3>1. run'.status = "failed"
      BY <1>1, <1>2, <2>1 DEF Crash, RunRows
    <3> QED BY <1>1, <2>1, <3>1 DEF Active, Phase, Moves
  <2>2. CASE ~Active
    <3>1. run' = run
      BY <1>2, <2>2 DEF Crash
    <3>2. Phase' = Phase
      BY <3>1 DEF Phase
    <3>3. ~AtWork
      BY <1>1, <2>2, PhaseIs DEF Active, Held
    <3> QED BY <3>2, <3>3 DEF Moves
  <2> QED BY <2>1, <2>2
<1>3. ASSUME NEW level, Spend(level) PROVE Moves
  <2>1. /\ UNCHANGED stopping
        /\ run' = run \/ (run.status = "running" /\ run' = Paused(run, "budget", TRUE))
    BY <1>3 DEF Spend
  <2>2. Phase' = Phase
    BY <1>1, <2>1 DEF Phase, Paused, RunRows
  <2> QED BY <2>1, <2>2 DEF Moves
<1> QED BY <1>2, <1>3

LEMMA NextMoves ==
    ASSUME IInv, Alone, Serial, Unstuck, [Next]_vars
    PROVE  Moves
<1>1. ASSUME UNCHANGED vars PROVE Moves
  BY <1>1 DEF vars, rows, memory, Moves, Phase
<1>2. CASE Rest
  BY <1>1, <1>2 DEF Rest
<1> QED BY <1>1, <1>2, LoopMoves, BodyMoves, RequestMoves, OthersMove DEF Next

LEMMA InitPromises == Init => Lifecycle!Init
<1> SUFFICES ASSUME Init PROVE Lifecycle!Init
  OBVIOUS
<1>1. Phase = "running" /\ ~stopping
  BY DEF Init, Phase
<1>2. Heads = 1
  BY <1>1, HeadsAre, InitHolds, InitAlone DEF AtWork
<1>3. Left \in BOOLEAN
  BY DEF Left
<1> QED BY <1>1, <1>2, <1>3 DEF Lifecycle!Init, Phase, Heads, Left, Init

\* A run whose tasks come one at a time, whose graph always has something to
\* decide and whose calls do not meet keeps the promise its row makes: one
\* loop exactly while it is running or held, none while it waits or is over,
\* no way on but a person's, no gate for a run asked to stop, and no success
\* with work left in the queue (the endings of drive and runGraph).
THEOREM PromiseIsKept ==
    ASSUME LoneCalls
    PROVE  Spec /\ []Serial /\ []Unstuck => KeepsItsPromise
<1>1. IInv /\ Alone /\ Serial /\ Unstuck /\ [Next]_vars => Moves
  BY NextMoves
<1>2. Shown /\ Shown' /\ Moves => Lifecycle!Next
  BY MovesMap
<1>3. Spec /\ []Serial /\ []Unstuck => Lifecycle!Init /\ [][Lifecycle!Next]_(Lifecycle!vars)
  BY Invariance, AloneAlways, ShownIs, InitPromises, <1>1, <1>2, PTL DEF Spec
<1> QED BY <1>3 DEF KeepsItsPromise, Lifecycle!Spec

------------------------------------------------------------------------------
(* A run without a budget.  Nothing nears one, so a pass only walks the    *)
(* queue, and a driver pauses at a gate and at nothing else.               *)

Budgetless ==
    /\ spend = "low" /\ crossed = FALSE
    /\ run.paused \in {"none", "gate", "request"}
    /\ \A d \in Drivers : drivers[d].pause \in {"none", "gate"}
    /\ \A b \in bodies : b.stage # "cut"

LEMMA NoBudgetIs ==
    ASSUME Budgetless, NEW c, c.pause # "budget"
    PROVE  ~AtBudget(c) /\ ~Nears(c) /\ PausedAtBudget(c) = c
BY DEF Budgetless, AtBudget, Nears, PausedAtBudget

LEMMA PlainPass ==
    ASSUME IInv, Budgetless, NEW d \in Drivers
    PROVE  PassContext(d) = drivers[d] /\ PassRow(d) = run
<1>1. drivers[d] \in Contexts(DOMAIN tasks) /\ run \in RunRows /\ drivers[d].pause # "budget"
  BY DEF IInv, TypeOK, Budgetless
<1>2. ~AtBudget(drivers[d]) /\ ~Nears(drivers[d]) /\ PausedAtBudget(drivers[d]) = drivers[d]
  BY <1>1, NoBudgetIs
<1>3. Nearing(d) = FALSE /\ Gating(d) = FALSE
  BY <1>2 DEF Nearing, Gating
<1>4. \A c \in Contexts(DOMAIN tasks) : [c EXCEPT !.near = @ \/ FALSE, !.pause = IF FALSE THEN "threshold" ELSE @] = c
  BY DEF Contexts
<1>5. PassContext(d) = drivers[d]
  BY <1>1, <1>2, <1>3, <1>4 DEF PassContext
<1>6. HeldAtBudget(drivers[d], run) = run
  BY <1>2 DEF HeldAtBudget
<1>7. [run EXCEPT !.near = @ \/ FALSE] = run
  BY <1>1 DEF RunRows
<1> QED BY <1>3, <1>5, <1>6, <1>7 DEF PassRow, NearedRow

\* What a failed check's second try adds to the rows.
Retried(t, us) ==
    /\ tasks[t].kind = "verify" /\ MayRetry(tasks, t)
    /\ Len(us) = Len(tasks) + 2 /\ us[t].status = "failed"
    /\ us[Len(tasks) + 1] = RetryPair(tasks, CheckedTask(tasks, t), t)[1]
    /\ us[Len(tasks) + 2] = RetryPair(tasks, CheckedTask(tasks, t), t)[2]

\* What a body's step comes to, for its driver's context c, the rows ts and
\* the run's row r it leaves; "on" says that it goes on to its next await.
Brings(b, c, ts, r, on) ==
    /\ c \in Contexts(DOMAIN tasks) /\ c.pc = "wait" /\ c.pause \in {"none", "gate"}
    /\ drivers[b.drv].failure => c.failure
    /\ r.status \in {"running", "awaiting"} /\ r.paused \in {"none", "gate", "request"}
    /\ tasks[b.task].gate /\ ts[b.task].status = "success" /\ b.stage # "cut" =>
          stopping \/ on = TRUE \/ c.pause = "gate"
    /\ ts[b.task].status = "failed" /\ tasks[b.task].status # "failed" =>
          c.failure \/ ExpectsFailure(tasks, tasks[b.task].name) \/ Retried(b.task, ts)
    /\ b.stage # "turn" => ts[b.task].status = tasks[b.task].status
    /\ ts[b.task].status \in Terminal \/ (ts = tasks /\ on = TRUE)
    /\ DOMAIN ts = DOMAIN tasks \/ (b.stage = "turn" /\ Retried(b.task, ts))

\* The body asks and is answered, settles, or goes on.
Outcome(b) ==
    /\ UNCHANGED elsewhere
    /\ \A d \in Drivers \ {b.drv} : drivers'[d] = drivers[d]
    /\ \E c, on : /\ Brings(b, c, tasks', run', on)
                  /\ \/ drivers'[b.drv] = c /\ bodies' = bodies /\ b.stage = "turn" /\ tasks' = tasks
                     \/ drivers'[b.drv] = [c EXCEPT !.pc = "loop"] /\ bodies' = {} /\ on = FALSE
                     \/ /\ drivers'[b.drv] = c
                        /\ \E stage \in {"judge", "note", "close"} : bodies' = {[b EXCEPT !.stage = stage]}

LEMMA TwoMore ==
    ASSUME NEW ts \in Seq(TaskRows), NEW pair \in Seq(TaskRows), Len(pair) = 2
    PROVE  /\ ts \o pair \in Seq(TaskRows)
           /\ Len(ts \o pair) = Len(ts) + 2 /\ Len(ts) \in Nat
           /\ (ts \o pair)[Len(ts) + 1] = pair[1] /\ (ts \o pair)[Len(ts) + 2] = pair[2]
           /\ \A t \in DOMAIN ts : (ts \o pair)[t] = ts[t]
<1>1. /\ ts \o pair \in Seq(TaskRows) /\ Len(ts \o pair) = Len(ts) + 2 /\ Len(ts) \in Nat
      /\ \A i \in 1 .. Len(ts) + 2 :
            (ts \o pair)[i] = IF i <= Len(ts) THEN ts[i] ELSE pair[i - Len(ts)]
  <2>1. /\ ts \o pair \in Seq(TaskRows) /\ Len(ts \o pair) = Len(ts) + Len(pair)
        /\ \A i \in 1 .. Len(ts) + Len(pair) :
              (ts \o pair)[i] = IF i <= Len(ts) THEN ts[i] ELSE pair[i - Len(ts)]
    BY ConcatProperties
  <2>2. Len(ts) \in Nat
    OBVIOUS
  <2> QED BY <2>1, <2>2
<1>2. DOMAIN ts = 1 .. Len(ts) /\ (Len(ts) + 1) - Len(ts) = 1 /\ (Len(ts) + 2) - Len(ts) = 2
  BY <1>1
<1> QED BY <1>1, <1>2

LEMMA SettlesComesTo ==
    ASSUME IInv, Alone, Serial, Quiet, NEW b \in bodies, NEW c, NEW ts, NEW r, Settles(b, c, ts, r),
           Brings(b, c, ts, r, FALSE)
    PROVE  Outcome(b)
<1>1. bodies = {b} /\ b.drv \in Drivers
  BY BodyAlone
<1>2. /\ drivers' = [drivers EXCEPT ![b.drv] = [c EXCEPT !.pc = "loop"]]
      /\ bodies' = {} /\ run' = r /\ tasks' = ts /\ UNCHANGED elsewhere
  BY <1>1 DEF Settles, Brings
<1>3. /\ drivers'[b.drv] = [c EXCEPT !.pc = "loop"] /\ \A d \in Drivers \ {b.drv} : drivers'[d] = drivers[d]
  BY <1>1, <1>2 DEF IInv, TypeOK
<1> QED BY <1>2, <1>3 DEF Outcome

LEMMA GoesOnComesTo ==
    ASSUME IInv, Alone, Serial, Quiet, NEW b \in bodies, NEW c, NEW ts, NEW r,
           NEW stage \in {"judge", "note", "close"}, GoesOn(b, stage, c, ts, r), Brings(b, c, ts, r, TRUE)
    PROVE  Outcome(b)
<1>1. bodies = {b} /\ b.drv \in Drivers
  BY BodyAlone
<1>2. /\ drivers' = [drivers EXCEPT ![b.drv] = c]
      /\ bodies' = {[b EXCEPT !.stage = stage]} /\ run' = r /\ tasks' = ts /\ UNCHANGED elsewhere
  BY <1>1 DEF GoesOn
<1>3. /\ drivers'[b.drv] = c /\ \A d \in Drivers \ {b.drv} : drivers'[d] = drivers[d]
  BY <1>1, <1>2 DEF IInv, TypeOK
<1> QED BY <1>2, <1>3 DEF Outcome

\* Every step of a body comes to that, but for the command whose folder is gone.
LEMMA BodyComesTo ==
    ASSUME IInv, Alone, Serial, Budgetless, NEW b \in bodies, Body(b), ~TurnBreaks(b)
    PROVE  Outcome(b)
<1>0. Quiet
  BY BodyIsQuiet
<1> DEFINE t == b.task
           c == drivers[b.drv]
           Fit(e) == /\ e \in Contexts(DOMAIN tasks) /\ e.pc = "wait" /\ e.pause \in {"none", "gate"}
                     /\ c.failure => e.failure
           Row(r) == r.status \in {"running", "awaiting"} /\ r.paused \in {"none", "gate", "request"}
           Kept1(ts, st) == ts \in Seq(TaskRows) /\ DOMAIN ts = DOMAIN tasks /\ ts[t].status = st
<1>1. /\ b.drv \in Drivers /\ t \in DOMAIN tasks /\ tasks[t] \in TaskRows /\ tasks \in Seq(TaskRows)
      /\ c \in Contexts(DOMAIN tasks) /\ After(b) \in Contexts(DOMAIN tasks)
      /\ run \in RunRows /\ Released(b) \in RunRows
      /\ b.stage = "turn" => tasks[t].status = "running"
      /\ b.stage # "turn" => tasks[t].status \in Terminal
      /\ b.stage # "cut"
  BY BodyIs DEF Budgetless
<1>2. /\ c.pc = "wait" /\ c.pause = "none" /\ c.pause # "budget" /\ bodies = {b}
      /\ \A d \in Drivers \ {b.drv} : ~On(d)
      /\ After(b).pc = "wait" /\ After(b).pause = "none" /\ Released(b).status = "running"
      /\ After(b).failure = c.failure
  <2>1. After(b).failure = c.failure
    BY <1>1 DEF After, Contexts
  <2> QED BY <1>0, <2>1, BodyAlone
<1>3. Fit(c) /\ Fit(After(b))
  BY <1>1, <1>2
<1>4. Row(run) /\ Row(Released(b))
  <2>1. run.status \in {"running", "awaiting"}
    BY <1>1, <1>2 DEF Alone, Held, On
  <2> QED BY <1>1, <1>2, <2>1 DEF Budgetless, Released, RunRows
<1>5. Kept1(tasks, tasks[t].status)
  BY <1>1
<1>6. ASSUME NEW st \in {"failed", "stopped", "success"}
      PROVE  Kept1(Finish(tasks, {t}, st), st) /\ st \in Terminal
  BY <1>1, FinishIs DEF Statuses, Terminal
<1>7. ASSUME NEW ts, NEW st, Kept1(ts, st), NEW u \in DOMAIN tasks, NEW v \in VerdictValues,
             NEW by \in {"rule", "check"}
      PROVE  Kept1(Judged(ts, u, v, by), st)
  <2>1. ts \in Seq(TaskRows) /\ u \in DOMAIN ts /\ t \in DOMAIN ts
    BY <1>1, <1>7
  <2>2. /\ Judged(ts, u, v, by) \in Seq(TaskRows) /\ DOMAIN Judged(ts, u, v, by) = DOMAIN ts
        /\ Judged(ts, u, v, by)[t].status = ts[t].status
    BY ONLY <1>7, <2>1, JudgedIs
  <2> QED BY <1>7, <2>2
<1>8. ASSUME NEW e, Fit(e)
      PROVE  /\ \A x \in BOOLEAN : (c.failure => x) =>
                    Fit([e EXCEPT !.failure = x]) /\ ([e EXCEPT !.failure = x].failure = x)
             /\ Fit([e EXCEPT !.halted = TRUE]) /\ Fit([e EXCEPT !.pause = "gate"])
             /\ [e EXCEPT !.pause = "gate"].pause = "gate"
             /\ Fit([e EXCEPT !.notes = @ \cup {t}]) /\ [e EXCEPT !.notes = @ \cup {t}].pause = e.pause
             /\ [e EXCEPT !.notes = @ \cup {t}].failure = e.failure
             /\ e.failure \in BOOLEAN
             /\ \A W \in SUBSET DOMAIN tasks : Fit([e EXCEPT !.waiting = W])
  BY <1>1, <1>8 DEF Contexts, Pauses
<1>9. ~AtBudget(c) /\ PausedAtBudget(c) = c /\ HeldAtBudget(c, run) = run
  BY <1>2, NoBudgetIs DEF HeldAtBudget
<1> HIDE DEF c, Fit, Row, Kept1
<1>10. ASSUME NEW e, Fit(e), NEW ts, NEW r, Row(r), Settles(b, e, ts, r), NEW st \in Terminal, Kept1(ts, st),
              b.stage # "turn" => st = tasks[t].status,
              tasks[t].gate /\ st = "success" => stopping \/ e.pause = "gate",
              st = "failed" /\ tasks[t].status # "failed" => e.failure \/ ExpectsFailure(tasks, tasks[t].name)
       PROVE  Outcome(b)
  <2>1. Brings(b, e, ts, r, FALSE)
    BY ONLY <1>10 DEF Brings, Fit, Row, Kept1, c, t
  <2> QED BY <1>0, <1>10, <2>1, SettlesComesTo
<1>11. ASSUME NEW e, Fit(e), NEW ts, NEW r, Row(r), NEW stage \in {"judge", "note", "close"},
              GoesOn(b, stage, e, ts, r), NEW st \in Terminal, Kept1(ts, st),
              st # "failed" \/ tasks[t].status = "failed",
              b.stage # "turn" => st = tasks[t].status
       PROVE  Outcome(b)
  <2>1. Brings(b, e, ts, r, TRUE)
    BY ONLY <1>11 DEF Brings, Fit, Row, Kept1, c, t
  <2> QED BY <1>0, <1>11, <2>1, GoesOnComesTo
<1>12. CASE Ask(b) \/ Answered(b)
  <2>1. PICK W \in {c.waiting \cup {t}, c.waiting \ {t}} :
           drivers' = [drivers EXCEPT ![b.drv] = [c EXCEPT !.waiting = W]]
    BY <1>12 DEF Ask, Answered, After, c
  <2> DEFINE e == [c EXCEPT !.waiting = W]
  <2>2. Fit(e)
    <3>1. W \in SUBSET DOMAIN tasks
      BY <1>1, <2>1 DEF c, Contexts
    <3> QED BY <1>3, <1>8, <3>1
  <2>3. /\ UNCHANGED <<tasks, bodies, elsewhere>> /\ b.stage = "turn"
        /\ run' = run \/ run' = [run EXCEPT !.status = "awaiting", !.paused = "request"] \/ run' = Released(b)
    BY <1>12 DEF Ask, Answered, InTurn, At
  <2>4. Row(run')
    <3>1. Row([run EXCEPT !.status = "awaiting", !.paused = "request"])
      BY <1>1 DEF Row, RunRows
    <3> QED BY <1>4, <2>3, <3>1
  <2>5. drivers'[b.drv] = e /\ \A d \in Drivers \ {b.drv} : drivers'[d] = drivers[d]
    BY <1>1, <2>1 DEF IInv, TypeOK
  <2> HIDE DEF e
  <2>6. Brings(b, e, tasks, run', TRUE)
    BY <1>1, <2>2, <2>3, <2>4 DEF Brings, Fit, Row, c
  <2> QED BY <2>3, <2>5, <2>6 DEF Outcome, elsewhere
<1>13. CASE TurnFails(b)
  <2> DEFINE judged == tasks[t].kind \in {"agent", "verify"}
             off    == judged /\ stopping
             done   == Finish(tasks, {t}, IF off THEN "stopped" ELSE "failed")
  <2>0. PICK v \in {"failed", "needs-user"} :
           Settles(b, [After(b) EXCEPT !.failure = @ \/ ~off],
                   IF judged /\ ~off THEN Judged(done, t, v, "rule") ELSE done, Released(b))
    BY <1>13 DEF TurnFails, t
  <2> DEFINE ts == IF judged /\ ~off THEN Judged(done, t, v, "rule") ELSE done
  <2>1. /\ Settles(b, [After(b) EXCEPT !.failure = @ \/ ~off], ts, Released(b))
        /\ \/ ts = Finish(tasks, {t}, IF off THEN "stopped" ELSE "failed")
           \/ ~off /\ ts = Judged(Finish(tasks, {t}, "failed"), t, v, "rule")
    BY <2>0
  <2> HIDE DEF judged, off, done, ts
  <2>2. Kept1(ts, IF off THEN "stopped" ELSE "failed")
    BY <1>1, <1>6, <1>7, <2>1 DEF VerdictValues
  <2> DEFINE x == After(b).failure \/ ~off
  <2>3. x \in BOOLEAN /\ (c.failure => x) /\ (~off => x)
    BY <1>2, <1>3, <1>8
  <2>4. Fit([After(b) EXCEPT !.failure = x]) /\ [After(b) EXCEPT !.failure = x].failure = x
    BY <1>3, <1>8, <2>3
  <2> DEFINE e == [After(b) EXCEPT !.failure = x]
  <2>5. Settles(b, e, ts, Released(b)) /\ b.stage = "turn"
    BY <1>13, <2>1 DEF TurnFails, InTurn, At
  <2>6. Fit(e) /\ e.failure = x
    BY <2>4
  <2> HIDE DEF e, x
  <2> QED BY <1>4, <1>10, <2>2, <2>3, <2>5, <2>6 DEF Terminal
<1>14. CASE TurnStops(b)
  BY <1>3, <1>4, <1>6, <1>10, <1>14 DEF TurnStops, InTurn, At
<1>15. CASE TurnHalts(b)
  <2> DEFINE e == [After(b) EXCEPT !.halted = TRUE]
  <2>1. Fit(e)
    BY <1>3, <1>8
  <2>2. Settles(b, e, Finish(tasks, {t}, "stopped"), run) /\ b.stage = "turn"
    BY <1>15 DEF TurnHalts, InTurn, At
  <2> HIDE DEF e
  <2> QED BY <1>4, <1>6, <1>10, <2>1, <2>2
<1>16. ~TurnCut(b)
  BY DEF TurnCut, Budgetless
<1>17. CASE TurnSucceeds(b)
  <2>1. b.stage = "turn"
    BY <1>17 DEF TurnSucceeds, InTurn, At
  <2>2. CASE GoesOn(b, "judge", After(b), Finish(tasks, {t}, "success"), Released(b))
    BY <1>3, <1>4, <1>6, <1>11, <2>1, <2>2
  <2>3. CASE \E st \in {"stopped", "success"} :
                GoesOn(b, "close", [After(b) EXCEPT !.notes = @ \cup {t}], Finish(tasks, {t}, st), run)
    BY <1>3, <1>4, <1>6, <1>8, <1>11, <2>1, <2>3
  <2> QED BY <1>17, <2>2, <2>3 DEF TurnSucceeds
<1>18. ASSUME NEW ok \in BOOLEAN, NEW v \in VerdictValues, CheckEnds(b, ok, v)
       PROVE  Outcome(b)
  <2> DEFINE st   == IF stopping THEN "stopped" ELSE IF ok THEN "success" ELSE "failed"
             done == Finish(tasks, {t}, st)
             own  == Judged(done, t, v, "check")
             work == CheckedTask(tasks, t)
             ts   == IF stopping THEN done
                     ELSE IF work # 0 /\ Speaks(v, tasks[work].verdict) THEN Judged(own, work, v, "check")
                     ELSE own
             e    == [After(b) EXCEPT !.notes = @ \cup {t}]
             x    == ~ExpectsFailure(tasks, tasks[t].name)
  <2>1. work # 0 => work \in DOMAIN tasks
    BY <1>1, CheckedTaskIs
  <2>2. Kept1(done, st)
    BY <1>6
  <2>3. Kept1(own, st)
    BY <1>1, <1>7, <2>2
  <2>4. Kept1(ts, st)
    <3> HIDE DEF done, own, work, st
    <3> QED BY <1>7, <2>1, <2>2, <2>3
  <2>5. Fit(e) /\ e.pause = "none" /\ e.failure = c.failure /\ e.failure \in BOOLEAN
    BY <1>2, <1>3, <1>8
  <2>6. ~AtBudget(e)
    BY <2>5, NoBudgetIs
  <2>7. /\ b.stage = "turn" /\ tasks[t].kind = "verify"
        /\ \/ (ok \/ stopping) /\ GoesOn(b, "close", e, ts, run)
           \/ /\ ~ok /\ ~stopping /\ MayRetry(tasks, t)
              /\ Settles(b, e, ts \o RetryPair(tasks, work, t), run)
           \/ ~ok /\ ~stopping /\ Settles(b, [e EXCEPT !.failure = @ \/ x], ts, run)
    BY <1>18, <2>6 DEF CheckEnds, InTurn, At
  <2> HIDE DEF ts, e, done, own
  <2>8. CASE (ok \/ stopping) /\ GoesOn(b, "close", e, ts, run)
    BY <1>4, <1>11, <2>4, <2>5, <2>7, <2>8 DEF Terminal
  <2>9. CASE /\ ~ok /\ ~stopping /\ MayRetry(tasks, t)
             /\ Settles(b, e, ts \o RetryPair(tasks, work, t), run)
    <3> DEFINE us == ts \o RetryPair(tasks, work, t)
    <3>1. st = "failed" /\ ts \in Seq(TaskRows) /\ DOMAIN ts = DOMAIN tasks /\ ts[t].status = "failed"
      BY <2>4, <2>9 DEF Kept1
    <3>2. work \in DOMAIN tasks /\ tasks[t].retries > 0
      BY <2>1, <2>9 DEF MayRetry
    <3>3. RetryPair(tasks, work, t) \in Seq(TaskRows) /\ Len(RetryPair(tasks, work, t)) = 2
      BY <1>1, <3>2, RetryPairIs
    <3>4. Len(ts) = Len(tasks) /\ Len(tasks) \in Nat
      BY <1>1, <3>1
    <3>5. /\ Len(us) = Len(tasks) + 2 /\ us[t] = ts[t]
          /\ us[Len(tasks) + 1] = RetryPair(tasks, work, t)[1]
          /\ us[Len(tasks) + 2] = RetryPair(tasks, work, t)[2]
      <4> DEFINE pair == RetryPair(tasks, work, t)
      <4>1. pair \in Seq(TaskRows) /\ Len(pair) = 2
        BY <3>3
      <4> HIDE DEF pair
      <4>2. /\ Len(ts \o pair) = Len(ts) + 2 /\ \A i \in DOMAIN ts : (ts \o pair)[i] = ts[i]
            /\ (ts \o pair)[Len(ts) + 1] = pair[1] /\ (ts \o pair)[Len(ts) + 2] = pair[2]
        BY <3>1, <4>1, TwoMore
      <4>3. t \in DOMAIN ts
        BY <1>1, <3>1
      <4> QED BY <3>4, <4>2, <4>3 DEF pair
    <3> HIDE DEF us
    <3>6. Retried(t, us)
      BY <2>7, <2>9, <3>1, <3>5 DEF Retried
    <3>7. Brings(b, e, us, run, FALSE)
      BY <1>1, <1>4, <2>5, <2>7, <3>1, <3>5, <3>6 DEF Brings, Fit, Row, Terminal, c
    <3> QED BY <1>0, <2>9, <3>7, SettlesComesTo DEF us
  <2>10. CASE ~ok /\ ~stopping /\ Settles(b, [e EXCEPT !.failure = @ \/ x], ts, run)
    <3> DEFINE y == e.failure \/ x
               g == [e EXCEPT !.failure = y]
    <3>1. y \in BOOLEAN /\ (c.failure => y) /\ (y \/ ExpectsFailure(tasks, tasks[t].name))
      BY <2>5 DEF ExpectsFailure
    <3> HIDE DEF y
    <3>2. Fit(g) /\ g.failure = y
      BY <1>8, <2>5, <3>1
    <3>3. Settles(b, g, ts, run)
      BY <2>10 DEF y
    <3>4. st = "failed"
      BY <2>10
    <3> HIDE DEF g
    <3> QED BY <1>4, <1>10, <2>4, <2>7, <3>1, <3>2, <3>3, <3>4 DEF Terminal
  <2> QED BY <2>7, <2>8, <2>9, <2>10
<1>19. \A ok \in BOOLEAN, v \in VerdictValues : CheckEnds(b, ok, v) => Outcome(b)
  BY <1>18
<1>20. Check(b) => \E ok \in BOOLEAN, v \in VerdictValues : CheckEnds(b, ok, v)
  BY DEF Check, VerdictValues
<1>21. CASE Judge(b)
  <2>1. PICK v \in VerdictValues :
           \/ stopping /\ Settles(b, c, Judged(tasks, t, v, "rule"), run)
           \/ GoesOn(b, "note", c, Judged(tasks, t, v, "rule"), run)
    BY <1>9, <1>21 DEF Judge, c, t, VerdictValues
  <2>2. Kept1(Judged(tasks, t, v, "rule"), tasks[t].status)
    BY <1>1, <1>5, <1>7
  <2>3. tasks[t].status \in Terminal
    BY <1>1, <1>21 DEF Judge, At
  <2> QED BY <1>3, <1>4, <1>10, <1>11, <2>1, <2>2, <2>3
<1>22. CASE Note(b)
  <2>1. tasks[t].status \in Terminal
    BY <1>1, <1>22 DEF Note, At
  <2> QED BY <1>3, <1>4, <1>5, <1>8, <1>11, <1>22, <2>1 DEF Note, c
<1>23. CASE Close(b)
  <2>1. \/ tasks[t].gate /\ ~stopping /\ Settles(b, [c EXCEPT !.pause = "gate"], tasks, Paused(run, "gate", FALSE))
        \/ ~(tasks[t].gate /\ ~stopping) /\ Settles(b, c, tasks, run)
    BY <1>23 DEF Close, c
  <2>2. Row(Paused(run, "gate", FALSE))
    BY <1>1, <1>4 DEF Row, Paused, RunRows
  <2> DEFINE e == [c EXCEPT !.pause = "gate"]
  <2>3. Fit(e) /\ e.pause = "gate"
    BY <1>3, <1>8
  <2> HIDE DEF e
  <2>0. tasks[t].status \in Terminal
    BY <1>1, <1>23 DEF Close, At
  <2>4. CASE ~(tasks[t].gate /\ ~stopping) /\ Settles(b, c, tasks, run)
    BY <1>3, <1>4, <1>5, <1>10, <2>0, <2>4
  <2>5. CASE Settles(b, e, tasks, Paused(run, "gate", FALSE))
    BY <1>5, <1>10, <2>0, <2>2, <2>3, <2>5
  <2> QED BY <2>1, <2>4, <2>5 DEF e
<1>24. ~CloseCut(b)
  BY <1>1 DEF CloseCut, At
<1> QED BY <1>12, <1>13, <1>14, <1>15, <1>16, <1>17, <1>19, <1>20, <1>21, <1>22, <1>23, <1>24
        DEF Body, TurnEnds, GoOn

\* How the run of a driver that leaves with context c ends.
EndingOf(c) == IF c.failure /\ ~stopping THEN "failed"
               ELSE IF stopping \/ c.halted THEN "stopped"
               ELSE IF c.pause # "none" THEN "awaiting" ELSE "success"

Ending(d) == EndingOf(drivers[d])

\* A loop leaves, and calls off what is queued when the run is stopped;
Leaves(d) ==
    /\ bodies = {} /\ bodies' = {} /\ drivers'[d] = Off
    /\ run' = [run EXCEPT !.status = Ending(d)] /\ stopping' = FALSE /\ crossed' = FALSE
    /\ Follows(tasks, tasks', With(tasks, "queued")) /\ DOMAIN tasks' = DOMAIN tasks
    /\ \A t \in DOMAIN tasks : \/ tasks'[t].status = tasks[t].status
                               \/ Ending(d) = "stopped" /\ tasks'[t].status = "stopped"

\* or waits for what is in flight;
Waits(d) ==
    /\ bodies # {} /\ UNCHANGED <<tasks, bodies, run, stopping, crossed>>
    /\ drivers'[d] = [drivers[d] EXCEPT !.pc = "wait"]

\* or walks the queue, and goes round again or waits.
Passes(d) ==
    /\ ~stopping /\ UNCHANGED <<run, stopping, crossed>>
    /\ \/ drivers'[d] = drivers[d] /\ PassPlans(d) \cup PassSkip(d) # {}
       \/ drivers'[d] = [drivers[d] EXCEPT !.pc = "wait"] /\ PassPlans(d) \cup PassSkip(d) = {}
    /\ bodies' = bodies \cup TurnsOf(d, PassStart(d) \ PassPlans(d))
    /\ Walked(tasks', PassStart(d), PassPlans(d), PassSkip(d))
    /\ \A t \in DOMAIN tasks : AsAsked(tasks[t], tasks'[t])
    /\ \A t \in DOMAIN tasks' \ DOMAIN tasks :
          PassPlans(d) # {} /\ tasks'[t] = StepOf(tasks[Oldest(PassPlans(d))])
    /\ PassStart(d) # {} => drivers[d].pause = "none" /\ ~drivers[d].failure /\ ~drivers[d].halted

LEMMA LeaveIs ==
    ASSUME NEW d, NEW c, NEW ts, NEW r, r.status = "running", Leave(d, c, ts, r)
    PROVE  /\ drivers' = [drivers EXCEPT ![d] = Off] /\ run' = [r EXCEPT !.status = EndingOf(c)]
           /\ stopping' = (stopping /\ EndingOf(c) = "awaiting") /\ crossed' = (crossed /\ EndingOf(c) = "awaiting")
           /\ tasks' = IF EndingOf(c) = "stopped" /\ ~stopping THEN CallOff(ts) ELSE ts
<1>1. drivers' = [drivers EXCEPT ![d] = Off] /\ run' = [r EXCEPT !.status = EndingOf(c)]
  BY DEF Leave, EndingOf
<1>2. stopping' = (stopping /\ EndingOf(c) = "awaiting") /\ crossed' = (crossed /\ EndingOf(c) = "awaiting")
  BY Zenon DEF Leave, EndingOf
<1>3. tasks' = IF EndingOf(c) = "stopped" /\ ~stopping THEN CallOff(ts) ELSE ts
  BY Zenon DEF Leave, EndingOf
<1> QED BY <1>1, <1>2, <1>3

LEMMA LoopEndsComesTo ==
    ASSUME IInv, Alone, Serial, Budgetless, NEW d \in Drivers, LoopStopped(d) \/ LoopDrained(d)
    PROVE  Leaves(d) \/ Waits(d)
<1>1. drivers[d].pc = "loop"
  BY DEF LoopStopped, LoopDrained
<1>2. Mine(d) = bodies /\ (bodies # {} => ~stopping) /\ run.status = "running"
  BY <1>1, LoopAlone
<1>3. tasks \in Seq(TaskRows) /\ drivers \in [Drivers -> Contexts(DOMAIN tasks)] /\ stopping \in BOOLEAN
  BY DEF IInv, TypeOK
<1>4. ASSUME bodies # {} PROVE Waits(d)
  <2>1. LoopDrained(d)
    BY <1>2, <1>4 DEF LoopStopped
  <2> QED BY <1>2, <1>3, <1>4, <2>1 DEF LoopDrained, Wait, Waits
<1>5. ASSUME bodies = {} PROVE Leaves(d)
  <2>1. PICK ts \in {tasks, CallOff(tasks)} :
           Leave(d, drivers[d], ts, run) /\ (ts = tasks \/ stopping) /\ bodies' = bodies
    BY <1>2, <1>5 DEF LoopStopped, LoopDrained
  <2>2. /\ drivers' = [drivers EXCEPT ![d] = Off] /\ run' = [run EXCEPT !.status = Ending(d)]
        /\ stopping' = (stopping /\ Ending(d) = "awaiting") /\ crossed' = (crossed /\ Ending(d) = "awaiting")
        /\ tasks' = IF Ending(d) = "stopped" /\ ~stopping THEN CallOff(ts) ELSE ts
    BY <1>2, <2>1, LeaveIs DEF Ending
  <2>3. /\ stopping' = FALSE /\ crossed' = FALSE /\ drivers'[d] = Off
        /\ stopping => Ending(d) = "stopped"
    BY <1>3, <2>2 DEF Ending, EndingOf, Budgetless
  <2>4. tasks' = tasks \/ (Ending(d) = "stopped" /\ tasks' = CallOff(tasks))
    BY <2>1, <2>2, <2>3
  <2>5. ASSUME tasks' = tasks
        PROVE  /\ Follows(tasks, tasks', With(tasks, "queued")) /\ DOMAIN tasks' = DOMAIN tasks
               /\ \A t \in DOMAIN tasks : tasks'[t].status = tasks[t].status
    BY <1>3, <2>5, FollowsItself
  <2>6. ASSUME tasks' = CallOff(tasks)
        PROVE  /\ Follows(tasks, tasks', With(tasks, "queued")) /\ DOMAIN tasks' = DOMAIN tasks
               /\ \A t \in DOMAIN tasks : tasks'[t].status \in {tasks[t].status, "stopped"}
    BY <1>3, <2>6, FinishFollows, FinishIs DEF CallOff, Statuses
  <2>7. /\ Follows(tasks, tasks', With(tasks, "queued")) /\ DOMAIN tasks' = DOMAIN tasks
        /\ \A t \in DOMAIN tasks : \/ tasks'[t].status = tasks[t].status
                                   \/ Ending(d) = "stopped" /\ tasks'[t].status = "stopped"
    BY <2>4, <2>5, <2>6
  <2> QED BY <1>5, <2>1, <2>2, <2>3, <2>7 DEF Leaves
<1> QED BY <1>4, <1>5

LEMMA PassComesTo ==
    ASSUME IInv, Alone, Serial, Budgetless, NEW d \in Drivers, LoopPass(d)
    PROVE  Leaves(d) \/ Passes(d)
<1>1. /\ drivers[d].pc = "loop" /\ ~stopping
      /\ bodies' = bodies \cup TurnsOf(d, PassStart(d) \ PassPlans(d))
  BY PassIs
<1>2. Mine(d) = bodies /\ PassContext(d) = drivers[d] /\ PassRow(d) = run /\ run.status = "running"
  BY <1>1, LoopAlone, PlainPass
<1>3. /\ tasks \in Seq(TaskRows) /\ drivers \in [Drivers -> Contexts(DOMAIN tasks)] /\ stopping \in BOOLEAN
      /\ run \in RunRows
  BY DEF IInv, TypeOK
<1>4. /\ PassStart(d) \in SUBSET With(tasks, "queued") /\ PassSkip(d) \in SUBSET With(tasks, "queued")
      /\ PassStart(d) \cap PassSkip(d) = {} /\ PassPlans(d) \in SUBSET PassStart(d)
  BY PassSets
<1>5. PICK n \in PassSteps(d) :
         \/ /\ PassPlans(d) \cup PassSkip(d) # {}
            /\ drivers' = [drivers EXCEPT ![d] = drivers[d]]
            /\ tasks' = PassRows(d, n) /\ run' = run /\ UNCHANGED <<stopping, crossed>>
         \/ /\ PassPlans(d) \cup PassSkip(d) = {} /\ bodies = {} /\ PassStart(d) = {}
            /\ Leave(d, drivers[d], PassRows(d, n), run)
         \/ /\ PassPlans(d) \cup PassSkip(d) = {} /\ ~(bodies = {} /\ PassStart(d) = {})
            /\ Wait(d, drivers[d], PassRows(d, n), run)
  BY <1>2, PassIs
<1>6. /\ PassAdds(d, n) \in Seq(TaskRows)
      /\ \A i \in 1 .. Len(PassAdds(d, n)) : PassAdds(d, n)[i].status = "queued"
  BY PassAddsAre
<1> DEFINE us == PassRows(d, n)
<1>7. /\ Walked(us, PassStart(d), PassPlans(d), PassSkip(d))
      /\ \A t \in DOMAIN tasks : AsAsked(tasks[t], us[t])
  BY <1>4, <1>6, WalkedIs, WalkFollows DEF PassRows
<1>8. /\ DOMAIN us = 1 .. Len(us) /\ Len(us) = Len(tasks) + n /\ n \in Nat /\ Len(tasks) \in Nat
      /\ PassPlans(d) = {} => n = 0
      /\ \A i \in 1 .. n : us[Len(tasks) + i] = StepOf(tasks[Oldest(PassPlans(d))])
  <2>1. n \in Nat /\ (PassPlans(d) = {} => n = 0)
    <3>1. MaxSteps \in Nat
      BY EngineAssumption
    <3> QED BY <3>1 DEF PassSteps
  <2>2. PassAdds(d, n) \in Seq(TaskRows) /\ Len(PassAdds(d, n)) = n
    BY <1>6, <2>1 DEF PassAdds
  <2> DEFINE begun == Begin(tasks, PassStart(d))
             planned == Finish(begun, PassPlans(d), "success")
             walked == Finish(planned, PassSkip(d), "skipped")
             more == PassAdds(d, n)
  <2>3. begun \in Seq(TaskRows) /\ Len(begun) = Len(tasks)
    BY <1>3, BeginIs
  <2> HIDE DEF begun
  <2>4. planned \in Seq(TaskRows) /\ Len(planned) = Len(tasks)
    BY <2>3, FinishIs DEF Statuses
  <2> HIDE DEF planned
  <2>5. walked \in Seq(TaskRows) /\ Len(walked) = Len(tasks)
    BY <2>4, FinishIs DEF Statuses
  <2>6. us = walked \o more
    BY DEF PassRows, Walk, walked, planned, begun
  <2>7. \A i \in 1 .. n : more[i] = StepOf(tasks[Oldest(PassPlans(d))])
    BY DEF PassAdds
  <2> HIDE DEF walked, more, us
  <2>8. more \in Seq(TaskRows) /\ Len(more) = n
    BY <2>2 DEF more
  <2>9. /\ Len(walked \o more) = Len(walked) + Len(more) /\ walked \o more \in Seq(TaskRows)
        /\ \A i \in 1 .. Len(walked) + Len(more) :
              (walked \o more)[i] = IF i <= Len(walked) THEN walked[i] ELSE more[i - Len(walked)]
    BY <2>5, <2>8, ConcatProperties
  <2>10. Len(tasks) \in Nat
    BY <1>3
  <2>11. ASSUME NEW i \in 1 .. n
         PROVE  us[Len(tasks) + i] = StepOf(tasks[Oldest(PassPlans(d))])
    <3>1. /\ Len(tasks) + i \in 1 .. Len(walked) + Len(more) /\ ~(Len(tasks) + i <= Len(walked))
          /\ (Len(tasks) + i) - Len(walked) = i
      BY <2>1, <2>5, <2>8, <2>10
    <3>2. us[Len(tasks) + i] = more[i]
      BY <2>6, <2>9, <3>1
    <3> QED BY <2>7, <3>2
  <2>12. Len(us) = Len(tasks) + n /\ DOMAIN us = 1 .. Len(us)
    BY <2>5, <2>6, <2>8, <2>9
  <2> QED BY <2>1, <2>10, <2>11, <2>12
<1> HIDE DEF us
<1>9. \A t \in DOMAIN us \ DOMAIN tasks :
         PassPlans(d) # {} /\ us[t] = StepOf(tasks[Oldest(PassPlans(d))])
  <2>1. ASSUME NEW t \in DOMAIN us \ DOMAIN tasks
        PROVE  PassPlans(d) # {} /\ us[t] = StepOf(tasks[Oldest(PassPlans(d))])
    <3>1. DOMAIN tasks = 1 .. Len(tasks)
      BY <1>3
    <3>2. t - Len(tasks) \in 1 .. n /\ t = Len(tasks) + (t - Len(tasks)) /\ n # 0
      BY <1>8, <2>1, <3>1
    <3> QED BY <1>8, <3>2
  <2> QED BY <2>1
<1>10. PassStart(d) # {} => drivers[d].pause = "none" /\ ~drivers[d].failure /\ ~drivers[d].halted
  BY <1>2, PassStarts
<1>11. ASSUME Leave(d, drivers[d], us, run), bodies = {}, PassStart(d) = {}, PassPlans(d) \cup PassSkip(d) = {}
       PROVE  Leaves(d)
  <2>1. /\ drivers' = [drivers EXCEPT ![d] = Off] /\ run' = [run EXCEPT !.status = Ending(d)]
        /\ stopping' = (stopping /\ Ending(d) = "awaiting") /\ crossed' = (crossed /\ Ending(d) = "awaiting")
        /\ tasks' = IF Ending(d) = "stopped" /\ ~stopping THEN CallOff(us) ELSE us
    BY <1>2, <1>11, LeaveIs DEF Ending
  <2>2. stopping' = FALSE /\ crossed' = FALSE /\ drivers'[d] = Off /\ bodies' = {}
    BY <1>1, <1>3, <1>11, <2>1 DEF Budgetless, TurnsOf
  <2>3. us \in Seq(TaskRows) /\ DOMAIN us = DOMAIN tasks
    BY <1>3, <1>8, <1>7, <1>11 DEF Walked
  <2>4. \A t \in DOMAIN tasks : us[t].status = tasks[t].status
    BY <1>7, <1>11 DEF Walked
  <2>5. Follows(tasks, us, With(tasks, "queued"))
    BY <1>7, <2>3, <2>4 DEF Follows
  <2>6. With(us, "queued") = With(tasks, "queued")
    BY <2>3, <2>4 DEF With
  <2>7. /\ Follows(us, CallOff(us), With(tasks, "queued")) /\ DOMAIN CallOff(us) = DOMAIN tasks
        /\ \A t \in DOMAIN tasks : CallOff(us)[t].status \in {us[t].status, "stopped"}
    BY <2>3, <2>6, FinishFollows, FinishIs DEF CallOff, Statuses
  <2>8. Follows(tasks, CallOff(us), With(tasks, "queued"))
    BY <2>5, <2>7, FollowsOn DEF With
  <2>9. /\ Follows(tasks, tasks', With(tasks, "queued")) /\ DOMAIN tasks' = DOMAIN tasks
        /\ \A t \in DOMAIN tasks : \/ tasks'[t].status = tasks[t].status
                                   \/ Ending(d) = "stopped" /\ tasks'[t].status = "stopped"
    BY <2>1, <2>3, <2>4, <2>5, <2>7, <2>8
  <2> QED BY <1>11, <2>1, <2>2, <2>9 DEF Leaves
<1>12. ASSUME tasks' = us, run' = run, UNCHANGED <<stopping, crossed>>,
              \/ drivers' = [drivers EXCEPT ![d] = drivers[d]] /\ PassPlans(d) \cup PassSkip(d) # {}
              \/ drivers' = [drivers EXCEPT ![d] = [drivers[d] EXCEPT !.pc = "wait"]]
                 /\ PassPlans(d) \cup PassSkip(d) = {}
       PROVE  Passes(d)
  <2>1. \/ drivers'[d] = drivers[d] /\ PassPlans(d) \cup PassSkip(d) # {}
        \/ drivers'[d] = [drivers[d] EXCEPT !.pc = "wait"] /\ PassPlans(d) \cup PassSkip(d) = {}
    BY <1>3, <1>12
  <2> QED BY <1>1, <1>7, <1>9, <1>10, <1>12, <2>1 DEF Passes
<1> QED BY <1>5, <1>11, <1>12 DEF Wait, us

\* Every round of a loop comes to one of the three.
LEMMA LoopComesTo ==
    ASSUME IInv, Alone, Serial, Budgetless, NEW d \in Drivers, Loop(d)
    PROVE  /\ drivers[d].pc = "loop" /\ run.status = "running" /\ \A e \in Drivers \ {d} : ~On(e)
           /\ UNCHANGED <<opening, spend, resumes, passed, crashes>>
           /\ \A e \in Drivers \ {d} : drivers'[e] = drivers[e]
           /\ Leaves(d) \/ Waits(d) \/ Passes(d)
<1>1. drivers[d].pc = "loop" /\ UNCHANGED <<opening, spend, resumes, passed, crashes>>
  BY PassIs DEF Loop, LoopStopped, LoopDrained
<1>2. \A e \in Drivers \ {d} : drivers'[e] = drivers[e]
  <2>1. \E c : drivers' = [drivers EXCEPT ![d] = c]
    BY PassIs DEF Loop, LoopStopped, LoopDrained, Leave, Wait
  <2> QED BY <2>1 DEF IInv, TypeOK
<1> QED BY <1>1, <1>2, LoopAlone, LoopEndsComesTo, PassComesTo DEF Loop

LEMMA RequestBudgetless ==
    ASSUME IInv, Budgetless, OpenThread \/ Request
    PROVE  Budgetless'
<1>1. run \in RunRows /\ drivers \in [Drivers -> Contexts(DOMAIN tasks)] /\ spend = "low"
  BY DEF IInv, TypeOK, Budgetless
<1>2. ASSUME NEW r, NEW ts, Drive(r, ts)
      PROVE  \A d \in Drivers : drivers'[d].pause \in {"none", "gate"}
  <2>1. Entered(r, ts).pause = "none"
    BY DEF Entered, Off
  <2>2. \A d \in Drivers : drivers'[d] \in {drivers[d], Entered(r, ts)}
    BY <1>1, <1>2 DEF Drive
  <2> QED BY <2>1, <2>2 DEF Budgetless
<1>3. Reopened(run).paused = run.paused
  BY <1>1 DEF Reopened, RunRows
<1>4. ASSUME run'.paused = run.paused, UNCHANGED <<bodies, spend>>, crossed' = FALSE,
             UNCHANGED drivers \/ \E r, ts : Drive(r, ts)
      PROVE  Budgetless'
  BY <1>2, <1>4 DEF Budgetless
<1>5. crossed = FALSE /\ run.paused # "budget"
  BY DEF Budgetless
<1>6. CASE OpenThread
  BY <1>4, <1>5, <1>6 DEF OpenThread, rows
<1>7. CASE Approve
  <2>1. run' = [run EXCEPT !.status = "running"] /\ crossed' = FALSE
    BY <1>5, <1>7 DEF Approve
  <2>2. run'.paused = run.paused
    BY <1>1, <2>1 DEF RunRows
  <2> QED BY <1>4, <1>7, <2>1, <2>2 DEF Approve
<1>8. CASE Stop
  <2>1. run'.paused = run.paused /\ crossed' = FALSE
    BY <1>1, <1>5, <1>8 DEF Stop, RunRows
  <2> QED BY <1>4, <1>8, <2>1 DEF Stop
<1>9. ASSUME NEW t \in DOMAIN tasks, Retry(t) PROVE Budgetless'
  BY <1>3, <1>4, <1>5, <1>9 DEF Retry
<1>10. ASSUME NEW t \in DOMAIN tasks, Cancel(t) PROVE Budgetless'
  BY <1>4, <1>5, <1>10 DEF Cancel, memory
<1>11. CASE Resuming
  <2>1. \/ (\E plan : PutBack(plan)) /\ UNCHANGED spend
        \/ UNCHANGED <<run, drivers, bodies, crossed, spend>>
    BY <1>11 DEF Resuming, Restored, RestoreFails, Resume, PutBack, rows
  <2>2. ASSUME NEW plan, PutBack(plan), UNCHANGED spend PROVE Budgetless'
    BY <1>3, <1>4, <1>5, <2>2 DEF PutBack
  <2> QED BY <1>4, <1>5, <2>1, <2>2
<1> QED BY <1>6, <1>7, <1>8, <1>9, <1>10, <1>11 DEF Request

LEMMA NextBudgetless ==
    ASSUME ~Budgeted, IInv, Alone, Serial, Budgetless, [Next]_vars
    PROVE  Budgetless'
<1>1. run \in RunRows /\ drivers \in [Drivers -> Contexts(DOMAIN tasks)] /\ bodies \subseteq BodyRows(DOMAIN tasks)
  BY DEF IInv, TypeOK
<1>2. CASE UNCHANGED vars \/ Rest
  BY <1>2 DEF Rest, vars, rows, memory, Budgetless
<1>3. ASSUME NEW d \in Drivers, Loop(d) PROVE Budgetless'
  <2>1. /\ UNCHANGED <<opening, spend, resumes, passed, crashes>>
        /\ \A e \in Drivers \ {d} : drivers'[e] = drivers[e]
        /\ Leaves(d) \/ Waits(d) \/ Passes(d)
    BY <1>3, LoopComesTo
  <2>2. /\ run'.paused = run.paused /\ crossed' = FALSE
        /\ drivers'[d].pause \in {"none", drivers[d].pause}
        /\ \A b \in bodies' : b \in bodies \/ b.stage = "turn"
    <3>1. CASE Leaves(d)
      BY <1>1, <3>1 DEF Leaves, Off, RunRows
    <3>2. CASE Waits(d)
      BY <1>1, <3>2 DEF Waits, Contexts, Budgetless
    <3>3. CASE Passes(d)
      BY <1>1, <3>3 DEF Passes, Contexts, Budgetless, TurnsOf
    <3> QED BY <2>1, <3>1, <3>2, <3>3
  <2> QED BY <2>1, <2>2 DEF Budgetless
<1>4. ASSUME NEW b \in bodies, Body(b), ~TurnBreaks(b) PROVE Budgetless'
  <2>1. Outcome(b)
    BY <1>4, BodyComesTo
  <2>2. PICK c, on : /\ Brings(b, c, tasks', run', on)
                     /\ \/ drivers'[b.drv] = c /\ bodies' = bodies
                        \/ drivers'[b.drv] = [c EXCEPT !.pc = "loop"] /\ bodies' = {}
                        \/ /\ drivers'[b.drv] = c
                           /\ \E stage \in {"judge", "note", "close"} : bodies' = {[b EXCEPT !.stage = stage]}
    BY <2>1 DEF Outcome
  <2>3. drivers'[b.drv].pause \in {"none", "gate"} /\ run'.paused \in {"none", "gate", "request"}
    BY <2>2 DEF Brings, Contexts
  <2>4. \A f \in bodies' : f \in bodies \/ f.stage # "cut"
    BY <1>1, <2>2 DEF BodyRows
  <2>5. UNCHANGED <<spend, crossed>> /\ \A d \in Drivers \ {b.drv} : drivers'[d] = drivers[d]
    BY <2>1 DEF Outcome, elsewhere
  <2> QED BY <2>3, <2>4, <2>5 DEF Budgetless
<1>5. ASSUME NEW b \in bodies, TurnBreaks(b) PROVE Budgetless'
  <2>1. /\ bodies' \subseteq bodies /\ UNCHANGED spend /\ crossed' = FALSE
        /\ run' \in {run, [run EXCEPT !.status = "failed"]}
        /\ drivers' = [drivers EXCEPT ![b.drv].pc = "left"]
    BY <1>5 DEF TurnBreaks, Budgetless
  <2>2. run'.paused = run.paused /\ \A d \in Drivers : drivers'[d].pause = drivers[d].pause
    BY <1>1, <2>1 DEF RunRows, Contexts
  <2> QED BY <2>1, <2>2 DEF Budgetless
<1>6. CASE Crash
  <2>1. run'.paused = run.paused /\ \A d \in Drivers : drivers'[d].pause = "none"
    BY <1>1, <1>6 DEF Crash, Off, RunRows
  <2> QED BY <1>6, <2>1 DEF Crash, Budgetless
<1>7. ~\E level \in {"near", "over"} : Spend(level)
  BY DEF Spend
<1> QED BY <1>2, <1>3, <1>4, <1>5, <1>6, <1>7, RequestBudgetless DEF Next

LEMMA InitBudgetless == Init => Budgetless
BY DEF Init, Budgetless, Off

------------------------------------------------------------------------------
(* What a step makes of the rows: those there are stay as they were asked, *)
(* and a row that is new is queued and, where it unrolls a plan, asks of   *)
(* its person what another asks.                                           *)

Comes(ts, row) == row.foreach = "" \/ \E u \in DOMAIN ts : row.foreach = ts[u].foreach /\ row.gate = ts[u].gate

Adds(ts, us) ==
    /\ us \in Seq(TaskRows) /\ DOMAIN ts \subseteq DOMAIN us
    /\ \A t \in DOMAIN ts : AsAsked(ts[t], us[t])
    /\ \A t \in DOMAIN us \ DOMAIN ts : us[t].status = "queued" /\ Comes(ts, us[t])

LEMMA AddsMore ==
    ASSUME NEW ts \in Seq(TaskRows), NEW us, Adds(ts, us), DOMAIN us = DOMAIN ts,
           NEW more \in Seq(TaskRows),
           \A i \in 1 .. Len(more) : more[i].status = "queued" /\ Comes(ts, more[i])
    PROVE  /\ Adds(ts, us \o more)
           /\ \A t \in DOMAIN ts : (us \o more)[t] = us[t]
<1>1. us \in Seq(TaskRows)
  BY DEF Adds
<1>2. /\ us \o more \in Seq(TaskRows) /\ Len(us \o more) = Len(us) + Len(more)
      /\ \A i \in 1 .. Len(us) + Len(more) :
            (us \o more)[i] = IF i <= Len(us) THEN us[i] ELSE more[i - Len(us)]
  BY <1>1, ConcatProperties
<1>3. Len(us) \in Nat /\ Len(more) \in Nat /\ DOMAIN us = 1 .. Len(us) /\ DOMAIN (us \o more) = 1 .. Len(us) + Len(more)
  BY <1>1, <1>2
<1> DEFINE vs == us \o more
<1>4. /\ vs \in Seq(TaskRows) /\ DOMAIN ts \subseteq DOMAIN vs /\ \A t \in DOMAIN ts : vs[t] = us[t]
      /\ \A t \in DOMAIN vs \ DOMAIN ts : \E i \in 1 .. Len(more) : vs[t] = more[i]
  <2>1. ASSUME NEW t \in DOMAIN vs \ DOMAIN ts PROVE \E i \in 1 .. Len(more) : vs[t] = more[i]
    <3>1. t - Len(us) \in 1 .. Len(more) /\ ~(t <= Len(us)) /\ t \in 1 .. Len(us) + Len(more)
      BY <1>3, <2>1
    <3> QED BY <1>2, <3>1
  <2> QED BY <1>2, <1>3, <2>1
<1> HIDE DEF vs
<1>5. Adds(ts, vs)
  BY <1>4 DEF Adds
<1> QED BY <1>4, <1>5 DEF vs

LEMMA AddsItself ==
    ASSUME NEW ts \in Seq(TaskRows)
    PROVE  Adds(ts, ts)
BY DEF Adds, AsAsked

LEMMA FinishAdds ==
    ASSUME NEW ts \in Seq(TaskRows), NEW S, NEW st \in Statuses
    PROVE  Adds(ts, Finish(ts, S, st))
BY FinishFollows, FinishIs DEF Adds, Follows

\* A new attempt of a row asks what the row does.
LEMMA AgainsCome ==
    ASSUME TypeOK, NEW S \in SUBSET DOMAIN tasks
    PROVE  LET more == [k \in 1 .. Cardinality(S) |-> AgainOf(tasks, KthOf(S, k))]
           IN /\ more \in Seq(TaskRows)
              /\ \A i \in 1 .. Len(more) : more[i].status = "queued" /\ Comes(tasks, more[i])
<1> DEFINE more == [k \in 1 .. Cardinality(S) |-> AgainOf(tasks, KthOf(S, k))]
<1>1. more \in Seq(TaskRows) /\ \A i \in 1 .. Len(more) : more[i].status = "queued"
  BY AgainsAre
<1>2. tasks \in Seq(TaskRows) /\ Len(tasks) \in Nat /\ S \in SUBSET (1 .. Len(tasks))
  BY DEF TypeOK
<1>3. Cardinality(S) \in Nat /\ \A k \in 1 .. Cardinality(S) : KthOf(S, k) \in DOMAIN tasks
  BY <1>2, FinitelyMany, KthIs
<1>4. \A t \in DOMAIN tasks : AgainOf(tasks, t).foreach = tasks[t].foreach /\ AgainOf(tasks, t).gate = tasks[t].gate
  <2>1. \A t \in DOMAIN tasks : tasks[t] \in TaskRows
    BY <1>2
  <2> QED BY <2>1 DEF AgainOf, TaskRows
<1>5. Len(more) = Cardinality(S) /\ \A i \in 1 .. Len(more) : more[i] = AgainOf(tasks, KthOf(S, i))
  BY <1>3
<1> HIDE DEF more
<1>6. \A i \in 1 .. Len(more) : Comes(tasks, more[i])
  BY <1>3, <1>4, <1>5 DEF Comes
<1> QED BY <1>1, <1>6 DEF more

\* What came to an end, and is not taken off the run, stays so.
Ends(ts, us) == \A t \in DOMAIN ts : us[t].status \in {"success", "failed"} => us[t].status = ts[t].status

LEMMA RequestAdds ==
    ASSUME IInv, OpenThread \/ Request \/ Crash
    PROVE  Adds(tasks, tasks') /\ Ends(tasks, tasks')
<1>1. TypeOK /\ tasks \in Seq(TaskRows) /\ \A t \in DOMAIN tasks : tasks[t] \in TaskRows
  BY DEF IInv, TypeOK
<1>2. ASSUME tasks' = tasks PROVE Adds(tasks, tasks') /\ Ends(tasks, tasks')
  BY <1>1, <1>2, AddsItself DEF Ends
<1>3. ASSUME NEW S, NEW st \in {"stopped", "queued"}, tasks' = Finish(tasks, S, st)
      PROVE  Adds(tasks, tasks') /\ Ends(tasks, tasks')
  <2>1. \A t \in DOMAIN tasks : Finish(tasks, S, st)[t].status = IF t \in S THEN st ELSE tasks[t].status
    BY <1>1, <1>3, FinishIs DEF Statuses
  <2> QED BY <1>1, <1>3, <2>1, FinishAdds DEF Statuses, Ends
<1>4. ASSUME NEW more \in Seq(TaskRows), tasks' = tasks \o more,
             \A i \in 1 .. Len(more) : more[i].status = "queued" /\ Comes(tasks, more[i])
      PROVE  Adds(tasks, tasks') /\ Ends(tasks, tasks')
  BY <1>1, <1>4, AddsItself, AddsMore DEF Ends
<1>5. CASE OpenThread \/ Stop
  BY <1>2, <1>5 DEF OpenThread, Stop, rows
<1>6. CASE Approve
  <2> DEFINE cut == {t \in With(tasks, "failed") : tasks[t].cut /\ run.overBudget}
             more == [k \in 1 .. Cardinality(cut) |-> AgainOf(tasks, KthOf(cut, k))]
  <2>1. tasks' \in {tasks, tasks \o more}
    BY <1>6 DEF Approve
  <2>2. cut \in SUBSET DOMAIN tasks
    BY DEF With
  <2> HIDE DEF cut
  <2>3. more \in Seq(TaskRows) /\ \A i \in 1 .. Len(more) : more[i].status = "queued" /\ Comes(tasks, more[i])
    BY <1>1, <2>2, AgainsCome
  <2> HIDE DEF more
  <2> QED BY <1>2, <1>4, <2>1, <2>3
<1>7. ASSUME NEW t \in DOMAIN tasks, Retry(t) PROVE Adds(tasks, tasks') /\ Ends(tasks, tasks')
  <2> DEFINE more == <<RetryOf(tasks, t)>>
  <2>1. RetryOf(tasks, t) \in TaskRows /\ RetryOf(tasks, t).status = "queued"
    BY <1>1, RetryOfIs
  <2>2. RetryOf(tasks, t).foreach = ""
    BY DEF RetryOf, NewTask
  <2>3. tasks' = tasks \o more
    <3> DEFINE ts == Append(tasks, RetryOf(tasks, t))
    <3>1. ts = tasks \o more
      BY <1>1, <2>1
    <3>2. tasks' = ts
      BY <1>7 DEF Retry
    <3> QED BY <3>1, <3>2
  <2>4. more \in Seq(TaskRows) /\ \A i \in 1 .. Len(more) : more[i].status = "queued" /\ Comes(tasks, more[i])
    <3> DEFINE row == RetryOf(tasks, t)
    <3>1. row \in TaskRows /\ row.status = "queued" /\ Comes(tasks, row)
      BY <2>1, <2>2 DEF Comes
    <3>2. more = <<row>>
      OBVIOUS
    <3> HIDE DEF row, more
    <3> QED BY <3>1, <3>2
  <2> HIDE DEF more
  <2> QED BY <1>4, <2>3, <2>4
<1>8. ASSUME NEW t \in DOMAIN tasks, Cancel(t) PROVE Adds(tasks, tasks') /\ Ends(tasks, tasks')
  BY <1>3, <1>8 DEF Cancel
<1>9. ASSUME NEW plan \in ResumeRows(DOMAIN tasks), PutBack(plan) PROVE Adds(tasks, tasks') /\ Ends(tasks, tasks')
  <2> DEFINE back == {t \in plan.fresh : ~tasks[t].started /\ tasks[t].status \in {"failed", "stopped", "skipped"}}
             e(t) == IF t \in back
                     THEN [tasks[t] EXCEPT !.status = "queued", !.verdict = "none", !.by = "none", !.cut = FALSE]
                     ELSE tasks[t]
             put == [t \in DOMAIN tasks |-> e(t)]
             more == [k \in 1 .. Cardinality(plan.anew) |-> AgainOf(tasks, KthOf(plan.anew, k))]
  <2>1. tasks' = put \o more
    BY <1>9 DEF PutBack
  <2>2. plan.anew \in SUBSET DOMAIN tasks
    BY DEF ResumeRows
  <2>3. more \in Seq(TaskRows) /\ \A i \in 1 .. Len(more) : more[i].status = "queued" /\ Comes(tasks, more[i])
    BY <1>1, <2>2, AgainsCome
  <2> HIDE DEF more, back
  <2>4. \A row \in TaskRows :
           LET new == [row EXCEPT !.status = "queued", !.verdict = "none", !.by = "none", !.cut = FALSE]
           IN new \in TaskRows /\ new.status = "queued" /\ AsAsked(row, new)
    <3>1. "queued" \in Statuses
      BY DEF Statuses
    <3> QED BY <3>1, ZenonT(40) DEF TaskRows, AsAsked
  <2>5. \A t \in DOMAIN tasks : /\ e(t) \in TaskRows /\ AsAsked(tasks[t], e(t))
                                /\ e(t).status \in {"queued", tasks[t].status}
    BY <1>1, <2>4, RowAsAsked
  <2>6. Len(tasks) \in Nat /\ DOMAIN tasks = 1 .. Len(tasks)
    BY <1>1
  <2> HIDE DEF e
  <2>7. put \in Seq(TaskRows) /\ DOMAIN put = DOMAIN tasks /\ \A t \in DOMAIN tasks : put[t] = e(t)
    BY <2>5, <2>6
  <2> HIDE DEF put
  <2>8. Adds(tasks, put)
    BY <2>5, <2>7 DEF Adds
  <2>9. Adds(tasks, tasks') /\ \A t \in DOMAIN tasks : tasks'[t] = put[t]
    BY <1>1, <2>1, <2>3, <2>7, <2>8, AddsMore
  <2> QED BY <2>5, <2>7, <2>9 DEF Ends
<1>10. CASE Resuming
  <2>1. \A from : Plan(from) \in ResumeRows(DOMAIN tasks)
    BY DEF Plan, ResumeRows, Again, Behind
  <2>2. \A p \in Callers : resumes[p] \in ResumeRows(DOMAIN tasks)
    BY <1>1 DEF TypeOK
  <2>3. tasks' = tasks \/ \E plan \in ResumeRows(DOMAIN tasks) : PutBack(plan)
    BY <1>10, <2>1, <2>2 DEF Resuming, Restored, RestoreFails, Resume, rows
  <2> QED BY <1>2, <1>9, <2>3
<1>11. CASE Crash
  BY <1>3, <1>11 DEF Crash
<1> QED BY <1>5, <1>6, <1>7, <1>8, <1>10, <1>11 DEF Request

\* What a check's second try brings unrolls nothing.
LEMMA RetriedComes ==
    ASSUME NEW t \in DOMAIN tasks, NEW us \in Seq(TaskRows), tasks \in Seq(TaskRows), Retried(t, us)
    PROVE  \A u \in DOMAIN us \ DOMAIN tasks :
              us[u].foreach = "" /\ us[u].listed /\ us[u].when = "" /\ ~us[u].require /\ us[u].retryOf # 0
<1>1. CheckedTask(tasks, t) # 0 /\ CheckedTask(tasks, t) \in DOMAIN tasks
  BY CheckedTaskIs DEF Retried, MayRetry
<1> DEFINE work == CheckedTask(tasks, t)
           one == [RetryOf(tasks, work) EXCEPT !.listed = TRUE]
           two == [RetryOf(tasks, t) EXCEPT !.listed = TRUE, !.dependsOn = <<tasks[work].name>>,
                                            !.retries = tasks[t].retries - 1]
           Is(row) == row.foreach = "" /\ row.listed /\ row.when = "" /\ ~row.require /\ row.retryOf # 0
<1>2. \A w \in DOMAIN tasks : w # 0
  <2>1. DOMAIN tasks = 1 .. Len(tasks) /\ Len(tasks) \in Nat
    OBVIOUS
  <2> QED BY ONLY <2>1
<1>3. Is(us[Len(tasks) + 1]) /\ Is(us[Len(tasks) + 2])
  <2>1. Is(one) /\ Is(two)
    <3>1. work # 0 /\ t # 0
      BY <1>1, <1>2
    <3> HIDE DEF work
    <3>2. Is(one)
      BY <3>1 DEF RetryOf, NewTask
    <3>3. Is(two)
      BY <3>1 DEF RetryOf, NewTask
    <3> QED BY <3>2, <3>3
  <2>2. RetryPair(tasks, work, t) = <<one, two>>
    BY DEF RetryPair
  <2> HIDE DEF one, two
  <2>3. us[Len(tasks) + 1] = one /\ us[Len(tasks) + 2] = two
    BY <2>2 DEF Retried
  <2> QED BY <2>1, <2>3
<1>4. \A u \in DOMAIN us \ DOMAIN tasks : u = Len(tasks) + 1 \/ u = Len(tasks) + 2
  <2>1. Len(us) = Len(tasks) + 2 /\ Len(tasks) \in Nat /\ DOMAIN us = 1 .. Len(us) /\ DOMAIN tasks = 1 .. Len(tasks)
    BY DEF Retried
  <2> QED BY <2>1
<1> QED BY <1>3, <1>4

\* Every step there is.
LEMMA NextAdds ==
    ASSUME IInv, Alone, Serial, Budgetless, ~Budgeted, [Next]_vars
    PROVE  Adds(tasks, tasks')
<1>1. tasks \in Seq(TaskRows)
  BY DEF IInv, TypeOK
<1>2. ASSUME tasks' = tasks PROVE Adds(tasks, tasks')
  BY <1>1, <1>2, AddsItself
<1>3. CASE UNCHANGED vars \/ Rest
  BY <1>2, <1>3 DEF Rest, vars, rows
<1>4. ASSUME NEW d \in Drivers, Loop(d) PROVE Adds(tasks, tasks')
  <2>1. CASE Leaves(d)
    BY <2>1 DEF Leaves, Adds, Follows
  <2>2. CASE Waits(d)
    BY <1>2, <2>2 DEF Waits
  <2>3. CASE Passes(d)
    <3>1. \A row : StepOf(row).foreach = ""
      BY DEF StepOf, NewTask
    <3>2. \A t \in DOMAIN tasks' \ DOMAIN tasks : Comes(tasks, tasks'[t])
      BY <2>3, <3>1 DEF Passes, Comes
    <3> QED BY <2>3, <3>2 DEF Passes, Walked, Adds
  <2> QED BY <1>4, <2>1, <2>2, <2>3, LoopComesTo
<1>5. ASSUME NEW b \in bodies, Body(b) PROVE Adds(tasks, tasks')
  <2>1. CASE TurnBreaks(b)
    BY <1>2, <2>1 DEF TurnBreaks
  <2>2. CASE ~TurnBreaks(b)
    <3>1. Follows(tasks, tasks', {b.task}) /\ b.task \in DOMAIN tasks
      BY <1>5, BodyFollows, BodyIs
    <3>2. DOMAIN tasks' = DOMAIN tasks \/ Retried(b.task, tasks')
      BY <1>5, <2>2, BodyComesTo DEF Outcome, Brings
    <3>3. \A t \in DOMAIN tasks' \ DOMAIN tasks : tasks'[t].foreach = ""
      BY <1>1, <3>1, <3>2, RetriedComes DEF Follows
    <3> QED BY <3>1, <3>3 DEF Follows, Adds, Comes
  <2> QED BY <2>1, <2>2
<1>6. ~\E level \in {"near", "over"} : Spend(level)
  BY DEF Spend
<1> QED BY <1>3, <1>4, <1>5, <1>6, RequestAdds DEF Next

------------------------------------------------------------------------------
(* A gate.  Of a gated task that came to something and that nobody has let *)
(* the run past: the run is over or to stop, it waits at a gate, its       *)
(* driver is about to leave it there, or the task's body has yet to close. *)

Passing(t) == \E b \in bodies : b.task = t /\ b.stage \in {"judge", "note", "close"}

Shut(t) ==
    \/ ~Active \/ stopping
    \/ run.status = "awaiting" /\ run.paused = "gate"
    \/ \E d \in Drivers : On(d) /\ drivers[d].pause = "gate"
    \/ Passing(t)

Ungated(ts) == \A t \in DOMAIN ts : ts[t].foreach # "" => ~ts[t].gate
GatesShut   == Ungated(tasks) /\ \A t \in Gated(tasks) \ passed : Shut(t)

LEMMA GatedBefore ==
    ASSUME tasks \in Seq(TaskRows), Adds(tasks, tasks'), NEW t \in Gated(tasks)'
    PROVE  /\ t \in DOMAIN tasks /\ tasks[t].gate /\ tasks'[t].status = "success"
           /\ tasks[t].status = "success" => t \in Gated(tasks)
<1>1. t \in DOMAIN tasks' /\ tasks'[t].status = "success" /\ tasks'[t].gate
  BY DEF Gated, With
<1>2. t \in DOMAIN tasks
  BY <1>1 DEF Adds
<1>3. tasks'[t].gate = tasks[t].gate
  BY <1>2 DEF Adds, AsAsked
<1> QED BY <1>1, <1>2, <1>3 DEF Gated, With

LEMMA StaysUngated ==
    ASSUME Ungated(tasks), Adds(tasks, tasks')
    PROVE  Ungated(tasks)'
<1> SUFFICES ASSUME NEW t \in DOMAIN tasks', tasks'[t].foreach # "" PROVE ~tasks'[t].gate
  BY DEF Ungated
<1>1. CASE t \in DOMAIN tasks
  <2>1. tasks'[t].foreach = tasks[t].foreach /\ tasks'[t].gate = tasks[t].gate
    BY <1>1 DEF Adds, AsAsked
  <2> QED BY <1>1, <2>1 DEF Ungated
<1>2. CASE t \notin DOMAIN tasks
  BY <1>2 DEF Adds, Comes, Ungated
<1> QED BY <1>1, <1>2

LEMMA LoopShuts ==
    ASSUME IInv, Alone, Serial, Budgetless, GatesShut, Adds(tasks, tasks'), NEW d \in Drivers, Loop(d),
           NEW t \in Gated(tasks)' \ passed'
    PROVE  Shut(t)'
<1>1. /\ drivers[d].pc = "loop" /\ run.status = "running" /\ \A e \in Drivers \ {d} : ~On(e)
      /\ passed' = passed /\ (Leaves(d) \/ Waits(d) \/ Passes(d))
  BY LoopComesTo
<1>2. run \in RunRows /\ tasks \in Seq(TaskRows) /\ drivers[d] \in Contexts(DOMAIN tasks) /\ On(d)
  BY <1>1 DEF IInv, TypeOK, On
<1>3. t \in DOMAIN tasks /\ tasks[t].gate /\ tasks'[t].status = "success"
      /\ (tasks[t].status = "success" => Shut(t))
  BY <1>1, <1>2, GatedBefore DEF GatesShut
<1>4. Active /\ run.status # "awaiting"
  BY <1>1 DEF Active
<1>5. CASE Leaves(d)
  <2>1. tasks[t].status = "success" /\ bodies = {} /\ run' = [run EXCEPT !.status = Ending(d)]
    BY <1>3, <1>5 DEF Leaves
  <2>2. stopping \/ drivers[d].pause = "gate"
    BY <1>1, <1>3, <1>4, <2>1 DEF Shut, Passing
  <2>3. drivers[d].pause = "gate" => run.paused = "gate"
    BY <1>2 DEF Alone, Told, Budgetless
  <2>4. run'.status = Ending(d) /\ run'.paused = run.paused
    BY <1>2, <2>1 DEF RunRows
  <2>5. Ending(d) \in {"failed", "stopped"} \/ (Ending(d) = "awaiting" /\ drivers[d].pause = "gate")
    BY <2>2 DEF Ending, EndingOf
  <2> QED BY <2>3, <2>4, <2>5 DEF Shut, Active
<1>6. CASE Waits(d)
  <2>1. /\ UNCHANGED <<tasks, bodies, run, stopping>> /\ drivers'[d].pc = "wait"
        /\ drivers'[d].pause = drivers[d].pause
    BY <1>2, <1>6 DEF Waits, Contexts
  <2>2. stopping \/ drivers[d].pause = "gate" \/ Passing(t)
    BY <1>1, <1>3, <1>4, <2>1 DEF Shut
  <2> QED BY <2>1, <2>2 DEF Shut, Passing, On
<1>7. CASE Passes(d)
  <2>1. /\ UNCHANGED <<run, stopping>> /\ drivers'[d].pc # "left" /\ bodies \subseteq bodies'
        /\ drivers'[d].pause = drivers[d].pause /\ Walked(tasks', PassStart(d), PassPlans(d), PassSkip(d))
    BY <1>1, <1>2, <1>7 DEF Passes, Contexts
  <2>2. t \notin PassPlans(d)
    BY <1>3 DEF GatesShut, Ungated, PassPlans
  <2>3. tasks[t].status = "success"
    BY <1>3, <2>1, <2>2 DEF Walked
  <2>4. stopping \/ drivers[d].pause = "gate" \/ Passing(t)
    BY <1>1, <1>3, <1>4, <2>3 DEF Shut
  <2> QED BY <2>1, <2>4 DEF Shut, Passing, On
<1> QED BY <1>1, <1>5, <1>6, <1>7

LEMMA BodyShuts ==
    ASSUME IInv, Alone, Serial, Budgetless, GatesShut, Adds(tasks, tasks'), NEW b \in bodies, Body(b),
           NEW t \in Gated(tasks)' \ passed'
    PROVE  Shut(t)'
<1>0. Quiet
  BY BodyIsQuiet
<1>1. /\ b.drv \in Drivers /\ drivers[b.drv].pc = "wait" /\ drivers[b.drv].pause = "none"
      /\ \A d \in Drivers \ {b.drv} : ~On(d)
      /\ bodies = {b} /\ run \in RunRows /\ tasks \in Seq(TaskRows)
      /\ b.stage = "turn" => tasks[b.task].status = "running"
      /\ b.stage # "cut"
  BY <1>0, BodyAlone, BodyIs DEF Budgetless
<1>2. run.status = "running" \/ Held
  BY <1>1 DEF Alone, On
<1>3. CASE TurnBreaks(b)
  <2>1. run' = [run EXCEPT !.status = "failed"]
    BY <1>1, <1>3 DEF TurnBreaks
  <2>2. run'.status = "failed"
    BY <1>1, <2>1 DEF RunRows
  <2> QED BY <2>2 DEF Shut, Active
<1>4. CASE ~TurnBreaks(b)
  <2>1. Outcome(b)
    BY <1>4, BodyComesTo
  <2>2. UNCHANGED <<stopping, passed>> /\ \A d \in Drivers \ {b.drv} : drivers'[d] = drivers[d]
    BY <2>1 DEF Outcome, elsewhere
  <2>3. PICK c, on :
           /\ Brings(b, c, tasks', run', on)
           /\ \/ drivers'[b.drv] = c /\ bodies' = bodies /\ b.stage = "turn" /\ tasks' = tasks
              \/ drivers'[b.drv] = [c EXCEPT !.pc = "loop"] /\ bodies' = {} /\ on = FALSE
              \/ /\ drivers'[b.drv] = c
                 /\ \E stage \in {"judge", "note", "close"} : bodies' = {[b EXCEPT !.stage = stage]}
    BY <2>1 DEF Outcome
  <2>4. /\ t \in DOMAIN tasks /\ tasks[t].gate /\ tasks'[t].status = "success"
        /\ (tasks[t].status = "success" => Shut(t))
    BY <1>1, <2>2, GatedBefore DEF GatesShut
  <2>5. CASE t # b.task
    <3>1. tasks'[t].status = tasks[t].status
      BY <2>4, <2>5, BodyFollows DEF Follows
    <3>2. Shut(t) /\ ~Passing(t)
      BY <1>1, <2>4, <2>5, <3>1 DEF Passing
    <3>3. \A d \in Drivers : On(d) => drivers[d].pause # "gate"
      BY <1>1
    <3>4. stopping
      BY <1>2, <3>2, <3>3 DEF Shut, Active, Held
    <3> QED BY <2>2, <3>4 DEF Shut
  <2>6. CASE t = b.task
    <3>1. ~stopping => on = TRUE \/ c.pause = "gate"
      BY <1>1, <2>3, <2>4, <2>6 DEF Brings
    <3>2. ASSUME ~stopping, drivers'[b.drv] = [c EXCEPT !.pc = "loop"], on = FALSE PROVE Shut(t)'
      <4>1. drivers'[b.drv].pause = "gate" /\ drivers'[b.drv].pc = "loop"
        BY <2>3, <3>1, <3>2 DEF Brings, Contexts
      <4> QED BY <1>1, <4>1 DEF Shut, On
    <3>3. ASSUME NEW stage \in {"judge", "note", "close"}, bodies' = {[b EXCEPT !.stage = stage]} PROVE Shut(t)'
      <4>1. [b EXCEPT !.stage = stage].task = b.task /\ [b EXCEPT !.stage = stage].stage = stage
        BY <1>1 DEF IInv, TypeOK, BodyRows
      <4> QED BY <2>6, <3>3, <4>1 DEF Shut, Passing
    <3>4. ~(b.stage = "turn" /\ tasks' = tasks)
      BY <1>1, <2>4, <2>6
    <3>5. CASE stopping
      BY <2>2, <3>5 DEF Shut
    <3> QED BY <2>3, <3>2, <3>3, <3>4, <3>5
  <2> QED BY <2>5, <2>6
<1> QED BY <1>3, <1>4

LEMMA RequestShuts ==
    ASSUME IInv, Alone, Serial, Budgetless, GatesShut, Adds(tasks, tasks'), OpenThread \/ Request \/ Crash,
           NEW t \in Gated(tasks)' \ passed'
    PROVE  Shut(t)'
<1>1. run \in RunRows /\ tasks \in Seq(TaskRows) /\ crossed = FALSE /\ run.paused \in {"none", "gate", "request"}
  BY DEF IInv, TypeOK, Budgetless
<1>2. /\ t \in DOMAIN tasks /\ t \in Gated(tasks)
      /\ t \notin passed => Shut(t)
  <2>1. Ends(tasks, tasks')
    BY RequestAdds
  <2>2. t \in DOMAIN tasks /\ tasks'[t].status = "success" /\ (tasks[t].status = "success" => t \in Gated(tasks))
    BY <1>1, GatedBefore
  <2>3. tasks[t].status = "success"
    BY <2>1, <2>2 DEF Ends
  <2> QED BY <2>2, <2>3 DEF GatesShut
<1>3. ASSUME UNCHANGED <<run, drivers, bodies, stopping, passed>> PROVE Shut(t)'
  BY <1>2, <1>3 DEF Shut, Passing, On, Active
<1>4. ASSUME passed' = passed \cup Gated(tasks) PROVE FALSE
  BY <1>2, <1>4
<1>5. CASE OpenThread
  <2>1. opening /\ run.status = "running" /\ \A d \in Drivers : ~On(d)
    BY <1>5 DEF OpenThread, Alone
  <2>2. bodies = {}
    <3>1. \A b \in bodies : b.drv \in Drivers
      BY BodyIs
    <3> QED BY <2>1, <3>1 DEF Alone
  <2>3. UNCHANGED <<passed, stopping>>
    BY <1>5 DEF OpenThread
  <2>4. stopping
    BY <1>2, <2>1, <2>2, <2>3 DEF Shut, Active, Passing
  <2> QED BY <2>3, <2>4 DEF Shut
<1>6. ~Approve
  BY <1>1, <1>4 DEF Approve
<1>7. CASE Stop
  <2>1. stopping' = TRUE \/ run' = [run EXCEPT !.status = "stopped"]
    BY <1>7 DEF Stop
  <2>2. stopping' \/ run'.status = "stopped"
    BY <1>1, <2>1 DEF RunRows
  <2> QED BY <2>2 DEF Shut, Active
<1>8. ASSUME NEW u \in DOMAIN tasks, Retry(u) PROVE Shut(t)'
  <2>1. CASE run.status = "running"
    BY <1>3, <1>8, <2>1 DEF Retry, Reopened
  <2>2. CASE run.status # "running"
    BY <1>4, <1>8, <2>2 DEF Retry
  <2> QED BY <2>1, <2>2
<1>9. ASSUME NEW u \in DOMAIN tasks, Cancel(u) PROVE Shut(t)'
  BY <1>3, <1>9 DEF Cancel, memory
<1>10. CASE Resuming
  BY <1>3, <1>4, <1>10 DEF Resuming, Restored, RestoreFails, Resume, PutBack, rows
<1>11. CASE Crash
  <2>1. run' = IF Active THEN [run EXCEPT !.status = "failed"] ELSE run
    BY <1>11 DEF Crash
  <2>2. run'.status \notin {"running", "awaiting"}
    BY <1>1, <2>1 DEF Active, RunRows
  <2> QED BY <2>2 DEF Shut, Active
<1> QED BY <1>5, <1>6, <1>7, <1>8, <1>9, <1>10, <1>11 DEF Request

LEMMA NextShuts ==
    ASSUME ~Budgeted, IInv, Alone, Serial, Budgetless, GatesShut, [Next]_vars
    PROVE  GatesShut'
<1>1. Adds(tasks, tasks')
  BY NextAdds
<1>2. Ungated(tasks)'
  BY <1>1, StaysUngated DEF GatesShut
<1>3. ASSUME NEW t \in Gated(tasks)' \ passed' PROVE Shut(t)'
  <2>1. CASE UNCHANGED vars \/ Rest
    BY <1>3, <2>1 DEF Rest, vars, rows, memory, GatesShut, Gated, Shut, Passing, On, Active
  <2>2. ~\E level \in {"near", "over"} : Spend(level)
    BY DEF Spend
  <2> QED BY <1>1, <1>3, <2>1, <2>2, LoopShuts, BodyShuts, RequestShuts DEF Next
<1> QED BY <1>2, <1>3 DEF GatesShut

\* Only a loop's pass starts a task, and where one comes at a time it finds
\* nothing in flight, nothing that pauses the run and nobody who stops it.
LEMMA StartsAlone ==
    ASSUME IInv, Driven, Alone, Serial, Serial', Next, NEW t \in DOMAIN tasks, Starts(t)
    PROVE  /\ bodies = {} /\ run.status = "running" /\ ~stopping
           /\ \A d \in Drivers : On(d) => drivers[d].pause = "none"
<1>1. Kept
  BY NextKeeps
<1>2. ~NoTurns
  BY <1>1 DEF Kept, NoTurns
<1>3. PICK d \in Drivers : LoopPass(d)
  <2>1. Rest => NoTurns
    BY DEF Rest, vars, memory, NoTurns
  <2>2. \A d \in Drivers : LoopStopped(d) \/ LoopDrained(d) => NoTurns
    BY LoopEndsDrive
  <2>3. \A b \in bodies : Body(b) => NoTurns
    BY BodyDrives
  <2>4. OpenThread \/ Request \/ Crash => NoTurns
    BY RequestDrives, CrashDrives
  <2>5. \A level : Spend(level) => NoTurns
    BY SpendDrives
  <2> QED BY <1>2, <2>1, <2>2, <2>3, <2>4, <2>5 DEF Next, Loop
<1>4. /\ drivers[d].pc = "loop" /\ ~stopping
      /\ bodies' = bodies \cup TurnsOf(d, PassStart(d) \ PassPlans(d))
  BY <1>3, PassIs
<1>5. PICK b \in bodies' \ bodies : b.task = t
  BY <1>1 DEF Kept
<1>6. PassStart(d) # {}
  BY <1>4, <1>5 DEF TurnsOf
<1>7. bodies = {}
  <2>1. ASSUME NEW f \in bodies PROVE FALSE
    <3>1. f \in bodies' /\ f # b
      BY <1>4, <1>5
    <3> QED BY <3>1 DEF Serial
  <2> QED BY <2>1
<1>8. drivers[d].pause = "none" /\ run.status = "running" /\ \A e \in Drivers \ {d} : ~On(e)
  BY <1>4, <1>6, LoopAlone, PassTells, PassStarts
<1> QED BY <1>4, <1>7, <1>8

\* Of a run without a budget that works on one task at a time, whoever lets it
\* on, stops, cancels, retries or resumes it and whenever the server restarts:
\* nothing starts behind a gated task before a person has let the run past it
\* ("nothing else starts until somebody has read it", afterTask).  A gate on a
\* row that unrolls a plan is left out: expand finishes it without afterTask,
\* so it holds nothing.
THEOREM GatesHold ==
    ASSUME LoneCalls, ~Budgeted, \A p \in Plans : \A t \in DOMAIN p : p[t].foreach # "" => ~p[t].gate
    PROVE  Spec /\ []Serial => GateHolds
<1> DEFINE Waited == \A t \in DOMAIN tasks : Starts(t) => Gated(tasks) \subseteq passed
<1>1. Init => Budgetless /\ GatesShut
  <2>1. Init => \A t \in DOMAIN tasks : tasks[t].status = "queued" /\ (tasks[t].foreach # "" => ~tasks[t].gate)
    BY EngineAssumption DEF Init
  <2> QED BY <2>1, InitBudgetless DEF GatesShut, Gated, With, Ungated
<1>2. IInv /\ Alone /\ Serial /\ Budgetless /\ GatesShut /\ [Next]_vars => Budgetless' /\ GatesShut'
  BY NextBudgetless, NextShuts
<1>3. IInv /\ Driven /\ Alone /\ Serial /\ Serial' /\ GatesShut /\ [Next]_vars => [Waited]_vars
  <2> SUFFICES ASSUME IInv, Driven, Alone, Serial, Serial', GatesShut, Next,
                      NEW t \in DOMAIN tasks, Starts(t), NEW u \in Gated(tasks), u \notin passed
               PROVE  FALSE
    OBVIOUS
  <2>1. /\ bodies = {} /\ run.status = "running" /\ ~stopping
        /\ \A d \in Drivers : On(d) => drivers[d].pause = "none"
    BY StartsAlone
  <2>2. Shut(u)
    BY DEF GatesShut
  <2> QED BY <2>1, <2>2 DEF Shut, Active, Passing
<1> HIDE DEF Waited
<1>4. Spec /\ []Serial => [][Waited]_vars
  BY Invariance, DrivenAlways, AloneAlways, <1>1, <1>2, <1>3, PTL DEF Spec
<1> QED BY <1>4 DEF Waited, GateHolds

------------------------------------------------------------------------------
(* A failure nobody declared survivable.  A driver that saw it ends the    *)
(* run, and a retry or a resume of what failed is left out: they reopen    *)
(* the run and forget what else failed in it.                              *)

Fatal(ts) == {t \in Standing(ts) : ts[t].status = "failed" /\ ~ExpectsFailure(ts, ts[t].name)}

Failing ==
    Fatal(tasks) # {} =>
        run.status \in {"failed", "stopped"} \/ \E d \in Drivers : On(d) /\ drivers[d].failure

LEMMA FatalBefore ==
    ASSUME Adds(tasks, tasks'), NEW t \in Fatal(tasks)'
    PROVE  /\ t \in DOMAIN tasks /\ tasks'[t].status = "failed" /\ t \in Standing(tasks)'
           /\ ~ExpectsFailure(tasks, tasks[t].name)
           /\ tasks[t].status = "failed" => t \in Fatal(tasks)
<1>1. /\ t \in DOMAIN tasks' /\ tasks'[t].status = "failed" /\ t \in Standing(tasks)'
      /\ ~ExpectsFailure(tasks, tasks[t].name)'
  BY DEF Fatal, Standing
<1>2. t \in DOMAIN tasks
  BY <1>1 DEF Adds
<1>3. \A u \in DOMAIN tasks : u \in DOMAIN tasks' /\ AsAsked(tasks[u], tasks'[u])
  BY DEF Adds
<1>4. t \in Standing(tasks)
  BY <1>1, <1>2, <1>3 DEF Standing, AsAsked
<1>5. ~ExpectsFailure(tasks, tasks[t].name)
  BY <1>1, <1>2, <1>3 DEF ExpectsFailure, Expects, AsAsked
<1> QED BY <1>1, <1>2, <1>4, <1>5 DEF Fatal

LEMMA LoopFails ==
    ASSUME IInv, Alone, Serial, Budgetless, Failing, Adds(tasks, tasks'), NEW d \in Drivers, Loop(d)
    PROVE  Failing'
<1> SUFFICES ASSUME NEW t \in Fatal(tasks)'
             PROVE  run'.status \in {"failed", "stopped"} \/ (On(d)' /\ drivers'[d].failure)
  BY DEF Failing
<1>1. /\ drivers[d].pc = "loop" /\ run.status = "running" /\ \A e \in Drivers \ {d} : ~On(e)
      /\ Leaves(d) \/ Waits(d) \/ Passes(d)
  BY LoopComesTo
<1>2. run \in RunRows /\ drivers[d] \in Contexts(DOMAIN tasks) /\ stopping \in BOOLEAN
  BY DEF IInv, TypeOK
<1>3. t \in DOMAIN tasks /\ tasks'[t].status = "failed" /\ (tasks[t].status = "failed" => t \in Fatal(tasks))
  BY FatalBefore
<1>4. tasks[t].status = "failed"
  BY <1>1, <1>3 DEF Leaves, Waits, Passes, Walked
<1>5. drivers[d].failure
  BY <1>1, <1>3, <1>4 DEF Failing
<1>6. CASE Leaves(d)
  <2>1. run' = [run EXCEPT !.status = Ending(d)] /\ Ending(d) \in {"failed", "stopped"}
    BY <1>5, <1>6 DEF Leaves, Ending, EndingOf
  <2> QED BY <1>2, <2>1 DEF RunRows
<1>7. CASE Waits(d) \/ Passes(d)
  <2>1. drivers'[d].pc \in {"loop", "wait"} /\ drivers'[d].failure = drivers[d].failure
    BY <1>1, <1>2, <1>7 DEF Waits, Passes, Contexts
  <2> QED BY <1>5, <2>1 DEF On
<1> QED BY <1>1, <1>6, <1>7

LEMMA BodyFails ==
    ASSUME IInv, Alone, Serial, Budgetless, Failing, Adds(tasks, tasks'), NEW b \in bodies, Body(b)
    PROVE  Failing'
<1> SUFFICES ASSUME NEW t \in Fatal(tasks)'
             PROVE  \/ run'.status = "failed"
                    \/ b.drv \in Drivers /\ On(b.drv)' /\ drivers'[b.drv].failure
  BY DEF Failing
<1>1. /\ b.drv \in Drivers /\ drivers[b.drv].pc = "wait" /\ \A d \in Drivers \ {b.drv} : ~On(d)
      /\ run \in RunRows /\ tasks \in Seq(TaskRows)
  BY BodyIsQuiet, BodyAlone, BodyIs
<1>2. run.status \in {"running", "awaiting"}
  BY <1>1 DEF Alone, On, Held
<1>3. CASE TurnBreaks(b)
  <2>1. run' = [run EXCEPT !.status = "failed"]
    BY <1>1, <1>3 DEF TurnBreaks
  <2> QED BY <1>1, <2>1 DEF RunRows
<1>4. CASE ~TurnBreaks(b)
  <2>1. PICK c, on :
           /\ Brings(b, c, tasks', run', on)
           /\ drivers'[b.drv] = c \/ drivers'[b.drv] = [c EXCEPT !.pc = "loop"]
    BY <1>4, BodyComesTo DEF Outcome
  <2>2. On(b.drv)' /\ drivers'[b.drv].failure = c.failure
    BY <2>1 DEF Brings, Contexts, On
  <2>3. /\ t \in DOMAIN tasks /\ tasks'[t].status = "failed" /\ t \in Standing(tasks)'
        /\ ~ExpectsFailure(tasks, tasks[t].name) /\ (tasks[t].status = "failed" => t \in Fatal(tasks))
    BY FatalBefore
  <2>4. CASE tasks[t].status = "failed"
    <3>1. drivers[b.drv].failure
      BY <1>1, <1>2, <2>3, <2>4 DEF Failing
    <3> QED BY <1>1, <2>1, <2>2, <3>1 DEF Brings
  <2>5. CASE tasks[t].status # "failed"
    <3>1. t = b.task
      BY <2>3, <2>5, BodyFollows DEF Follows
    <3>2. ~Retried(t, tasks')
      <4> SUFFICES ASSUME Retried(t, tasks') PROVE FALSE
        OBVIOUS
      <4>1. Len(tasks) + 2 \in DOMAIN tasks' /\ tasks'[Len(tasks) + 2] = RetryPair(tasks, CheckedTask(tasks, t), t)[2]
        <5>1. tasks' \in Seq(TaskRows) /\ Len(tasks') = Len(tasks) + 2 /\ Len(tasks) \in Nat
          BY <1>1 DEF Adds, Retried
        <5> QED BY <5>1 DEF Retried
      <4>2. RetryPair(tasks, CheckedTask(tasks, t), t)[2].retryOf = t
        BY DEF RetryPair, RetryOf, NewTask
      <4> QED BY <2>3, <4>1, <4>2 DEF Standing
    <3>3. c.failure
      BY <2>1, <2>3, <2>5, <3>1, <3>2 DEF Brings
    <3> QED BY <1>1, <2>2, <3>3
  <2> QED BY <2>4, <2>5
<1> QED BY <1>3, <1>4

LEMMA RequestFails ==
    ASSUME IInv, Alone, Budgetless, Failing, Adds(tasks, tasks'), Calls \cap {"retry", "resume"} = {},
           OpenThread \/ Request \/ Crash
    PROVE  Failing'
<1> SUFFICES ASSUME Fatal(tasks)' # {}
             PROVE  run'.status \in {"failed", "stopped"} \/ \E d \in Drivers : On(d)' /\ drivers'[d].failure
  BY DEF Failing
<1>1. run \in RunRows /\ run.paused # "budget"
  BY DEF IInv, TypeOK, Budgetless
<1>2. Fatal(tasks) # {}
  <2>1. PICK t : t \in Fatal(tasks)'
    OBVIOUS
  <2> QED BY <2>1, FatalBefore, RequestAdds DEF Ends
<1>3. \/ run.status \in {"failed", "stopped"}
      \/ (\E d \in Drivers : On(d) /\ drivers[d].failure) /\ (run.status = "running" \/ Held)
  BY <1>2 DEF Failing, Alone
<1>4. ASSUME UNCHANGED <<run, drivers>>
      PROVE  run'.status \in {"failed", "stopped"} \/ \E d \in Drivers : On(d)' /\ drivers'[d].failure
  BY <1>3, <1>4 DEF On
<1>5. ~OpenThread
  BY <1>3 DEF OpenThread, Alone
<1>6. ~Approve
  BY <1>3 DEF Approve, Held
<1>7. CASE Stop
  <2>1. UNCHANGED <<run, drivers>> \/ run' = [run EXCEPT !.status = "stopped"]
    BY <1>7 DEF Stop
  <2> QED BY <1>1, <1>4, <2>1 DEF RunRows
<1>8. ASSUME NEW t \in DOMAIN tasks, Cancel(t)
      PROVE  run'.status \in {"failed", "stopped"} \/ \E d \in Drivers : On(d)' /\ drivers'[d].failure
  BY <1>4, <1>8 DEF Cancel, memory
<1>9. ~Resuming /\ \A t \in DOMAIN tasks : ~Retry(t)
  BY DEF Resuming, Restored, RestoreFails, Resume, Retry, Asked
<1>10. CASE Crash
  <2>1. run' = IF Active THEN [run EXCEPT !.status = "failed"] ELSE run
    BY <1>10 DEF Crash
  <2> QED BY <1>1, <1>3, <2>1 DEF Active, Held, RunRows
<1> QED BY <1>5, <1>6, <1>7, <1>8, <1>9, <1>10 DEF Request

LEMMA NextFails ==
    ASSUME ~Budgeted, Calls \cap {"retry", "resume"} = {}, IInv, Alone, Serial, Budgetless, Failing, [Next]_vars
    PROVE  Failing'
<1>1. Adds(tasks, tasks')
  BY NextAdds
<1>2. CASE UNCHANGED vars \/ Rest
  BY <1>2 DEF Rest, vars, rows, memory, Failing, Fatal, On
<1>3. ~\E level \in {"near", "over"} : Spend(level)
  BY DEF Spend
<1> QED BY <1>1, <1>2, <1>3, LoopFails, BodyFails, RequestFails DEF Next

\* Of a run without a budget that works on one task at a time: whatever a
\* person lets on, stops or cancels and wherever the server restarts,
\* a failure that no task of the run declared survivable is not passed over:
\* the run that still has it standing does not end as a success ("A failed
\* task still stops the run", runner.ts).
THEOREM FailedTasksStopRuns ==
    ASSUME ~Budgeted, Calls \cap {"retry", "resume"} = {}
    PROVE  Spec /\ []Serial => []FailedTaskStopsRun
<1>0. LoneCalls
  BY DEF LoneCalls
<1>1. Init => Budgetless /\ Failing
  <2>1. Init => \A t \in DOMAIN tasks : tasks[t].status = "queued"
    BY EngineAssumption DEF Init
  <2> QED BY <2>1, InitBudgetless DEF Failing, Fatal, Standing
<1>2. IInv /\ Alone /\ Serial /\ Budgetless /\ Failing /\ [Next]_vars => Budgetless' /\ Failing'
  BY NextBudgetless, NextFails
<1>3. Alone /\ Failing => FailedTaskStopsRun
  <2> SUFFICES ASSUME Alone, Failing, run.status = "success" PROVE Fatal(tasks) = {}
    BY DEF FailedTaskStopsRun, Fatal
  <2> QED BY DEF Failing, Alone, Held
<1> QED BY <1>0, Invariance, AloneAlways, <1>1, <1>2, <1>3, PTL DEF Spec

------------------------------------------------------------------------------
(* A plan written as a list, where each task waits for the one above it.   *)

\* What a row waits for, where no row waits for what another did.
WaitsFor(ts, t) ==
    LET row   == ts[t]
        given == IF row.foreach # "" THEN <<row.foreach>>
                 ELSE IF row.listed THEN row.dependsOn
                 ELSE IF t > 1 THEN <<ts[t - 1].name>> ELSE <<>>
    IN IF row.when # "" /\ row.when \notin Listed(given) THEN Append(given, row.when) ELSE given

LEMMA DependenciesAre ==
    ASSUME NEW ts, \A t \in DOMAIN ts : ts[t].foreach # "" \/ ts[t].listed \/ ts[t].retryOf = 0
    PROVE  Dependencies(ts) = [t \in DOMAIN ts |-> WaitsFor(ts, t)]
<1> DEFINE D(f, t) ==
              LET row   == ts[t]
                  given == IF row.foreach # "" THEN <<row.foreach>>
                           ELSE IF row.listed THEN row.dependsOn
                           ELSE IF row.retryOf # 0 THEN f[row.retryOf]
                           ELSE IF t > 1 THEN <<ts[t - 1].name>> ELSE <<>>
              IN IF row.when # "" /\ row.when \notin Listed(given)
                 THEN Append(given, row.when) ELSE given
           g == [t \in DOMAIN ts |-> WaitsFor(ts, t)]
<1>1. Dependencies(ts) = CHOOSE f : f = [t \in DOMAIN ts |-> D(f, t)]
  BY DEF Dependencies
<1>2. \A f : \A t \in DOMAIN ts : D(f, t) = WaitsFor(ts, t)
  BY ZenonT(40) DEF WaitsFor
<1> HIDE DEF D
<1>3. \A f : [t \in DOMAIN ts |-> D(f, t)] = g
  BY <1>2
<1> QED BY <1>1, <1>3

Done(ts, t) == ts[t].status \in Terminal

\* A task of a list waits for the one above it, written down or not, and its
\* condition is about one above.
ListRow(ts, t) ==
    /\ ts[t].foreach = "" /\ ts[t].retryOf = 0
    /\ ts[t].dependsOn = IF t > 1 /\ ts[t].listed THEN <<ts[t - 1].name>> ELSE <<>>
    /\ ts[t].when # "" => \E u \in 1 .. t - 1 : ts[u].name = ts[t].when

\* What a check sent back.
SentRow(row) == row.listed /\ row.foreach = "" /\ row.when = "" /\ ~row.require

\* The first n rows are the list, and the others what its checks sent back.
Listing(ts, n) ==
    /\ n \in 1 .. Len(ts)
    /\ \A t, u \in 1 .. n : ts[t].name = ts[u].name => t = u
    /\ \A t \in 1 .. n : ListRow(ts, t)
    /\ \A t \in n + 1 .. Len(ts) : SentRow(ts[t])

\* The list is done up to its k-th task, and nothing after that has begun.
Stands(ts, n, k) ==
    /\ k \in 1 .. n
    /\ \A t \in 1 .. k - 1 : Done(ts, t)
    /\ \A t \in k + 1 .. n : ts[t].status = "queued"

\* No check has sent its work back,
First(ts, n) == \A t \in n + 1 .. Len(ts) : Done(ts, t)

\* or the k-th, a check, has: the work is the last row but one, and the check
\* that waits for it the last.
Second(ts, n, k) ==
    LET again == Len(ts) - 1
        check == Len(ts)
    IN /\ check >= n + 2 /\ Done(ts, k) /\ \A t \in n + 1 .. check - 2 : Done(ts, t)
       /\ ~Done(ts, check) /\ (ts[check].status = "running" => Done(ts, again))
       /\ ts[check].name = ts[k].name /\ ts[check].dependsOn = <<ts[again].name>>
       /\ ts[again].kind = "agent" /\ ts[again].dependsOn = <<>>
       /\ \E w \in 1 .. k - 1 : ts[w].name = ts[again].name

InLine(ts) ==
    \E n, k \in DOMAIN ts : Listing(ts, n) /\ Stands(ts, n, k) /\ (First(ts, n) \/ Second(ts, n, k))

\* Whose turn it is.
TurnOf(ts, n, k, t) ==
    /\ Listing(ts, n) /\ Stands(ts, n, k) /\ t \in DOMAIN ts /\ ~Done(ts, t)
    /\ \/ t = k /\ First(ts, n)
       \/ t = Len(ts) - 1 /\ Second(ts, n, k)
       \/ t = Len(ts) /\ Second(ts, n, k) /\ Done(ts, Len(ts) - 1)

LEMMA ListIs ==
    ASSUME NEW ts \in Seq(TaskRows), NEW n, Listing(ts, n), NEW t \in DOMAIN ts
    PROVE  LET deps == Dependencies(ts)[t]
           IN /\ deps \in Seq(Names)
              /\ t \in 2 .. n => 1 \in DOMAIN deps /\ deps[1] = ts[t - 1].name
              /\ t \in 1 .. n => \A m \in Listed(deps) : \E u \in 1 .. t - 1 : ts[u].name = m
              /\ t \in n + 1 .. Len(ts) => deps = ts[t].dependsOn
<1> DEFINE deps == Dependencies(ts)[t]
           given == IF ts[t].listed THEN ts[t].dependsOn
                    ELSE IF t > 1 THEN <<ts[t - 1].name>> ELSE <<>>
<1>1. /\ Len(ts) \in Nat /\ DOMAIN ts = 1 .. Len(ts) /\ n \in 1 .. Len(ts)
      /\ ts[t].when \in Names /\ ts[t].dependsOn \in Seq(Names)
      /\ \A u \in DOMAIN ts : ts[u].name \in Names
  <2>1. \A u \in DOMAIN ts : ts[u] \in TaskRows
    OBVIOUS
  <2>2. \A row \in TaskRows : row.when \in Names /\ row.dependsOn \in Seq(Names) /\ row.name \in Names
    BY DEF TaskRows
  <2>3. n \in 1 .. Len(ts)
    BY DEF Listing
  <2> QED BY <2>1, <2>2, <2>3
<1>2. \A u \in DOMAIN ts : (u \in 1 .. n /\ ListRow(ts, u)) \/ (u \in n + 1 .. Len(ts) /\ SentRow(ts[u]))
  <2>1. \A u \in DOMAIN ts : u \in 1 .. n \/ u \in n + 1 .. Len(ts)
    BY ONLY <1>1
  <2>2. (\A u \in 1 .. n : ListRow(ts, u)) /\ (\A u \in n + 1 .. Len(ts) : SentRow(ts[u]))
    BY DEF Listing
  <2> QED BY ONLY <2>1, <2>2
<1>3. deps = WaitsFor(ts, t) /\ ts[t].foreach = ""
  <2>1. \A u \in DOMAIN ts : ts[u].foreach # "" \/ ts[u].listed \/ ts[u].retryOf = 0
    BY <1>2 DEF ListRow, SentRow
  <2>2. ts[t].foreach = ""
    BY <1>2 DEF ListRow, SentRow
  <2> QED BY <2>1, <2>2, DependenciesAre
<1>4. given \in Seq(Names)
  <2>1. t > 1 => t - 1 \in DOMAIN ts
    BY ONLY <1>1, t \in DOMAIN ts
  <2>2. t > 1 => <<ts[t - 1].name>> \in Seq(Names)
    BY <1>1, <2>1
  <2>3. given = IF ts[t].listed THEN ts[t].dependsOn ELSE IF t > 1 THEN <<ts[t - 1].name>> ELSE <<>>
    OBVIOUS
  <2> HIDE DEF given
  <2>4. <<>> \in Seq(Names)
    OBVIOUS
  <2> QED BY ONLY <1>1, <2>2, <2>3, <2>4
<1>5. deps = IF ts[t].when # "" /\ ts[t].when \notin Listed(given) THEN Append(given, ts[t].when) ELSE given
  BY <1>3 DEF WaitsFor
<1>6. t \in 1 .. n => given = IF t > 1 THEN <<ts[t - 1].name>> ELSE <<>>
  <2>1. t \in 1 .. n => ListRow(ts, t)
    BY DEF Listing
  <2> QED BY <2>1 DEF ListRow
<1>7. t \in 1 .. n => (t > 1 <=> t \in 2 .. n)
  BY ONLY <1>1
<1>8. t \in n + 1 .. Len(ts) => ts[t].when = "" /\ given = ts[t].dependsOn
  <2>1. t \in n + 1 .. Len(ts) => SentRow(ts[t])
    BY DEF Listing
  <2> QED BY <2>1 DEF SentRow
<1> HIDE DEF given, deps
<1>9. deps \in Seq(Names) /\ \A m \in Listed(deps) : m \in Listed(given) \/ (m = ts[t].when /\ m # "")
  <2> DEFINE more == Append(given, ts[t].when)
  <2>1. /\ more \in Seq(Names) /\ Len(more) = Len(given) + 1 /\ more[Len(given) + 1] = ts[t].when
        /\ \A i \in 1 .. Len(given) : more[i] = given[i]
    BY <1>1, <1>4
  <2>2. DOMAIN given = 1 .. Len(given) /\ Len(given) \in Nat
    BY <1>4
  <2> HIDE DEF more
  <2>3. ASSUME NEW m \in Listed(more) PROVE m \in Listed(given) \/ m = ts[t].when
    <3>1. PICK i \in DOMAIN more : m = more[i]
      BY <2>3 DEF Listed
    <3>2. DOMAIN more = 1 .. Len(given) + 1
      BY <2>1
    <3> QED BY <2>1, <2>2, <3>1, <3>2 DEF Listed
  <2> QED BY <1>4, <1>5, <2>1, <2>3 DEF more
<1>10. t \in 2 .. n => 1 \in DOMAIN deps /\ deps[1] = ts[t - 1].name
  <2> SUFFICES ASSUME t \in 2 .. n PROVE 1 \in DOMAIN deps /\ deps[1] = ts[t - 1].name
    OBVIOUS
  <2>1. t \in 1 .. n /\ t > 1 /\ t - 1 \in DOMAIN ts
    BY ONLY <1>1, t \in 2 .. n
  <2>2. given = <<ts[t - 1].name>> /\ ts[t - 1].name \in Names
    BY <1>1, <1>6, <2>1
  <2> DEFINE m == ts[t - 1].name
             x == ts[t].when
  <2>3. m \in Names /\ x \in Names /\ given = <<m>> /\ deps \in {<<m>>, Append(<<m>>, x)}
    BY <1>1, <1>5, <2>2
  <2> HIDE DEF m, x
  <2>4. 1 \in DOMAIN deps /\ deps[1] = m
    BY ONLY <2>3
  <2> QED BY <2>4 DEF m
<1>11. ASSUME t \in 1 .. n, NEW m \in Listed(deps) PROVE \E u \in 1 .. t - 1 : ts[u].name = m
  <2>1. CASE m = ts[t].when /\ m # ""
    BY <1>11, <2>1 DEF Listing, ListRow
  <2>2. CASE m \in Listed(given)
    <3>1. given # <<>>
      BY <2>2 DEF Listed
    <3>2. t > 1 /\ given = <<ts[t - 1].name>>
      BY <1>6, <1>11, <3>1
    <3>3. m = ts[t - 1].name
      BY <2>2, <3>2 DEF Listed
    <3>4. t - 1 \in 1 .. t - 1
      BY ONLY <1>1, <1>11, <3>2
    <3> QED BY <3>3, <3>4
  <2> QED BY <1>9, <1>11, <2>1, <2>2
<1>12. t \in n + 1 .. Len(ts) => deps = ts[t].dependsOn
  BY <1>5, <1>8
<1> QED BY <1>9, <1>10, <1>11, <1>12 DEF deps

\* A row waits while the first it waits for has not come to an end,
LEMMA MustWait ==
    ASSUME NEW ts, NEW t \in DOMAIN ts, Dependencies(ts)[t] \in Seq(Names), 1 \in DOMAIN Dependencies(ts)[t],
           NEW u \in DOMAIN ts, ts[u].name = Dependencies(ts)[t][1], ~Done(ts, u)
    PROVE  Decide(ts, t) = "wait"
<1> DEFINE deps  == Dependencies(ts)[t]
           stops == {i \in DOMAIN deps :
                       \/ Settled(ts, deps[i]) = "pending"
                       \/ Settled(ts, deps[i]) = "failed" /\ ~Expects(ts[t], deps[i])}
<1>1. Settled(ts, deps[1]) = "pending"
  BY DEF Settled, Instances, Done
<1>2. 1 \in stops /\ stops \subseteq Nat /\ \A i \in stops : 1 <= i
  BY <1>1
<1>3. Oldest(stops) = 1
  BY <1>2 DEF Oldest
<1>4. stops # {} /\ Settled(ts, deps[Oldest(stops)]) = "pending"
  BY <1>1, <1>2, <1>3
<1> QED BY <1>4 DEF Decide

\* and is decided once all have, and what its condition names.
LEMMA MustDecide ==
    ASSUME NEW ts \in Seq(TaskRows), NEW t \in DOMAIN ts, Dependencies(ts)[t] \in Seq(Names),
           \A u \in DOMAIN ts : ts[u].name \in Listed(Dependencies(ts)[t]) => Done(ts, u),
           ts[t].when # "" => \A u \in DOMAIN ts : ts[u].name = ts[t].when => Done(ts, u)
    PROVE  Decide(ts, t) # "wait"
<1> DEFINE deps  == Dependencies(ts)[t]
           stops == {i \in DOMAIN deps :
                       \/ Settled(ts, deps[i]) = "pending"
                       \/ Settled(ts, deps[i]) = "failed" /\ ~Expects(ts[t], deps[i])}
<1>1. \A i \in DOMAIN deps : Settled(ts, deps[i]) # "pending"
  <2>1. \A i \in DOMAIN deps : deps[i] \in Listed(deps)
    BY DEF Listed
  <2> QED BY <2>1 DEF Settled, Instances, Done
<1>2. Condition(ts, t) # "wait"
  BY DEF Condition, Instances, Done
<1>3. ASSUME stops # {} PROVE Oldest(stops) \in DOMAIN deps
  <2>1. DOMAIN deps \subseteq Nat
    <3> DEFINE q == deps
    <3>1. q \in Seq(Names)
      OBVIOUS
    <3> HIDE DEF q
    <3>2. DOMAIN q = 1 .. Len(q) /\ Len(q) \in Nat
      BY ONLY <3>1
    <3>3. DOMAIN q \subseteq Nat
      BY ONLY <3>2
    <3> QED BY <3>3 DEF q
  <2>2. stops \subseteq DOMAIN deps
    OBVIOUS
  <2> HIDE DEF stops, deps
  <2> QED BY <1>3, <2>1, <2>2, OldestIs
<1> HIDE DEF deps, stops
<1>4. Decide(ts, t) = IF stops # {}
                      THEN IF Settled(ts, deps[Oldest(stops)]) = "pending" THEN "wait" ELSE "skip"
                      ELSE IF ts[t].require /\ \E m \in Listed(deps) : Unchecked(ts, m) THEN "skip"
                      ELSE Condition(ts, t)
  BY DEF Decide, deps, stops
<1> QED BY <1>1, <1>2, <1>3, <1>4

\* Rows that are asked the same, and rows that say the same.
SameList(ts, us) ==
    /\ us \in Seq(TaskRows) /\ DOMAIN us = DOMAIN ts
    /\ \A t \in DOMAIN ts : AsAsked(ts[t], us[t])

LEMMA StaysListed ==
    ASSUME NEW ts \in Seq(TaskRows), NEW us \in Seq(TaskRows), NEW n, Listing(ts, n), Len(ts) <= Len(us),
           \A t \in DOMAIN ts : AsAsked(ts[t], us[t]),
           \A t \in Len(ts) + 1 .. Len(us) : SentRow(us[t])
    PROVE  Listing(us, n)
<1>1. /\ Len(ts) \in Nat /\ DOMAIN ts = 1 .. Len(ts) /\ Len(us) \in Nat /\ DOMAIN us = 1 .. Len(us)
      /\ n \in 1 .. Len(ts) /\ n \in 1 .. Len(us)
  BY DEF Listing
<1>2. \A t \in 1 .. n : t \in DOMAIN ts /\ \A u \in 1 .. t - 1 : u \in DOMAIN ts /\ u \in 1 .. n
  BY ONLY <1>1
<1>3. \A t \in DOMAIN ts :
         /\ us[t].name = ts[t].name /\ us[t].foreach = ts[t].foreach /\ us[t].retryOf = ts[t].retryOf
         /\ us[t].when = ts[t].when /\ us[t].dependsOn = ts[t].dependsOn
         /\ us[t].listed = ts[t].listed /\ us[t].require = ts[t].require
  BY DEF AsAsked
<1>4. \A t, u \in 1 .. n : us[t].name = us[u].name => t = u
  BY <1>2, <1>3 DEF Listing
<1>5. ASSUME NEW t \in 1 .. n PROVE ListRow(us, t)
  <2>1. ListRow(ts, t) /\ t \in DOMAIN ts
    BY <1>2 DEF Listing
  <2>2. us[t].foreach = "" /\ us[t].retryOf = 0
    BY <1>3, <2>1 DEF ListRow
  <2>3. t > 1 => t - 1 \in 1 .. t - 1
    BY ONLY <1>1, t \in 1 .. n
  <2>4. t > 1 => us[t - 1].name = ts[t - 1].name
    BY <1>2, <1>3, <2>3
  <2>5. us[t].dependsOn = IF t > 1 /\ us[t].listed THEN <<us[t - 1].name>> ELSE <<>>
    <3>1. us[t].dependsOn = ts[t].dependsOn /\ us[t].listed = ts[t].listed
      BY <1>3, <2>1
    <3>2. ts[t].dependsOn = IF t > 1 /\ ts[t].listed THEN <<ts[t - 1].name>> ELSE <<>>
      BY <2>1 DEF ListRow
    <3> QED BY ONLY <2>4, <3>1, <3>2
  <2>6. us[t].when # "" => \E u \in 1 .. t - 1 : us[u].name = us[t].when
    BY <1>2, <1>3, <2>1 DEF ListRow
  <2> QED BY <2>2, <2>5, <2>6 DEF ListRow
<1>6. ASSUME NEW t \in n + 1 .. Len(us) PROVE SentRow(us[t])
  <2>1. CASE t \in Len(ts) + 1 .. Len(us)
    BY <2>1
  <2>2. CASE t \in n + 1 .. Len(ts)
    <3>1. SentRow(ts[t]) /\ t \in DOMAIN ts
      BY <1>1, <2>2 DEF Listing
    <3> QED BY <1>3, <3>1 DEF SentRow
  <2>3. t \in Len(ts) + 1 .. Len(us) \/ t \in n + 1 .. Len(ts)
    BY ONLY <1>1, t \in n + 1 .. Len(us)
  <2> QED BY <2>1, <2>2, <2>3
<1> QED BY <1>1, <1>4, <1>5, <1>6 DEF Listing

\* Statuses and what is asked are all there is to a line.
LEMMA StaysInLine ==
    ASSUME NEW ts \in Seq(TaskRows), NEW us, SameList(ts, us), InLine(ts),
           \A t \in DOMAIN ts : us[t].status = ts[t].status
    PROVE  InLine(us)
<1>1. PICK n \in DOMAIN ts, k \in DOMAIN ts :
         Listing(ts, n) /\ Stands(ts, n, k) /\ (First(ts, n) \/ Second(ts, n, k))
  BY DEF InLine
<1>2. /\ Len(ts) \in Nat /\ DOMAIN ts = 1 .. Len(ts) /\ Len(us) = Len(ts) /\ us \in Seq(TaskRows)
      /\ DOMAIN us = DOMAIN ts /\ n \in 1 .. Len(ts) /\ k \in 1 .. n
  BY <1>1 DEF SameList, Listing, Stands
<1>3. \A t \in DOMAIN ts :
         /\ us[t].name = ts[t].name /\ us[t].kind = ts[t].kind /\ us[t].dependsOn = ts[t].dependsOn
         /\ us[t].status = ts[t].status /\ (Done(us, t) <=> Done(ts, t))
  BY DEF SameList, AsAsked, Done
<1>4. Listing(us, n)
  BY <1>1, <1>2, StaysListed DEF SameList
<1>5. /\ \A t \in 1 .. k - 1 : t \in DOMAIN ts
      /\ \A t \in k + 1 .. n : t \in DOMAIN ts
      /\ \A t \in n + 1 .. Len(ts) : t \in DOMAIN ts
      /\ Len(ts) >= n + 2 => /\ Len(ts) \in DOMAIN ts /\ Len(ts) - 1 \in DOMAIN ts
                             /\ \A t \in n + 1 .. Len(ts) - 2 : t \in DOMAIN ts
  BY ONLY <1>2
<1>6. Stands(us, n, k)
  BY <1>1, <1>3, <1>5 DEF Stands
<1>7. First(ts, n) => First(us, n)
  BY <1>2, <1>3, <1>5 DEF First
<1>8. Second(ts, n, k) => Second(us, n, k)
  BY <1>1, <1>2, <1>3, <1>5, ZenonT(40) DEF Second
<1> QED BY <1>1, <1>2, <1>4, <1>6, <1>7, <1>8 DEF InLine

\* A running row is the one whose turn it is.
LEMMA RunningsTurn ==
    ASSUME NEW ts \in Seq(TaskRows), InLine(ts), NEW t \in DOMAIN ts, ts[t].status = "running"
    PROVE  \E n, k \in DOMAIN ts : TurnOf(ts, n, k, t)
<1>1. PICK n \in DOMAIN ts, k \in DOMAIN ts :
         Listing(ts, n) /\ Stands(ts, n, k) /\ (First(ts, n) \/ Second(ts, n, k))
  BY DEF InLine
<1>2. Len(ts) \in Nat /\ DOMAIN ts = 1 .. Len(ts) /\ n \in 1 .. Len(ts) /\ k \in 1 .. n
  BY <1>1 DEF Listing, Stands
<1>3. ~Done(ts, t) /\ ts[t].status # "queued"
  BY DEF Done, Terminal
<1>4. t \notin 1 .. k - 1 /\ t \notin k + 1 .. n
  BY <1>1, <1>3 DEF Stands
<1>5. t = k \/ t \in n + 1 .. Len(ts)
  BY ONLY <1>2, <1>4, t \in DOMAIN ts
<1>6. CASE First(ts, n)
  <2>1. t = k
    BY <1>3, <1>5, <1>6 DEF First
  <2> QED BY <1>1, <1>3, <1>6, <2>1 DEF TurnOf
<1>7. CASE Second(ts, n, k)
  <2>1. t # k /\ t \notin n + 1 .. Len(ts) - 2 /\ Len(ts) >= n + 2
    BY <1>3, <1>7 DEF Second
  <2>2. t = Len(ts) - 1 \/ t = Len(ts)
    BY ONLY <1>2, <1>5, <2>1
  <2>3. t = Len(ts) => Done(ts, Len(ts) - 1)
    BY <1>7 DEF Second
  <2> QED BY <1>1, <1>3, <1>7, <2>2, <2>3 DEF TurnOf
<1> QED BY <1>1, <1>6, <1>7

\* When it begins or comes to an end, the line stands.
LEMMA TurnMoves ==
    ASSUME NEW ts \in Seq(TaskRows), NEW us, SameList(ts, us), NEW n, NEW k, NEW t, TurnOf(ts, n, k, t),
           \A u \in DOMAIN ts \ {t} : us[u].status = ts[u].status,
           us[t].status \in Terminal \cup {"running"}
    PROVE  InLine(us)
<1>1. /\ Len(ts) \in Nat /\ DOMAIN ts = 1 .. Len(ts) /\ Len(us) = Len(ts) /\ us \in Seq(TaskRows)
      /\ DOMAIN us = DOMAIN ts /\ n \in 1 .. Len(ts) /\ k \in 1 .. n /\ t \in DOMAIN ts
  BY DEF SameList, Listing, Stands, TurnOf
<1>2. \A u \in DOMAIN ts :
         /\ us[u].name = ts[u].name /\ us[u].kind = ts[u].kind /\ us[u].dependsOn = ts[u].dependsOn
         /\ u # t => us[u].status = ts[u].status /\ (Done(us, u) <=> Done(ts, u))
  BY DEF SameList, AsAsked, Done
<1>3. Listing(us, n) /\ n \in DOMAIN us /\ k \in DOMAIN us
  BY <1>1, StaysListed DEF SameList, TurnOf
<1>4. /\ \A u \in 1 .. k - 1 : u \in DOMAIN ts /\ u # k /\ u <= n
      /\ \A u \in k + 1 .. n : u \in DOMAIN ts /\ u # k /\ u <= n
      /\ \A u \in n + 1 .. Len(ts) : u \in DOMAIN ts /\ u # k
  BY ONLY <1>1
<1>5. CASE t = k /\ First(ts, n)
  <2>1. Stands(us, n, k)
    BY <1>1, <1>2, <1>4, <1>5 DEF TurnOf, Stands
  <2>2. First(us, n)
    BY <1>1, <1>2, <1>4, <1>5 DEF First
  <2> QED BY <1>3, <2>1, <2>2 DEF InLine
<1>6. CASE Second(ts, n, k) /\ (t = Len(ts) - 1 \/ (t = Len(ts) /\ Done(ts, Len(ts) - 1)))
  <2> DEFINE l == Len(ts)
             m == Len(ts) - 1
  <2>1. Len(ts) >= n + 2
    BY <1>6 DEF Second
  <2>0. /\ l \in DOMAIN ts /\ m \in DOMAIN ts /\ k \in DOMAIN ts /\ l # k /\ m # k /\ m # l /\ ~(l <= n) /\ ~(m <= n)
        /\ \A u \in n + 1 .. l - 2 : u \in DOMAIN ts /\ u # m /\ u # l
        /\ \A u \in n + 1 .. l : u \in n + 1 .. l - 2 \/ u = m \/ u = l
        /\ \A u \in 1 .. k - 1 : u # m /\ u # l
        /\ \A u \in k + 1 .. n : u # m /\ u # l
    <3> DEFINE x == Len(ts)
    <3>1. x \in Nat /\ DOMAIN ts = 1 .. x /\ n \in 1 .. x /\ k \in 1 .. n /\ x >= n + 2 /\ l = x /\ m = x - 1
      BY <1>1, <2>1
    <3> HIDE DEF x, l, m
    <3> QED BY ONLY <3>1
  <2>2. Stands(us, n, k) /\ Done(us, k)
    <3>1. t = m \/ t = l
      BY <1>6
    <3>2. k \in 1 .. n /\ Done(ts, k) /\ Stands(ts, n, k)
      BY <1>6 DEF TurnOf, Second, Stands
    <3> HIDE DEF l, m
    <3> QED BY <1>2, <1>4, <2>0, <3>1, <3>2 DEF Stands
  <2>3. \A u \in n + 1 .. Len(ts) - 2 : Done(us, u)
    BY <1>2, <2>0, <1>6 DEF Second
  <2>4. /\ us[Len(ts)].name = us[k].name /\ us[Len(ts)].dependsOn = <<us[Len(ts) - 1].name>>
        /\ us[Len(ts) - 1].kind = "agent" /\ us[Len(ts) - 1].dependsOn = <<>>
        /\ \E w \in 1 .. k - 1 : us[w].name = us[Len(ts) - 1].name
    BY <1>2, <1>4, <1>6, <2>0 DEF Second
  <2>5. CASE t = Len(ts) - 1
    <3>1. ts[Len(ts)].status # "running" /\ ~Done(ts, Len(ts))
      BY <1>6, <2>5 DEF TurnOf, Second
    <3>2. us[Len(ts)].status # "running" /\ ~Done(us, Len(ts))
      BY <1>2, <2>0, <2>5, <3>1
    <3>3. Second(us, n, k)
      BY <1>1, <2>1, <2>2, <2>3, <2>4, <3>2 DEF Second
    <3> QED BY <1>3, <2>2, <3>3 DEF InLine
  <2>6. CASE t = Len(ts) /\ Done(ts, Len(ts) - 1)
    <3>1. Done(us, Len(ts) - 1)
      BY <1>2, <2>0, <2>6
    <3>2. CASE Done(us, Len(ts))
      <4>1. First(us, n)
        BY <1>1, <2>0, <2>3, <3>1, <3>2 DEF First
      <4> QED BY <1>3, <2>2, <4>1 DEF InLine
    <3>3. CASE ~Done(us, Len(ts))
      <4>1. Second(us, n, k)
        BY <1>1, <2>1, <2>2, <2>3, <2>4, <3>1, <3>3 DEF Second
      <4> QED BY <1>3, <2>2, <4>1 DEF InLine
    <3> QED BY <3>2, <3>3
  <2> QED BY <1>6, <2>5, <2>6
<1> QED BY <1>5, <1>6 DEF TurnOf

\* The work a check of a list is about bears the name of a task above it.
LEMMA CheckedAbove ==
    ASSUME NEW ts \in Seq(TaskRows), NEW n, NEW k, NEW v, TurnOf(ts, n, k, v), ts[v].kind = "verify",
           CheckedTask(ts, v) # 0
    PROVE  /\ v = k \/ (v = Len(ts) /\ Second(ts, n, k) /\ Done(ts, Len(ts) - 1))
           /\ \E w \in 1 .. k - 1 : ts[w].name = ts[CheckedTask(ts, v)].name
<1> DEFINE named == {t \in DOMAIN ts : ts[t].kind = "agent" /\ ts[t].name \in Listed(ts[v].dependsOn)}
           above == {t \in DOMAIN ts : ts[t].kind = "agent" /\ t < v}
           about == IF ts[v].dependsOn # <<>> THEN named ELSE above
           work == CheckedTask(ts, v)
<1>1. /\ Len(ts) \in Nat /\ DOMAIN ts = 1 .. Len(ts) /\ n \in 1 .. Len(ts) /\ k \in 1 .. n /\ v \in DOMAIN ts
  BY DEF TurnOf, Listing, Stands
<1>2. work \in about
  <2>1. about # {} /\ work = Newest(about)
    BY DEF CheckedTask
  <2>2. about \in SUBSET (1 .. Len(ts))
    BY <1>1
  <2> HIDE DEF about, work
  <2> QED BY <1>1, <2>1, <2>2, NewestIs
<1>3. CASE v = k
  <2>1. ListRow(ts, v)
    BY <1>1, <1>3 DEF TurnOf, Listing
  <2>2. CASE ts[v].dependsOn = <<>>
    <3>1. work \in above
      BY <1>2, <2>2
    <3>2. work \in 1 .. k - 1
      BY <1>1, <1>3, <3>1
    <3> QED BY <1>3, <3>2
  <2>3. CASE ts[v].dependsOn # <<>>
    <3>1. v > 1 /\ ts[v].dependsOn = <<ts[v - 1].name>>
      BY <2>1, <2>3 DEF ListRow
    <3>2. ts[work].name \in Listed(<<ts[v - 1].name>>)
      BY <1>2, <2>3, <3>1
    <3>3. ts[work].name = ts[v - 1].name
      BY <3>2 DEF Listed
    <3>4. v - 1 \in 1 .. k - 1
      BY ONLY <1>1, <1>3, <3>1
    <3> QED BY <1>3, <3>3, <3>4
  <2> QED BY <2>2, <2>3
<1>4. CASE v = Len(ts) - 1 /\ Second(ts, n, k)
  BY <1>4 DEF Second
<1>5. CASE v = Len(ts) /\ Second(ts, n, k) /\ Done(ts, Len(ts) - 1)
  <2>1. ts[v].dependsOn = <<ts[Len(ts) - 1].name>>
    BY <1>5 DEF Second
  <2>2. ts[work].name \in Listed(<<ts[Len(ts) - 1].name>>)
    <3>1. ts[v].dependsOn # <<>>
      BY <2>1
    <3> QED BY <1>2, <2>1, <3>1
  <2>3. ts[work].name = ts[Len(ts) - 1].name
    BY <2>2 DEF Listed
  <2> QED BY <1>5, <2>3 DEF Second
<1> QED BY <1>3, <1>4, <1>5 DEF TurnOf

\* A failed check's second try goes on where the check stands.
LEMMA TurnRetries ==
    ASSUME tasks \in Seq(TaskRows), NEW us \in Seq(TaskRows), NEW n, NEW k, NEW v, TurnOf(tasks, n, k, v),
           Retried(v, us), \A t \in DOMAIN tasks : AsAsked(tasks[t], us[t]),
           \A t \in DOMAIN tasks \ {v} : us[t].status = tasks[t].status,
           \A t \in DOMAIN us \ DOMAIN tasks : us[t].status = "queued"
    PROVE  InLine(us)
<1> DEFINE work  == CheckedTask(tasks, v)
           again == Len(tasks) + 1
           check == Len(tasks) + 2
           one == [RetryOf(tasks, work) EXCEPT !.listed = TRUE]
           two == [RetryOf(tasks, v) EXCEPT !.listed = TRUE, !.dependsOn = <<tasks[work].name>>,
                                            !.retries = tasks[v].retries - 1]
<1>1. /\ Len(tasks) \in Nat /\ DOMAIN tasks = 1 .. Len(tasks) /\ n \in 1 .. Len(tasks) /\ k \in 1 .. n
      /\ v \in DOMAIN tasks /\ Len(us) = Len(tasks) + 2 /\ DOMAIN us = 1 .. Len(us)
      /\ tasks[v].kind = "verify" /\ work # 0 /\ us[v].status = "failed"
      /\ us[again] = RetryPair(tasks, work, v)[1] /\ us[check] = RetryPair(tasks, work, v)[2]
  BY DEF TurnOf, Listing, Stands, Retried, MayRetry
<1>2. /\ v = k \/ (v = Len(tasks) /\ Second(tasks, n, k) /\ Done(tasks, Len(tasks) - 1))
      /\ \E w \in 1 .. k - 1 : tasks[w].name = tasks[work].name
      /\ tasks[work].kind = "agent"
  <2>1. tasks \in Seq(TaskRows) /\ v \in DOMAIN tasks /\ TurnOf(tasks, n, k, v)
        /\ tasks[v].kind = "verify" /\ work # 0
    BY <1>1
  <2>2. /\ v = k \/ (v = Len(tasks) /\ Second(tasks, n, k) /\ Done(tasks, Len(tasks) - 1))
        /\ \E w \in 1 .. k - 1 : tasks[w].name = tasks[work].name
    BY ONLY <2>1, CheckedAbove
  <2>3. tasks[work].kind = "agent"
    BY ONLY <2>1, CheckedTaskIs
  <2> QED BY <2>2, <2>3
<1>3. /\ us[again].name = tasks[work].name /\ us[again].kind = "agent" /\ us[again].dependsOn = <<>>
      /\ us[check].name = tasks[v].name /\ us[check].dependsOn = <<tasks[work].name>>
  <2>1. us[again] = one /\ us[check] = two
    BY <1>1 DEF RetryPair
  <2>2. one.name = tasks[work].name /\ one.kind = tasks[work].kind /\ one.dependsOn = <<>>
    BY DEF RetryOf, NewTask
  <2>3. two.name = tasks[v].name /\ two.dependsOn = <<tasks[work].name>>
    BY DEF RetryOf, NewTask
  <2> HIDE DEF one, two
  <2> QED BY <1>2, <2>1, <2>2, <2>3
<1> HIDE DEF one, two, work
<1>4. /\ again \in DOMAIN us \ DOMAIN tasks /\ check \in DOMAIN us \ DOMAIN tasks /\ check >= n + 2
      /\ again = Len(us) - 1 /\ check = Len(us)
      /\ \A t \in Len(tasks) + 1 .. Len(us) : t \in DOMAIN us \ DOMAIN tasks
      /\ \A t \in 1 .. k - 1 : t \in DOMAIN tasks /\ t <= n /\ t # k
      /\ \A t \in k + 1 .. n : t \in DOMAIN tasks /\ t <= n /\ t # k
      /\ \A t \in n + 1 .. Len(us) - 2 : t \in n + 1 .. Len(tasks) /\ t \in DOMAIN tasks
      /\ k \in DOMAIN tasks /\ n \in DOMAIN us /\ k \in DOMAIN us
  BY ONLY <1>1
<1>5. Listing(us, n)
  <2>1. \A t \in Len(tasks) + 1 .. Len(us) : SentRow(us[t])
    BY <1>1, <1>4, RetriedComes, ZenonT(40) DEF SentRow
  <2>2. Listing(tasks, n) /\ Len(tasks) <= Len(us)
    BY <1>1 DEF TurnOf
  <2>3. \A ts \in Seq(TaskRows) : ts = tasks => Listing(us, n)
    BY <2>1, <2>2, StaysListed
  <2> QED BY <2>3
<1>6. \A t \in DOMAIN tasks : us[t].name = tasks[t].name /\ (t # v => us[t].status = tasks[t].status)
  BY DEF AsAsked
<1>7. /\ Done(us, v) /\ us[again].status = "queued" /\ us[check].status = "queued"
      /\ ~Done(us, again) /\ ~Done(us, check) /\ \A t \in DOMAIN tasks : Done(tasks, t) => Done(us, t)
  BY <1>1, <1>4, <1>6 DEF Done, Terminal
<1>8. Stands(us, n, k)
  <2>1. v = k \/ ~(v <= n)
    <3>1. Second(tasks, n, k) => Len(tasks) >= n + 2
      BY DEF Second
    <3>2. v = k \/ (v = Len(tasks) /\ Len(tasks) >= n + 2)
      BY <1>2, <3>1
    <3> QED BY ONLY <1>1, <3>2
  <2> QED BY <1>1, <1>4, <1>6, <1>7, <2>1 DEF TurnOf, Stands
<1>9. Done(us, k) /\ tasks[v].name = tasks[k].name
  BY <1>2, <1>4, <1>7 DEF Second
<1>10. \A t \in n + 1 .. Len(us) - 2 : Done(us, t)
  <2>1. CASE v = k
    <3>1. First(tasks, n)
      <4>1. Second(tasks, n, k) => Len(tasks) >= n + 2
        BY DEF Second
      <4>2. n \in Nat /\ k \in 1 .. n /\ Len(tasks) \in Nat
        BY <1>1
      <4>3. \A l \in Nat : l >= n + 2 => k # l - 1 /\ k # l
        BY ONLY <4>2
      <4>4. Second(tasks, n, k) => k # Len(tasks) - 1 /\ k # Len(tasks)
        BY <4>1, <4>2, <4>3
      <4> QED BY <2>1, <4>4 DEF TurnOf
    <3> QED BY <1>4, <1>7, <3>1 DEF First
  <2>2. CASE v = Len(tasks) /\ Second(tasks, n, k) /\ Done(tasks, Len(tasks) - 1)
    <3>1. \A t \in n + 1 .. Len(tasks) - 2 : Done(tasks, t)
      BY <2>2 DEF Second
    <3> DEFINE l == Len(tasks)
    <3>0. l \in Nat /\ n \in 1 .. l
      BY <1>1
    <3> HIDE DEF l
    <3>2. \A t \in n + 1 .. l : t \in n + 1 .. l - 2 \/ t = l - 1 \/ t = l
      BY ONLY <3>0
    <3> QED BY <1>4, <1>7, <2>2, <3>1, <3>2 DEF l
  <2> QED BY <1>2, <2>1, <2>2
<1>11. \E w \in 1 .. k - 1 : us[w].name = us[again].name
  BY <1>2, <1>3, <1>4, <1>6
<1>12. us[check].name = us[k].name /\ us[check].dependsOn = <<us[again].name>>
  BY <1>3, <1>4, <1>6, <1>9
<1>13. Second(us, n, k)
  <2> HIDE DEF again, check
  <2>1. us[check].status # "running"
    BY <1>7
  <2> QED BY <1>3, <1>4, <1>7, <1>9, <1>10, <1>11, <1>12, <2>1 DEF Second
<1> QED BY <1>4, <1>5, <1>8, <1>13 DEF InLine

\* Where nothing runs and something is queued, it is one row's turn: that one
\* is decided, and every other waits.
LEMMA WhoseTurn ==
    ASSUME NEW ts \in Seq(TaskRows), InLine(ts), With(ts, "running") = {}, With(ts, "queued") # {}
    PROVE  \E n, k \in DOMAIN ts, t \in With(ts, "queued") :
              /\ TurnOf(ts, n, k, t) /\ Decide(ts, t) # "wait"
              /\ \A u \in With(ts, "queued") \ {t} : Decide(ts, u) = "wait"
<1>1. PICK n \in DOMAIN ts, m \in DOMAIN ts :
         Listing(ts, n) /\ Stands(ts, n, m) /\ (First(ts, n) \/ Second(ts, n, m))
  BY DEF InLine
<1>2. PICK q \in DOMAIN ts : ts[q].status = "queued"
  BY DEF With
<1>3. Len(ts) \in Nat /\ DOMAIN ts = 1 .. Len(ts) /\ n \in 1 .. Len(ts) /\ m \in 1 .. n
  BY <1>1 DEF Listing, Stands
<1>4. \A t \in DOMAIN ts : /\ Done(ts, t) \/ ts[t].status = "queued"
                           /\ ~(Done(ts, t) /\ ts[t].status = "queued")
  <2>1. \A t \in DOMAIN ts : ts[t] \in TaskRows /\ ts[t].status # "running"
    BY DEF With
  <2>2. \A t \in DOMAIN ts : ts[t].status \in Statuses
    BY <2>1 DEF TaskRows
  <2> QED BY <2>1, <2>2 DEF Statuses, Done, Terminal
<1>5. \A t, u \in 1 .. n : ts[t].name = ts[u].name => t = u
  BY <1>1 DEF Listing
\* A row of the list waits for the one above it, or for its second try.
<1>6. ASSUME NEW t \in 2 .. n, NEW u \in DOMAIN ts, ts[u].name = ts[t - 1].name, ts[u].status = "queued"
      PROVE  Decide(ts, t) = "wait"
  <2>1. t \in DOMAIN ts /\ ~Done(ts, u)
    BY <1>3, <1>4, <1>6
  <2>2. Dependencies(ts)[t] \in Seq(Names) /\ 1 \in DOMAIN Dependencies(ts)[t]
        /\ Dependencies(ts)[t][1] = ts[t - 1].name
    BY <1>1, <1>6, <2>1, ListIs, SMTT(30)
  <2> QED BY <1>6, <2>1, <2>2, MustWait
\* And it is decided once the rows above it, and what was sent back, are done.
<1>7. ASSUME NEW t \in 1 .. n, \A u \in 1 .. t - 1 : Done(ts, u), \A u \in n + 1 .. Len(ts) : Done(ts, u)
      PROVE  Decide(ts, t) # "wait"
  <2>1. t \in DOMAIN ts /\ ListRow(ts, t)
    BY <1>1, <1>3 DEF Listing
  <2>2. \A u \in DOMAIN ts : u \in 1 .. n \/ u \in n + 1 .. Len(ts)
    BY ONLY <1>3
  <2>3. \A w \in 1 .. t - 1 : w \in 1 .. n
    BY ONLY <1>3, t \in 1 .. n
  <2>4. ASSUME NEW w \in 1 .. t - 1, NEW u \in DOMAIN ts, ts[u].name = ts[w].name PROVE Done(ts, u)
    BY <1>5, <1>7, <2>2, <2>3, <2>4
  <2>5. /\ Dependencies(ts)[t] \in Seq(Names)
        /\ \A x \in Listed(Dependencies(ts)[t]) : \E w \in 1 .. t - 1 : ts[w].name = x
    BY <1>1, <1>7, <2>1, ListIs
  <2>6. \A u \in DOMAIN ts : ts[u].name \in Listed(Dependencies(ts)[t]) => Done(ts, u)
    BY <2>4, <2>5
  <2>7. ts[t].when # "" => \A u \in DOMAIN ts : ts[u].name = ts[t].when => Done(ts, u)
    BY <2>1, <2>4 DEF ListRow
  <2> QED BY <2>1, <2>5, <2>6, <2>7, MustDecide
<1>8. CASE First(ts, n)
  <2>1. q \in 1 .. n
    <3>1. q \notin n + 1 .. Len(ts)
      BY <1>2, <1>4, <1>8 DEF First
    <3> QED BY ONLY <1>2, <1>3, <3>1
  <2>2. PICK k \in 1 .. n : Stands(ts, n, k) /\ ts[k].status = "queued"
    <3>1. CASE ts[m].status = "queued"
      BY <1>1, <1>3, <3>1
    <3>2. CASE ts[m].status # "queued"
      <4>1. q \notin 1 .. m - 1 /\ q # m
        BY <1>1, <1>2, <1>4, <3>2 DEF Stands
      <4>2. /\ m + 1 \in 1 .. n /\ m + 1 \in m + 1 .. n /\ m \in DOMAIN ts
            /\ \A u \in 1 .. (m + 1) - 1 : u \in 1 .. m - 1 \/ u = m
            /\ \A u \in (m + 1) + 1 .. n : u \in m + 1 .. n
        BY ONLY <1>3, <2>1, <4>1
      <4>3. Done(ts, m)
        BY <1>4, <3>2, <4>2
      <4> QED BY <1>1, <4>2, <4>3 DEF Stands
    <3> QED BY <3>1, <3>2
  <2>3. k \in DOMAIN ts /\ ~Done(ts, k)
    BY <1>3, <1>4, <2>2
  <2>4. TurnOf(ts, n, k, k)
    BY <1>1, <1>8, <2>2, <2>3 DEF TurnOf
  <2>5. Decide(ts, k) # "wait"
    BY <1>7, <1>8, <2>2 DEF Stands, First
  <2>6. ASSUME NEW u \in With(ts, "queued") \ {k} PROVE Decide(ts, u) = "wait"
    <3>1. u \in DOMAIN ts /\ u # k /\ ~Done(ts, u)
      BY <1>4, <2>6 DEF With
    <3>2. u \notin 1 .. k - 1 /\ u \notin n + 1 .. Len(ts)
      BY <1>8, <2>2, <3>1 DEF Stands, First
    <3>3. u \in 2 .. n /\ u - 1 \in DOMAIN ts /\ (u - 1 = k \/ u - 1 \in k + 1 .. n)
      BY ONLY <1>3, <2>2, <3>1, <3>2
    <3>4. ts[u - 1].status = "queued"
      BY <2>2, <3>3 DEF Stands
    <3> QED BY <1>6, <3>3, <3>4
  <2> QED BY <2>2, <2>3, <2>4, <2>5, <2>6 DEF With
<1>9. CASE Second(ts, n, m)
  <2> DEFINE again == Len(ts) - 1
             check == Len(ts)
  <2>1. /\ check >= n + 2 /\ Done(ts, m) /\ \A t \in n + 1 .. check - 2 : Done(ts, t)
        /\ ~Done(ts, check) /\ ts[check].name = ts[m].name /\ ts[check].dependsOn = <<ts[again].name>>
        /\ ts[again].dependsOn = <<>> /\ \E w \in 1 .. m - 1 : ts[w].name = ts[again].name
    BY <1>9 DEF Second
  <2>2. /\ again \in n + 1 .. Len(ts) /\ check \in n + 1 .. Len(ts) /\ again # check
        /\ again \in DOMAIN ts /\ check \in DOMAIN ts /\ m \in DOMAIN ts /\ n \in DOMAIN ts
        /\ \A u \in DOMAIN ts : u \in 1 .. m - 1 \/ u = m \/ u \in m + 1 .. n
                                \/ u \in n + 1 .. check - 2 \/ u = again \/ u = check
        /\ \A u \in m + 1 .. n : u \in 2 .. n /\ u - 1 \in DOMAIN ts /\ (u - 1 = m \/ u - 1 \in m + 1 .. n)
    <3> DEFINE l == Len(ts)
    <3>1. l \in Nat /\ DOMAIN ts = 1 .. l /\ n \in 1 .. l /\ m \in 1 .. n /\ l >= n + 2 /\ again = l - 1 /\ check = l
      BY <1>3, <2>1
    <3> HIDE DEF l, again, check
    <3>2. Len(ts) = l
      BY DEF l
    <3> QED BY ONLY <3>1, <3>2
  <2> HIDE DEF again, check
  <2>3. ts[check].status = "queued"
    BY <1>4, <2>1, <2>2
  <2>4. \A u \in 1 .. m - 1 : Done(ts, u)
    BY <1>1 DEF Stands
  <2>5. ASSUME NEW u \in m + 1 .. n PROVE Decide(ts, u) = "wait"
    <3>1. CASE u - 1 = m
      BY <1>6, <2>1, <2>2, <2>3, <2>5, <3>1
    <3>2. CASE u - 1 \in m + 1 .. n
      <4>1. ts[u - 1].status = "queued"
        BY <1>1, <3>2 DEF Stands
      <4> QED BY <1>6, <2>2, <2>5, <4>1
    <3> QED BY <2>2, <2>5, <3>1, <3>2
  <2>6. /\ Dependencies(ts)[again] = <<>> /\ ts[again].when = ""
        /\ Dependencies(ts)[check] = <<ts[again].name>> /\ ts[check].when = ""
        /\ Dependencies(ts)[again] \in Seq(Names) /\ Dependencies(ts)[check] \in Seq(Names)
    <3>1. SentRow(ts[again]) /\ SentRow(ts[check])
      BY <1>1, <2>2 DEF Listing
    <3>2. ASSUME NEW t \in n + 1 .. Len(ts) PROVE Dependencies(ts)[t] = ts[t].dependsOn
      <4>1. t \in DOMAIN ts
        BY ONLY <1>3, t \in n + 1 .. Len(ts)
      <4> QED BY <1>1, <4>1, ListIs
    <3>3. \A t \in DOMAIN ts : ts[t].dependsOn \in Seq(Names)
      <4>1. \A t \in DOMAIN ts : ts[t] \in TaskRows
        OBVIOUS
      <4> QED BY <4>1 DEF TaskRows
    <3> DEFINE one == Dependencies(ts)[again]
               two == Dependencies(ts)[check]
    <3>4. one = ts[again].dependsOn /\ two = ts[check].dependsOn
      BY <2>2, <3>2
    <3> HIDE DEF one, two
    <3>5. one = <<>> /\ two = <<ts[again].name>> /\ one \in Seq(Names) /\ two \in Seq(Names)
      BY <2>1, <2>2, <3>3, <3>4
    <3> QED BY <3>1, <3>5 DEF SentRow, one, two
  <2>7. CASE ~Done(ts, again)
    <3>1. ts[again].status = "queued" /\ TurnOf(ts, n, m, again)
      BY <1>1, <1>4, <1>9, <2>2, <2>7 DEF TurnOf, again
    <3>2. Decide(ts, again) # "wait"
      <4>0. Listed(<<>>) = {}
        BY DEF Listed
      <4>1. Listed(Dependencies(ts)[again]) = {}
        BY ONLY <2>6, <4>0
      <4> QED BY <2>2, <2>6, <4>1, MustDecide
    <3>3. Decide(ts, check) = "wait"
      <4> DEFINE x == ts[again].name
                 list == Dependencies(ts)[check]
      <4>0. list = <<x>>
        BY <2>6
      <4> HIDE DEF list, x
      <4>1. 1 \in DOMAIN list /\ list[1] = x
        BY ONLY <4>0
      <4> USE DEF list, x
      <4> QED BY <2>2, <2>6, <2>7, <4>1, MustWait
    <3>4. \A u \in With(ts, "queued") \ {again} : u = check \/ u \in m + 1 .. n
      BY <1>4, <2>1, <2>2, <2>4 DEF With
    <3> QED BY <2>2, <2>5, <3>1, <3>2, <3>3, <3>4 DEF With
  <2>8. CASE Done(ts, again)
    <3>1. TurnOf(ts, n, m, check)
      BY <1>1, <1>9, <2>1, <2>2, <2>8 DEF TurnOf, again, check
    <3>2. ASSUME NEW u \in DOMAIN ts, ts[u].name = ts[again].name PROVE Done(ts, u)
      <4>1. PICK w \in 1 .. m - 1 : ts[w].name = ts[again].name
        BY <2>1
      <4>2. w \in 1 .. n /\ w # m /\ m \in 1 .. n /\ ~(w \in m + 1 .. n) /\ \A x \in m + 1 .. n : x \in 1 .. n
        BY ONLY <1>3, w \in 1 .. m - 1
      <4>3. u # check
        BY <1>5, <2>1, <3>2, <4>1, <4>2
      <4>4. u \notin m + 1 .. n
        BY <1>5, <3>2, <4>1, <4>2
      <4> QED BY <2>1, <2>2, <2>4, <2>8, <4>3, <4>4
    <3>3. Decide(ts, check) # "wait"
      <4>0. \A x \in Listed(<<ts[again].name>>) : x = ts[again].name
        BY DEF Listed
      <4>1. \A x \in Listed(Dependencies(ts)[check]) : x = ts[again].name
        BY ONLY <2>6, <4>0
      <4> QED BY <2>2, <2>6, <3>2, <4>1, MustDecide
    <3>4. \A u \in With(ts, "queued") \ {check} : u \in m + 1 .. n
      BY <1>4, <2>1, <2>2, <2>4, <2>8 DEF With
    <3> QED BY <2>2, <2>3, <2>5, <3>1, <3>3, <3>4 DEF With
  <2> QED BY <2>7, <2>8
<1> QED BY <1>1, <1>8, <1>9

\* The plans and the calls this is about.
Lists ==
    /\ ~Budgeted /\ Calls \subseteq {"approve", "stop"}
    /\ \A p \in Plans : Listing(p, Len(p))

\* No loop goes round beside a body, and a run that is not over stands in its
\* line, each running row with its body.
Line ==
    /\ \A d \in Drivers : drivers[d].pc = "loop" => bodies = {}
    /\ Active => /\ InLine(tasks)
                 /\ \A t \in With(tasks, "running") : \E b \in bodies : b.task = t

\* A list unrolls no plan.
LEMMA NoFans ==
    ASSUME NEW ts \in Seq(TaskRows), InLine(ts)
    PROVE  \A t \in DOMAIN ts : ts[t].foreach = ""
<1>1. PICK n \in DOMAIN ts : Listing(ts, n)
  BY DEF InLine
<1>2. DOMAIN ts = 1 .. Len(ts) /\ Len(ts) \in Nat /\ n \in 1 .. Len(ts)
  BY <1>1 DEF Listing
<1>3. \A t \in DOMAIN ts : t \in 1 .. n \/ t \in n + 1 .. Len(ts)
  BY ONLY <1>2
<1> QED BY <1>1, <1>3 DEF Listing, ListRow, SentRow

\* A run that a step ends, with nothing in flight, is in no line.
LEMMA Overs ==
    ASSUME ~Active', bodies' = {}
    PROVE  Line' /\ Serial'
BY DEF Line, Serial

\* A loop waits, leaves, or starts or skips the one row whose turn it is.
LEMMA LoopLines ==
    ASSUME IInv, Alone, Serial, Budgetless, Line, NEW d \in Drivers, Loop(d)
    PROVE  Line' /\ Serial'
<1>1. /\ drivers[d].pc = "loop" /\ run.status = "running" /\ \A e \in Drivers \ {d} : ~On(e)
      /\ \A e \in Drivers \ {d} : drivers'[e] = drivers[e]
      /\ Leaves(d) \/ Waits(d) \/ Passes(d)
  BY LoopComesTo
<1>2. /\ tasks \in Seq(TaskRows) /\ run \in RunRows /\ drivers[d] \in Contexts(DOMAIN tasks)
      /\ DOMAIN tasks = 1 .. Len(tasks)
  BY DEF IInv, TypeOK
<1>3. bodies = {} /\ InLine(tasks) /\ With(tasks, "running") = {}
  BY <1>1 DEF Line, Active
<1>4. \A e \in Drivers \ {d} : drivers'[e].pc # "loop"
  BY <1>1 DEF On
<1>5. CASE Leaves(d)
  <2>1. bodies' = {} /\ run'.status = Ending(d)
    BY <1>2, <1>5 DEF Leaves, RunRows
  <2>2. CASE Ending(d) = "awaiting"
    <3>1. \A t \in DOMAIN tasks : tasks'[t].status = tasks[t].status
      BY <1>5, <2>2 DEF Leaves
    <3>2. SameList(tasks, tasks')
      BY <1>5 DEF Leaves, Follows, SameList
    <3>3. InLine(tasks')
      BY <1>2, <1>3, <3>1, <3>2, StaysInLine
    <3>4. With(tasks, "running")' = {}
      BY <1>3, <1>5, <3>1 DEF With, Leaves
    <3> QED BY <2>1, <3>3, <3>4 DEF Line, Serial
  <2>3. CASE Ending(d) # "awaiting"
    <3>1. ~Active'
      BY <2>1, <2>3 DEF Active, Ending, EndingOf
    <3> QED BY <2>1, <3>1, Overs
  <2> QED BY <2>2, <2>3
<1>6. ~Waits(d)
  BY <1>3 DEF Waits
<1>7. CASE Passes(d)
  <2> DEFINE start == PassStart(d)
             skip  == PassSkip(d)
  <2>1. /\ start \subseteq Decided("run") /\ skip \subseteq Decided("skip") /\ start \cap skip = {}
        /\ start \subseteq DOMAIN tasks /\ skip \subseteq DOMAIN tasks /\ PassPlans(d) \subseteq start
    BY PassSets
  <2>2. PassPlans(d) = {}
    BY <1>2, <1>3, <2>1, NoFans DEF PassPlans
  <2>3. /\ bodies' = TurnsOf(d, start) /\ run' = run
        /\ drivers'[d].pc = "loop" => skip # {}
        /\ tasks' \in Seq(TaskRows) /\ DOMAIN tasks' = DOMAIN tasks
        /\ \A t \in DOMAIN tasks : /\ AsAsked(tasks[t], tasks'[t])
                                   /\ tasks'[t].status = IF t \in skip THEN "skipped"
                                                         ELSE IF t \in start THEN "running" ELSE tasks[t].status
    <3>1. drivers'[d].pc = "loop" => skip # {}
      <4>1. [drivers[d] EXCEPT !.pc = "wait"].pc = "wait"
        BY <1>2 DEF Contexts
      <4> QED BY <1>7, <2>2, <4>1 DEF Passes
    <3>2. DOMAIN tasks' = DOMAIN tasks
      BY <1>7, <2>2 DEF Passes, Walked
    <3> QED BY <1>3, <1>7, <2>2, <3>1, <3>2 DEF Passes, Walked
  <2>4. SameList(tasks, tasks')
    BY <2>3 DEF SameList
  <2>5. InLine(tasks') /\ \A t, u \in start \cup skip : t = u
    <3>1. CASE start \cup skip = {}
      BY <1>2, <1>3, <2>3, <2>4, <3>1, StaysInLine
    <3>2. CASE start \cup skip # {}
      <4>1. With(tasks, "queued") # {}
        BY <2>1, <3>2 DEF Decided
      <4>2. PICK n \in DOMAIN tasks, k \in DOMAIN tasks, t \in With(tasks, "queued") :
               /\ TurnOf(tasks, n, k, t) /\ Decide(tasks, t) # "wait"
               /\ \A u \in With(tasks, "queued") \ {t} : Decide(tasks, u) = "wait"
        BY <1>2, <1>3, <4>1, WhoseTurn
      <4>3. start \cup skip = {t}
        BY <2>1, <3>2, <4>2 DEF Decided
      <4>4. tasks'[t].status \in Terminal \cup {"running"}
        BY <2>3, <4>2, <4>3 DEF Terminal, With
      <4>5. \A u \in DOMAIN tasks \ {t} : tasks'[u].status = tasks[u].status
        BY <2>3, <4>3
      <4> HIDE DEF start, skip
      <4> QED BY <1>2, <2>4, <4>2, <4>3, <4>4, <4>5, TurnMoves
    <3> QED BY <3>1, <3>2
  <2>6. Serial'
    BY <2>3, <2>5 DEF Serial, TurnsOf
  <2>7. drivers'[d].pc = "loop" => bodies' = {}
    BY <2>1, <2>3, <2>5 DEF TurnsOf
  <2>8. \A t \in With(tasks, "running")' : \E b \in bodies' : b.task = t
    <3>1. ASSUME NEW t \in With(tasks, "running")' PROVE t \in start
      BY <1>3, <2>3, <3>1 DEF With
    <3>2. \A t \in start : [drv |-> d, task |-> t, stage |-> "turn"] \in bodies'
      BY <2>3 DEF TurnsOf
    <3> QED BY <3>1, <3>2
  <2> QED BY <1>4, <2>5, <2>6, <2>7, <2>8 DEF Line
<1> QED BY <1>1, <1>5, <1>6, <1>7
\* A body works on the row whose turn it is.
LEMMA BodyLines ==
    ASSUME IInv, Alone, Serial, Budgetless, Line, NEW b \in bodies, Body(b)
    PROVE  Line' /\ Serial'
<1>1. /\ b.drv \in Drivers /\ drivers[b.drv].pc = "wait" /\ bodies = {b} /\ \A d \in Drivers \ {b.drv} : ~On(d)
      /\ tasks \in Seq(TaskRows) /\ b.task \in DOMAIN tasks /\ run \in RunRows
      /\ b.stage = "turn" => tasks[b.task].status = "running"
      /\ b.stage # "turn" => tasks[b.task].status \in Terminal
  BY BodyIsQuiet, BodyAlone, BodyIs
<1>2. Active /\ InLine(tasks) /\ \A t \in With(tasks, "running") : t = b.task
  <2>1. Active
    BY <1>1 DEF Alone, On, Held, Active
  <2> QED BY <1>1, <2>1 DEF Line
<1>3. CASE TurnBreaks(b)
  <2>1. bodies' = {} /\ run' = [run EXCEPT !.status = "failed"]
    BY <1>1, <1>3 DEF TurnBreaks
  <2> QED BY <1>1, <2>1, Overs DEF Active, RunRows
<1>4. CASE ~TurnBreaks(b)
  <2>1. PICK c, on :
           /\ \A d \in Drivers \ {b.drv} : drivers'[d] = drivers[d]
           /\ Brings(b, c, tasks', run', on)
           /\ \/ drivers'[b.drv] = c /\ bodies' = bodies
              \/ drivers'[b.drv] = [c EXCEPT !.pc = "loop"] /\ bodies' = {} /\ on = FALSE
              \/ /\ drivers'[b.drv] = c
                 /\ \E stage \in {"judge", "note", "close"} : bodies' = {[b EXCEPT !.stage = stage]}
    BY <1>4, BodyComesTo DEF Outcome
  <2>2. Follows(tasks, tasks', {b.task})
    BY BodyFollows
  <2>3. Serial'
    BY <1>1, <2>1 DEF Serial
  <2>4. \A d \in Drivers : drivers'[d].pc = "loop" => bodies' = {}
    BY <1>1, <2>1 DEF Brings, On
  <2>5. InLine(tasks')
    <3>1. CASE tasks' = tasks
      BY <1>2, <3>1
    <3>2. CASE b.stage = "turn" /\ Retried(b.task, tasks')
      <4>1. PICK n \in DOMAIN tasks, k \in DOMAIN tasks : TurnOf(tasks, n, k, b.task)
        BY <1>1, <1>2, <3>2, RunningsTurn
      <4> QED BY <1>1, <2>2, <3>2, <4>1, TurnRetries DEF Follows
    <3>3. CASE tasks' # tasks /\ DOMAIN tasks' = DOMAIN tasks
      <4>1. SameList(tasks, tasks') /\ \A t \in DOMAIN tasks \ {b.task} : tasks'[t].status = tasks[t].status
        BY <2>2, <3>3 DEF Follows, SameList
      <4>2. CASE b.stage = "turn"
        <5>1. PICK n \in DOMAIN tasks, k \in DOMAIN tasks : TurnOf(tasks, n, k, b.task)
          BY <1>1, <1>2, <4>2, RunningsTurn
        <5>2. tasks'[b.task].status \in Terminal
          BY <2>1, <3>3 DEF Brings
        <5> QED BY <1>1, <4>1, <5>1, <5>2, TurnMoves
      <4>3. CASE b.stage # "turn"
        <5>1. \A t \in DOMAIN tasks : tasks'[t].status = tasks[t].status
          BY <2>1, <4>1, <4>3 DEF Brings
        <5> QED BY <1>1, <1>2, <4>1, <5>1, StaysInLine
      <4> QED BY <4>2, <4>3
    <3> QED BY <2>1, <3>1, <3>2, <3>3 DEF Brings
  <2>6. \A t \in With(tasks, "running")' : \E f \in bodies' : f.task = t
    <3> SUFFICES ASSUME NEW t \in With(tasks, "running")' PROVE \E f \in bodies' : f.task = t
      OBVIOUS
    <3>1. t = b.task
      BY <1>2, <2>2 DEF Follows, With
    <3>2. bodies' # {}
      <4> SUFFICES ASSUME bodies' = {} PROVE FALSE
        OBVIOUS
      <4>1. on = FALSE
        BY <1>1, <2>1
      <4> QED BY <2>1, <3>1, <4>1 DEF Brings, With, Terminal
    <3>3. \A stage : [b EXCEPT !.stage = stage].task = b.task
      BY DEF IInv, TypeOK, BodyRows
    <3> QED BY <1>1, <2>1, <3>1, <3>2, <3>3
  <2> QED BY <2>3, <2>4, <2>5, <2>6 DEF Line
<1> QED BY <1>3, <1>4

\* What a person asks, a thread that opens and a crash leave the line as it is.
LEMMA RequestLines ==
    ASSUME IInv, Alone, Serial, Budgetless, Line, Calls \subseteq {"approve", "stop"}, OpenThread \/ Request \/ Crash
    PROVE  Line' /\ Serial'
<1>1. run \in RunRows /\ drivers \in [Drivers -> Contexts(DOMAIN tasks)]
  BY DEF IInv, TypeOK
<1>2. CASE OpenThread \/ Approve
  <2>1. bodies = {}
    <3>1. \A d \in Drivers : ~On(d)
      BY <1>2 DEF Alone, OpenThread, Approve, Held
    <3> QED BY <3>1, BodyIs DEF Alone
  <2>2. bodies' = bodies /\ tasks' = tasks /\ Active
    BY <1>2 DEF OpenThread, Approve, Budgetless, rows, Alone, Active
  <2> QED BY <2>1, <2>2 DEF Line, Serial
<1>3. CASE Stop
  <2>1. UNCHANGED <<tasks, drivers, bodies>> /\ (Active' => Active)
    BY <1>3 DEF Stop, Active
  <2> QED BY <2>1 DEF Line, Serial
<1>4. CASE Crash
  <2>1. bodies' = {} /\ run' = IF Active THEN [run EXCEPT !.status = "failed"] ELSE run
    BY <1>4 DEF Crash
  <2>2. ~Active'
    BY <1>1, <2>1 DEF Active, RunRows
  <2> QED BY <2>1, <2>2, Overs
<1>5. ~Resuming /\ \A t \in DOMAIN tasks : ~Retry(t) /\ ~Cancel(t)
  BY DEF Resuming, Restored, RestoreFails, Resume, Retry, Cancel, Asked
<1> QED BY <1>2, <1>3, <1>4, <1>5 DEF Request

LEMMA NextLines ==
    ASSUME Lists, IInv, Alone, Serial, Budgetless, Line, [Next]_vars
    PROVE  Line' /\ Serial'
<1>1. CASE UNCHANGED vars \/ Rest
  BY <1>1 DEF Rest, vars, rows, memory, Line, Serial, Active
<1>2. ~\E level \in {"near", "over"} : Spend(level)
  BY DEF Spend, Lists
<1> QED BY <1>1, <1>2, LoopLines, BodyLines, RequestLines DEF Next, Lists

LEMMA InitLines == Lists /\ Init => Line /\ Serial
<1> SUFFICES ASSUME Lists, Init PROVE Line /\ Serial
  OBVIOUS
<1>1. /\ bodies = {} /\ tasks \in Plans /\ tasks \in Seq(TaskRows) /\ tasks # <<>>
      /\ \A d \in Drivers : drivers[d].pc = "left"
      /\ \A t \in DOMAIN tasks : tasks[t].status = "queued"
  BY EngineAssumption DEF Init, Off
<1> DEFINE l == Len(tasks)
<1>2. l \in Nat /\ l >= 1 /\ DOMAIN tasks = 1 .. l
  BY <1>1
<1>3. Listing(tasks, l)
  BY <1>1 DEF Lists
<1> HIDE DEF l
<1>4. /\ l \in DOMAIN tasks /\ 1 \in DOMAIN tasks /\ 1 \in 1 .. l /\ \A t \in 1 + 1 .. l : t \in DOMAIN tasks
      /\ (\A t \in 1 .. 1 - 1 : FALSE) /\ (\A t \in l + 1 .. l : FALSE)
  BY ONLY <1>2
<1>5. Stands(tasks, l, 1)
  BY <1>1, <1>4 DEF Stands
<1>6. First(tasks, l)
  <2>1. l = Len(tasks)
    BY DEF l
  <2> QED BY <1>4, <2>1 DEF First
<1>7. InLine(tasks)
  BY <1>3, <1>4, <1>5, <1>6 DEF InLine
<1>8. With(tasks, "running") = {}
  BY <1>1 DEF With
<1> QED BY <1>1, <1>7, <1>8 DEF Line, Serial

\* What stands in its line always has a next.
LEMMA LineGoesOn ==
    ASSUME IInv, Line, Serial
    PROVE  OneThenNext
<1> SUFFICES ASSUME run.status = "running", bodies = {}, With(tasks, "queued") # {}
             PROVE  \E t \in With(tasks, "queued") : Decide(tasks, t) # "wait"
  BY DEF OneThenNext, Unstuck
<1>1. InLine(tasks) /\ With(tasks, "running") = {} /\ tasks \in Seq(TaskRows)
  BY DEF Line, Active, IInv, TypeOK
<1> QED BY <1>1, WhoseTurn

LEMMA LinesAlways ==
    ASSUME Lists
    PROVE  Spec => [](IInv /\ Alone /\ Budgetless /\ Line /\ Serial)
<1>1. LoneCalls /\ ~Budgeted
  BY DEF LoneCalls, Lists
<1>2. Init => Alone /\ Budgetless /\ Line /\ Serial
  BY InitAlone, InitBudgetless, InitLines
<1>3. IInv /\ Alone /\ Budgetless /\ Line /\ Serial /\ [Next]_vars => Line' /\ Serial'
  BY NextLines
<1>4. IInv /\ Alone /\ Budgetless /\ Serial /\ [Next]_vars => Budgetless'
  BY <1>1, NextBudgetless
<1>5. IInv /\ Alone /\ Serial /\ Serial' /\ [Next]_vars => Alone'
  BY <1>1, NextAlone
<1> QED BY Invariance, <1>2, <1>3, <1>4, <1>5, PTL DEF Spec

\* A plan written as a list is worked through one task at a time and never
\* comes to a stand before its queue, whatever its checks send back, whoever
\* lets it on or stops it and wherever the server restarts ("The order still
\* means 'after the one above' unless a task says otherwise", workflow.ts):
\* what is assumed of behaviours above is proved of these plans.
THEOREM ListsRunInTurn ==
    ASSUME Lists
    PROVE  Spec => []OneThenNext
<1>1. IInv /\ Line /\ Serial => OneThenNext
  BY LineGoesOn
<1> QED BY LinesAlways, <1>1, PTL

\* So whatever is promised of a run of one task at a time holds of a list
\* without more ado: one driver, a reason for every wait, the life its row
\* shows, every note handed on, every gate held, and no failure passed over.
THEOREM ListsKeepTheirPromise ==
    ASSUME Lists
    PROVE  Spec => /\ []OneDriver /\ []AwaitingSaysWhy /\ KeepsItsPromise
                   /\ HandedOn /\ GateHolds /\ []FailedTaskStopsRun
<1>1. /\ LoneCalls /\ ~Budgeted /\ Calls \cap {"retry", "resume"} = {}
      /\ \A p \in Plans : \A t \in DOMAIN p : p[t].foreach = ""
  <2>1. ASSUME NEW p \in Plans, NEW t \in DOMAIN p PROVE p[t].foreach = ""
    <3>1. p \in Seq(TaskRows) /\ Listing(p, Len(p))
      BY EngineAssumption DEF Lists
    <3>2. t \in 1 .. Len(p)
      BY <3>1
    <3> QED BY <3>1, <3>2 DEF Listing, ListRow
  <2> QED BY <2>1 DEF LoneCalls, Lists
<1>2. OneThenNext => Serial /\ Unstuck
  BY DEF OneThenNext
<1>3. Spec => []Serial /\ []Unstuck
  BY ListsRunInTurn, <1>2, PTL
<1> QED BY <1>1, <1>3, OneDrives, WaitsForAReason, PromiseIsKept, NotesAreHandedOn, GatesHold,
           FailedTasksStopRuns

------------------------------------------------------------------------------
(* What a check says of the work it checked.                               *)

Checks(ts) == {v \in DOMAIN ts : ts[v].kind = "verify"}

\* No two checks of a plan are about one work.
OwnChecks(ts) ==
    \A v, u \in Checks(ts) : v # u => CheckedTask(ts, v) = 0 \/ CheckedTask(ts, v) # CheckedTask(ts, u)

\* The tasks a check may be about: it is about the newest.
About(ts, v) ==
    {t \in DOMAIN ts : ts[t].kind = "agent" /\ IF ts[v].dependsOn # <<>> THEN ts[t].name \in Listed(ts[v].dependsOn)
                                                                         ELSE t < v}

LEMMA AboutIs ==
    ASSUME NEW ts \in Seq(TaskRows), NEW v \in DOMAIN ts
    PROVE  /\ CheckedTask(ts, v) = IF About(ts, v) = {} THEN 0 ELSE Newest(About(ts, v))
           /\ About(ts, v) = {} <=> CheckedTask(ts, v) = 0
           /\ CheckedTask(ts, v) # 0 => /\ CheckedTask(ts, v) \in About(ts, v)
                                        /\ \A t \in About(ts, v) : t <= CheckedTask(ts, v)
<1> DEFINE about == About(ts, v)
           work  == CheckedTask(ts, v)
<1>1. work = IF about = {} THEN 0 ELSE Newest(about)
  BY DEF CheckedTask, About
<1>2. about \in SUBSET (1 .. Len(ts)) /\ Len(ts) \in Nat
  BY DEF About
<1> HIDE DEF about, work
<1>3. about # {} => Newest(about) \in about /\ \A t \in about : t <= Newest(about)
  BY <1>2, NewestIs
<1>4. 0 \notin about
  BY ONLY <1>2
<1>5. (about = {} <=> work = 0) /\ (work # 0 => work \in about /\ \A t \in about : t <= work)
  BY ONLY <1>1, <1>3, <1>4
<1> QED BY <1>1, <1>5 DEF about, work

\* It stays so while the rows are asked the same,
LEMMA SameChecked ==
    ASSUME NEW ts \in Seq(TaskRows), NEW us \in Seq(TaskRows), DOMAIN us = DOMAIN ts,
           \A t \in DOMAIN ts : AsAsked(ts[t], us[t])
    PROVE  \A v \in DOMAIN ts : CheckedTask(us, v) = CheckedTask(ts, v)
<1>1. ASSUME NEW v \in DOMAIN ts PROVE About(us, v) = About(ts, v)
  <2>1. us[v].dependsOn = ts[v].dependsOn /\ \A t \in DOMAIN ts : us[t].kind = ts[t].kind /\ us[t].name = ts[t].name
    BY DEF AsAsked
  <2> QED BY <2>1 DEF About
<1> QED BY <1>1, AboutIs

\* and a second try is about the work that comes with it, which takes the place
\* of what bore its name.
LEMMA MoreChecked ==
    ASSUME NEW ts \in Seq(TaskRows), NEW us \in Seq(TaskRows), Len(us) = Len(ts) + 2,
           \A t \in DOMAIN ts : us[t] = ts[t],
           NEW x, us[Len(ts) + 1].kind = "agent", us[Len(ts) + 1].name = x,
           us[Len(ts) + 2].kind = "verify", us[Len(ts) + 2].dependsOn = <<x>>,
           \E w \in DOMAIN ts : ts[w].kind = "agent" /\ ts[w].name = x
    PROVE  /\ CheckedTask(us, Len(ts) + 2) = Len(ts) + 1
           /\ \A v \in Checks(ts) : Len(ts[v].dependsOn) <= 1 =>
                 \/ CheckedTask(us, v) = CheckedTask(ts, v)
                 \/ /\ CheckedTask(us, v) = Len(ts) + 1 /\ CheckedTask(ts, v) # 0
                    /\ ts[CheckedTask(ts, v)].name = x
<1> DEFINE again == Len(ts) + 1
           check == Len(ts) + 2
<1>1. /\ again \in DOMAIN us /\ check \in DOMAIN us /\ again # check /\ ~(check <= again)
      /\ DOMAIN ts \subseteq DOMAIN us /\ again \notin DOMAIN ts /\ check \notin DOMAIN ts
      /\ \A t \in DOMAIN us : t \in DOMAIN ts \/ t = again \/ t = check
      /\ \A t \in DOMAIN ts : ~(again <= t) /\ ~(again < t) /\ ~(check < t)
      /\ again # 0
  <2> DEFINE l == Len(ts)
  <2>1. l \in Nat /\ DOMAIN ts = 1 .. l /\ DOMAIN us = 1 .. l + 2 /\ again = l + 1 /\ check = l + 2
    OBVIOUS
  <2> HIDE DEF l, again, check
  <2> QED BY ONLY <2>1
<1>2. /\ us[again].kind = "agent" /\ us[again].name = x /\ us[check].kind = "verify" /\ us[check].dependsOn = <<x>>
      /\ \A t \in DOMAIN ts : us[t] = ts[t]
  OBVIOUS
<1> HIDE DEF again, check
<1>3. Listed(<<x>>) = {x} /\ <<x>> # <<>>
  BY DEF Listed
\* Who waits for that name is about the new work.
<1>4. ASSUME NEW v \in DOMAIN us, us[v].dependsOn = <<x>> PROVE CheckedTask(us, v) = again
  <2>1. again \in About(us, v) /\ \A t \in About(us, v) : t \in DOMAIN ts \/ t = again
    BY <1>1, <1>2, <1>3, <1>4 DEF About
  <2>2. CheckedTask(us, v) \in About(us, v) /\ again <= CheckedTask(us, v)
    BY <2>1, AboutIs
  <2> QED BY <1>1, <2>1, <2>2
<1>5. ASSUME NEW v \in Checks(ts), Len(ts[v].dependsOn) <= 1
      PROVE  \/ CheckedTask(us, v) = CheckedTask(ts, v)
             \/ CheckedTask(us, v) = again /\ CheckedTask(ts, v) # 0 /\ ts[CheckedTask(ts, v)].name = x
  <2>1. v \in DOMAIN ts /\ v \in DOMAIN us /\ us[v] = ts[v] /\ ts[v].dependsOn \in Seq(Names)
    <3>1. v \in DOMAIN ts
      BY DEF Checks
    <3>2. ts[v] \in TaskRows
      BY <3>1
    <3> QED BY <1>1, <3>1, <3>2 DEF TaskRows
  <2> DEFINE deps == ts[v].dependsOn
  <2>2. deps = <<>> \/ \E y : deps = <<y>>
    <3>1. deps \in Seq(Names) /\ Len(deps) <= 1
      BY <1>5, <2>1
    <3> HIDE DEF deps
    <3>2. Len(deps) = 0 \/ Len(deps) = 1
      <4> DEFINE l == Len(deps)
      <4>1. l \in Nat /\ l <= 1
        BY <3>1
      <4> HIDE DEF l
      <4>2. l = 0 \/ l = 1
        BY ONLY <4>1
      <4> QED BY <4>2 DEF l
    <3>3. Len(deps) = 0 => deps = <<>>
      BY <3>1
    <3>4. Len(deps) = 1 => deps = <<deps[1]>>
      BY <3>1
    <3> QED BY <3>2, <3>3, <3>4
  <2>3. CASE deps = <<>>
    <3>1. About(us, v) = About(ts, v)
      <4>1. \A t \in DOMAIN us : t < v => t \in DOMAIN ts
        BY <1>1, <2>1
      <4>2. us[v].dependsOn = <<>> /\ ts[v].dependsOn = <<>>
        BY <2>1, <2>3
      <4> QED BY <1>1, <1>2, <4>1, <4>2 DEF About
    <3> QED BY <2>1, <3>1, AboutIs
  <2>4. ASSUME NEW y, deps = <<y>>, y # x PROVE CheckedTask(us, v) = CheckedTask(ts, v)
    <3>1. Listed(deps) = {y} /\ deps # <<>>
      BY <2>4 DEF Listed
    <3>2. About(us, v) = About(ts, v)
      BY <1>1, <1>2, <2>1, <2>4, <3>1 DEF About
    <3> QED BY <2>1, <3>2, AboutIs
  <2>5. CASE deps = <<x>>
    <3>1. CheckedTask(us, v) = again
      BY <1>4, <2>1, <2>5
    <3>2. About(ts, v) # {} /\ \A t \in About(ts, v) : ts[t].name = x
      BY <1>3, <2>1, <2>5 DEF About
    <3> QED BY <2>1, <3>1, <3>2, AboutIs
  <2> QED BY <2>2, <2>3, <2>4, <2>5
<1> QED BY <1>1, <1>2, <1>4, <1>5 DEF again, check

\* A check waits for one name at most, and work of one name is checked under one
\* name only.
Paired(ts) ==
    \A v \in Checks(ts) :
        /\ Len(ts[v].dependsOn) <= 1
        /\ \A u \in Checks(ts) :
              (/\ CheckedTask(ts, v) # 0 /\ CheckedTask(ts, u) # 0
               /\ ts[CheckedTask(ts, v)].name = ts[CheckedTask(ts, u)].name) => ts[v].name = ts[u].name

\* Work that may stand behind a check that passed.
Lifted(row) == row.verdict = "verified" \/ (row.by = "rule" /\ row.verdict \in {"needs-user", "failed"})

\* Nothing of what a check that passed speaks for is still to come.
Cleared(ts, bs, v) ==
    /\ \A u \in Checks(ts) : ts[u].name = ts[v].name => Done(ts, u)
    /\ CheckedTask(ts, v) # 0 => /\ Lifted(ts[CheckedTask(ts, v)]) /\ Done(ts, CheckedTask(ts, v))
                                 /\ \A b \in bs : b.task # CheckedTask(ts, v)

\* And no check has spoken yet of the work of one that has not come to an end.
Spoken(ts, bs) ==
    /\ Paired(ts)
    /\ \A t \in DOMAIN ts : ts[t].verdict # "none" => ts[t].by # "none"
    /\ \A v \in Checks(ts) :
          /\ ts[v].verdict = "verified" => Cleared(ts, bs, v)
          /\ ~Done(ts, v) /\ CheckedTask(ts, v) # 0 => ts[CheckedTask(ts, v)].by # "check"

SameWord(row, new) == new.verdict = row.verdict /\ new.by = row.by

LEMMA StaysPaired ==
    ASSUME NEW ts \in Seq(TaskRows), NEW us, SameList(ts, us), Paired(ts)
    PROVE  Paired(us) /\ Checks(us) = Checks(ts) /\ \A v \in DOMAIN ts : CheckedTask(us, v) = CheckedTask(ts, v)
<1>1. /\ us \in Seq(TaskRows) /\ DOMAIN us = DOMAIN ts
      /\ \A t \in DOMAIN ts : /\ us[t].name = ts[t].name /\ us[t].kind = ts[t].kind
                              /\ us[t].dependsOn = ts[t].dependsOn
  BY DEF SameList, AsAsked
<1>2. \A v \in DOMAIN ts : CheckedTask(us, v) = CheckedTask(ts, v)
  BY SameChecked DEF SameList
<1>3. Checks(us) = Checks(ts) /\ Checks(ts) \subseteq DOMAIN ts
  BY <1>1 DEF Checks
<1>4. \A v \in DOMAIN ts : CheckedTask(ts, v) # 0 => CheckedTask(ts, v) \in DOMAIN ts
  BY CheckedTaskIs
<1> QED BY <1>1, <1>2, <1>3, <1>4 DEF Paired

\* Rows settle and begin, and the rule says of an answer what it says.
LEMMA SpokenStays ==
    ASSUME NEW ts \in Seq(TaskRows), NEW us, NEW bs, NEW cs, Spoken(ts, bs), SameList(ts, us),
           \A t \in DOMAIN ts : Done(ts, t) => Done(us, t),
           \A t \in DOMAIN ts :
              \/ SameWord(ts[t], us[t])
              \/ /\ us[t].verdict \in {"unverified", "needs-user", "failed"} /\ us[t].by = "rule"
                 /\ \E b \in bs : b.task = t,
           \A c \in cs : (\E b \in bs : c.task = b.task) \/ ~Done(ts, c.task)
    PROVE  Spoken(us, cs)
<1>1. Paired(us) /\ Checks(us) = Checks(ts) /\ \A v \in DOMAIN ts : CheckedTask(us, v) = CheckedTask(ts, v)
  BY StaysPaired DEF Spoken
<1>2. /\ DOMAIN us = DOMAIN ts /\ Checks(ts) \subseteq DOMAIN ts
      /\ \A t \in DOMAIN ts : us[t].name = ts[t].name
      /\ \A v \in DOMAIN ts : CheckedTask(ts, v) # 0 => CheckedTask(ts, v) \in DOMAIN ts
  BY CheckedTaskIs DEF SameList, AsAsked, Checks
<1>3. \A t \in DOMAIN us : us[t].verdict # "none" => us[t].by # "none"
  BY <1>2 DEF Spoken, SameWord
<1>4. ASSUME NEW v \in Checks(us), us[v].verdict = "verified" PROVE Cleared(us, cs, v)
  <2> DEFINE work == CheckedTask(ts, v)
  <2>1. v \in Checks(ts) /\ v \in DOMAIN ts /\ ts[v].verdict = "verified" /\ CheckedTask(us, v) = work
    BY <1>1, <1>2, <1>4 DEF SameWord
  <2>2. Cleared(ts, bs, v)
    BY <2>1 DEF Spoken
  <2> HIDE DEF work
  <2>3. ASSUME work # 0 PROVE Lifted(us[work]) /\ Done(us, work) /\ \A c \in cs : c.task # work
    <3>1. work \in DOMAIN ts /\ Lifted(ts[work]) /\ Done(ts, work) /\ \A b \in bs : b.task # work
      BY <1>2, <2>1, <2>2, <2>3 DEF Cleared, work
    <3>2. SameWord(ts[work], us[work])
      BY <3>1
    <3> QED BY <3>1, <3>2 DEF Lifted, SameWord
  <2>4. \A u \in Checks(us) : us[u].name = us[v].name => Done(us, u)
    BY <1>1, <1>2, <2>1, <2>2 DEF Cleared
  <2> QED BY <2>1, <2>3, <2>4 DEF Cleared
<1>5. ASSUME NEW v \in Checks(us), ~Done(us, v), CheckedTask(us, v) # 0
      PROVE  us[CheckedTask(us, v)].by # "check"
  <2> DEFINE work == CheckedTask(ts, v)
  <2>1. CheckedTask(us, v) = work /\ work \in DOMAIN ts /\ v \in Checks(ts) /\ ~Done(ts, v)
    BY <1>1, <1>2, <1>5
  <2>2. ts[work].by # "check"
    BY <1>5, <2>1 DEF Spoken
  <2> HIDE DEF work
  <2> QED BY <2>1, <2>2 DEF SameWord
<1> QED BY <1>1, <1>3, <1>4, <1>5 DEF Spoken

\* A check comes to an end, and what it says is said of its work, or is not
\* because the work is held for worse.
LEMMA SpokenOf ==
    ASSUME NEW ts \in Seq(TaskRows), NEW us, NEW bs, NEW cs, Spoken(ts, bs), SameList(ts, us),
           NEW v \in Checks(ts), ~Done(ts, v), Done(us, v),
           \A u \in DOMAIN ts \ {v} : us[u].status = ts[u].status,
           \A u \in Checks(ts) \ {v} : ts[u].name = ts[v].name => Done(ts, u),
           CheckedTask(ts, v) # 0 => Done(ts, CheckedTask(ts, v)),
           NEW x \in VerdictValues, us[v].verdict = x, us[v].by = "check",
           \A u \in DOMAIN ts \ {v} :
              IF u = CheckedTask(ts, v) /\ Speaks(x, ts[u].verdict)
              THEN us[u].verdict = x /\ us[u].by = "check" ELSE SameWord(ts[u], us[u]),
           \A c \in cs : c.task = v
    PROVE  Spoken(us, cs)
<1> DEFINE W(u) == CheckedTask(ts, u)
<1>1. Paired(us) /\ Checks(us) = Checks(ts) /\ \A u \in DOMAIN ts : CheckedTask(us, u) = W(u)
  BY StaysPaired DEF Spoken
<1>2. /\ DOMAIN us = DOMAIN ts /\ Checks(ts) \subseteq DOMAIN ts /\ \A u \in Checks(ts) : ts[u].kind = "verify"
      /\ \A t \in DOMAIN ts : us[t].name = ts[t].name
      /\ \A u \in DOMAIN ts : W(u) # 0 => W(u) \in DOMAIN ts /\ ts[W(u)].kind = "agent"
      /\ \A t \in DOMAIN ts : ts[t].by \in {"none", "rule", "check"} /\ ts[t].verdict \in VerdictValues \cup {"none"}
  <2>1. \A t \in DOMAIN ts : ts[t] \in TaskRows
    OBVIOUS
  <2>2. \A t \in DOMAIN ts : ts[t].by \in {"none", "rule", "check"} /\ ts[t].verdict \in VerdictValues \cup {"none"}
    BY <2>1 DEF TaskRows
  <2> QED BY <2>2, CheckedTaskIs DEF SameList, AsAsked, Checks
<1>3. \A t \in DOMAIN us : us[t].verdict # "none" => us[t].by # "none"
  <2>1. \A t \in DOMAIN ts \ {v} : us[t].by = "check" \/ SameWord(ts[t], us[t])
    OBVIOUS
  <2> QED BY <1>2, <2>1 DEF Spoken, SameWord
<1>4. \A t \in DOMAIN ts : Done(ts, t) => Done(us, t)
  BY DEF Done
\* Another check that is not done, or has passed, is about other work.
<1>5. ASSUME NEW u \in Checks(ts) \ {v}, ~Done(ts, u) \/ us[u].verdict = "verified"
      PROVE  /\ SameWord(ts[u], us[u])
             /\ W(u) # 0 => W(u) # v /\ SameWord(ts[W(u)], us[W(u)])
  <2>1. u # W(v)
    BY <1>2
  <2>2. SameWord(ts[u], us[u])
    BY <1>2, <2>1
  <2>3. ts[u].name # ts[v].name
    <3>1. ts[u].verdict = "verified" => Cleared(ts, bs, u)
      BY DEF Spoken
    <3>2. ts[u].verdict = "verified" => ts[v].name # ts[u].name
      BY <3>1 DEF Cleared
    <3> QED BY <1>5, <2>2, <3>2 DEF SameWord
  <2>4. W(u) # 0 => W(u) # W(v)
    BY <2>3 DEF Spoken, Paired
  <2>5. W(u) # 0 => W(u) # v /\ W(u) \in DOMAIN ts \ {v}
    BY <1>2
  <2> QED BY <2>2, <2>4, <2>5
<1> HIDE DEF W
<1>6. ASSUME NEW u \in Checks(us), us[u].verdict = "verified" PROVE Cleared(us, cs, u)
  <2>1. \A t \in Checks(us) : us[t].name = us[u].name => Done(us, t)
    <3>1. CASE u = v
      BY <1>1, <1>2, <1>4, <3>1
    <3>2. CASE u # v
      <4>1. Cleared(ts, bs, u)
        BY <1>1, <1>5, <1>6, <3>2 DEF Spoken, SameWord
      <4> QED BY <1>1, <1>2, <1>4, <4>1 DEF Cleared
    <3> QED BY <3>1, <3>2
  <2>2. ASSUME W(u) # 0 PROVE Lifted(us[W(u)]) /\ Done(us, W(u)) /\ \A c \in cs : c.task # W(u)
    <3>1. u \in Checks(ts) /\ u \in DOMAIN ts /\ W(u) \in DOMAIN ts /\ ts[W(u)].kind = "agent"
      BY <1>1, <1>2, <2>2
    <3>2. CASE u = v
      <4>1. W(v) # v /\ Done(ts, W(v)) /\ W(v) \in DOMAIN ts \ {v}
        BY <1>2, <2>2, <3>1, <3>2 DEF W
      <4>2. x = "verified" /\ ts[W(v)].by # "check"
        BY <1>6, <2>2, <3>2 DEF Spoken, W
      <4>3. CASE Speaks(x, ts[W(v)].verdict)
        BY <1>4, <3>2, <4>1, <4>2, <4>3 DEF Lifted, W
      <4>4. CASE ~Speaks(x, ts[W(v)].verdict)
        <5>1. SameWord(ts[W(v)], us[W(v)])
          BY <4>1, <4>4 DEF W
        <5>2. ts[W(v)].verdict \in {"verified", "needs-user", "failed"}
          BY <1>2, <4>1, <4>4 DEF Speaks, VerdictValues
        <5>3. ts[W(v)].by = "rule"
          BY <1>2, <4>1, <4>2, <5>2 DEF Spoken
        <5> QED BY <1>4, <3>2, <4>1, <5>1, <5>2, <5>3 DEF Lifted, SameWord
      <4> QED BY <4>3, <4>4
    <3>3. CASE u # v
      <4>1. SameWord(ts[u], us[u]) /\ W(u) # v /\ SameWord(ts[W(u)], us[W(u)])
        BY <1>5, <1>6, <2>2, <3>1, <3>3
      <4>2. Lifted(ts[W(u)]) /\ Done(ts, W(u))
        <5>1. Cleared(ts, bs, u)
          BY <1>6, <3>1, <4>1 DEF Spoken, SameWord
        <5> QED BY <2>2, <5>1 DEF Cleared, W
      <4> QED BY <1>4, <3>1, <4>1, <4>2 DEF Lifted, SameWord
    <3> QED BY <3>2, <3>3
  <2>3. CheckedTask(us, u) = W(u)
    BY <1>1, <1>2, <1>6
  <2> QED BY <2>1, <2>2, <2>3 DEF Cleared
<1>7. ASSUME NEW u \in Checks(us), ~Done(us, u), CheckedTask(us, u) # 0
      PROVE  us[CheckedTask(us, u)].by # "check"
  <2>1. u \in Checks(ts) \ {v} /\ u \in DOMAIN ts /\ ~Done(ts, u) /\ CheckedTask(us, u) = W(u)
    BY <1>1, <1>2, <1>4, <1>7
  <2>2. ts[W(u)].by # "check"
    BY <1>7, <2>1 DEF Spoken, W
  <2>3. SameWord(ts[W(u)], us[W(u)])
    BY <1>5, <1>7, <2>1
  <2> QED BY <2>1, <2>2, <2>3 DEF SameWord
<1> QED BY <1>1, <1>3, <1>6, <1>7 DEF Spoken

\* A second try that comes is asked of nobody yet.
LEMMA SpokenAgain ==
    ASSUME NEW ts \in Seq(TaskRows), NEW us \in Seq(TaskRows), Len(us) = Len(ts) + 2,
           \A t \in DOMAIN ts : us[t] = ts[t], Spoken(ts, {}),
           NEW v \in Checks(ts), CheckedTask(ts, v) # 0,
           \A u \in Checks(ts) : ts[u].name = ts[v].name => Done(ts, u) /\ ts[u].verdict # "verified",
           us[Len(ts) + 1].kind = "agent", us[Len(ts) + 1].name = ts[CheckedTask(ts, v)].name,
           us[Len(ts) + 1].verdict = "none", us[Len(ts) + 1].by = "none",
           us[Len(ts) + 2].kind = "verify", us[Len(ts) + 2].name = ts[v].name,
           us[Len(ts) + 2].dependsOn = <<ts[CheckedTask(ts, v)].name>>, us[Len(ts) + 2].verdict = "none"
    PROVE  Spoken(us, {})
<1> DEFINE W(u) == CheckedTask(ts, u)
           X(u) == CheckedTask(us, u)
           again == Len(ts) + 1
           check == Len(ts) + 2
           x == ts[W(v)].name
<1>1. /\ again \in DOMAIN us /\ check \in DOMAIN us /\ again # check /\ again # 0
      /\ DOMAIN ts \subseteq DOMAIN us /\ again \notin DOMAIN ts /\ check \notin DOMAIN ts
      /\ \A t \in DOMAIN us : t \in DOMAIN ts \/ t = again \/ t = check
  <2> DEFINE l == Len(ts)
  <2>1. l \in Nat /\ DOMAIN ts = 1 .. l /\ DOMAIN us = 1 .. l + 2 /\ again = l + 1 /\ check = l + 2
    OBVIOUS
  <2> HIDE DEF l, again, check
  <2> QED BY ONLY <2>1
<1>2. v \in DOMAIN ts /\ W(v) \in DOMAIN ts /\ ts[W(v)].kind = "agent" /\ Paired(ts)
  BY CheckedTaskIs DEF Checks, Spoken
<1>3. /\ X(check) = again
      /\ \A u \in Checks(ts) : X(u) = W(u) \/ (X(u) = again /\ W(u) # 0 /\ ts[W(u)].name = x)
  <2>1. \A u \in Checks(ts) : Len(ts[u].dependsOn) <= 1
    BY <1>2 DEF Paired
  <2>2. /\ us[Len(ts) + 1].kind = "agent" /\ us[Len(ts) + 1].name = x
        /\ us[Len(ts) + 2].kind = "verify" /\ us[Len(ts) + 2].dependsOn = <<x>>
        /\ \E w \in DOMAIN ts : ts[w].kind = "agent" /\ ts[w].name = x
    BY <1>2
  <2> HIDE DEF x
  <2>3. /\ CheckedTask(us, Len(ts) + 2) = Len(ts) + 1
        /\ \A u \in Checks(ts) : Len(ts[u].dependsOn) <= 1 =>
              \/ CheckedTask(us, u) = CheckedTask(ts, u)
              \/ /\ CheckedTask(us, u) = Len(ts) + 1 /\ CheckedTask(ts, u) # 0
                 /\ ts[CheckedTask(ts, u)].name = x
    BY <2>2, MoreChecked, SMTT(30)
  <2> QED BY <2>1, <2>3
<1>4. /\ us[again].kind = "agent" /\ us[again].name = x /\ us[again].verdict = "none" /\ us[again].by = "none"
      /\ us[check].kind = "verify" /\ us[check].name = ts[v].name /\ us[check].dependsOn = <<x>>
      /\ us[check].verdict = "none" /\ W(v) # 0
      /\ \A u \in DOMAIN ts : W(u) # 0 => W(u) \in DOMAIN ts
  BY CheckedTaskIs
<1> HIDE DEF W, X, again, check, x
<1>5. Checks(us) = Checks(ts) \cup {check} /\ Checks(ts) \subseteq DOMAIN ts
  BY <1>1, <1>4 DEF Checks
\* A check whose name is not the one that failed is about what it was about.
<1>6. ASSUME NEW u \in Checks(ts), ts[u].name # ts[v].name PROVE X(u) = W(u) /\ (W(u) # 0 => us[W(u)] = ts[W(u)])
  <2>1. W(u) # 0 => ts[W(u)].name # x
    BY <1>2, <1>4, <1>6 DEF Paired, W, x
  <2> QED BY <1>3, <1>4, <1>5, <2>1
<1>7. Paired(us)
  <2>1. ASSUME NEW u \in Checks(us)
        PROVE  \E o \in Checks(ts) : /\ us[u].name = ts[o].name /\ Len(us[u].dependsOn) <= 1
                                     /\ X(u) # 0 => W(o) # 0 /\ us[X(u)].name = ts[W(o)].name
    <3>1. CASE u = check
      <4>1. Len(<<x>>) <= 1
        OBVIOUS
      <4> QED BY <1>3, <1>4, <3>1, <4>1 DEF x
    <3>2. CASE u \in Checks(ts)
      <4>1. us[u] = ts[u] /\ Len(ts[u].dependsOn) <= 1
        BY <1>2, <1>5, <3>2 DEF Paired
      <4>2. X(u) # 0 => W(u) # 0 /\ us[X(u)].name = ts[W(u)].name
        BY <1>3, <1>4, <1>5, <3>2
      <4> QED BY <3>2, <4>1, <4>2
    <3> QED BY <1>5, <3>1, <3>2
  <2>2. ASSUME NEW u \in Checks(us), NEW t \in Checks(us), X(u) # 0, X(t) # 0, us[X(u)].name = us[X(t)].name
        PROVE  us[u].name = us[t].name
    <3>1. PICK o \in Checks(ts) : us[u].name = ts[o].name /\ W(o) # 0 /\ us[X(u)].name = ts[W(o)].name
      BY <2>1, <2>2
    <3>2. PICK p \in Checks(ts) : us[t].name = ts[p].name /\ W(p) # 0 /\ us[X(t)].name = ts[W(p)].name
      BY <2>1, <2>2
    <3> QED BY <1>2, <2>2, <3>1, <3>2 DEF Paired, W
  <2>3. \A u \in Checks(us) : Len(us[u].dependsOn) <= 1
    BY <2>1
  <2> QED BY <2>2, <2>3 DEF Paired, X
<1>8. \A t \in DOMAIN us : us[t].verdict # "none" => us[t].by # "none"
  BY <1>1, <1>4 DEF Spoken
<1>9. ASSUME NEW u \in Checks(us), us[u].verdict = "verified" PROVE Cleared(us, {}, u)
  <2>1. u \in Checks(ts) /\ u \in DOMAIN ts /\ us[u] = ts[u]
    BY <1>4, <1>5, <1>9
  <2>2. Cleared(ts, {}, u) /\ ts[u].name # ts[v].name
    BY <1>9, <2>1 DEF Spoken
  <2>3. X(u) = W(u) /\ (W(u) # 0 => us[W(u)] = ts[W(u)])
    BY <1>6, <2>1, <2>2
  <2>4. \A t \in Checks(us) : us[t].name = us[u].name => Done(us, t)
    BY <1>4, <1>5, <2>1, <2>2 DEF Cleared, Done
  <2> QED BY <2>2, <2>3, <2>4 DEF Cleared, X, W, Done
<1>10. ASSUME NEW u \in Checks(us), ~Done(us, u), X(u) # 0 PROVE us[X(u)].by # "check"
  <2>1. CASE u = check
    BY <1>3, <1>4, <2>1
  <2>2. CASE u \in Checks(ts)
    <3>1. ~Done(ts, u)
      BY <1>5, <1>10, <2>2 DEF Done
    <3>2. ts[u].name # ts[v].name
      BY <2>2, <3>1
    <3>3. X(u) = W(u) /\ us[W(u)] = ts[W(u)]
      BY <1>6, <1>10, <2>2, <3>2
    <3>4. ts[W(u)].by # "check"
      BY <1>10, <2>2, <3>1, <3>3 DEF Spoken, W
    <3> QED BY <3>3, <3>4
  <2> QED BY <1>5, <1>10, <2>1, <2>2
<1> QED BY <1>7, <1>8, <1>9, <1>10 DEF Spoken, X

\* When a check's turn is, the others of its name have come to an end, and so
\* has its work.
LEMMA TurnChecks ==
    ASSUME NEW ts \in Seq(TaskRows), NEW n, NEW k, NEW v, TurnOf(ts, n, k, v), ts[v].kind = "verify"
    PROVE  /\ \A u \in Checks(ts) \ {v} : ts[u].name = ts[v].name => Done(ts, u)
           /\ CheckedTask(ts, v) # 0 => Done(ts, CheckedTask(ts, v))
<1> DEFINE work == CheckedTask(ts, v)
<1>1. /\ Len(ts) \in Nat /\ DOMAIN ts = 1 .. Len(ts) /\ n \in 1 .. Len(ts) /\ k \in 1 .. n /\ v \in DOMAIN ts
      /\ \A t \in 1 .. k - 1 : Done(ts, t)
      /\ \A t, u \in 1 .. n : ts[t].name = ts[u].name => t = u
  BY DEF TurnOf, Listing, Stands
<1>2. (v = k /\ First(ts, n)) \/ (v = Len(ts) /\ Second(ts, n, k) /\ Done(ts, Len(ts) - 1))
  <2>1. ~(v = Len(ts) - 1 /\ Second(ts, n, k))
    BY DEF Second
  <2> QED BY <2>1 DEF TurnOf
\* Any other row is on the list, or done.
<1>3. ASSUME NEW u \in DOMAIN ts, u # v, u \notin 1 .. n PROVE Done(ts, u)
  <2>1. u \in n + 1 .. Len(ts)
    BY ONLY <1>1, <1>3
  <2>2. CASE First(ts, n)
    BY <2>1, <2>2 DEF First
  <2>3. CASE v = Len(ts) /\ Second(ts, n, k) /\ Done(ts, Len(ts) - 1)
    <3>1. \A t \in n + 1 .. Len(ts) - 2 : Done(ts, t)
      BY <2>3 DEF Second
    <3>2. u \in n + 1 .. Len(ts) - 2 \/ u = Len(ts) - 1
      <4>1. u # Len(ts)
        BY <1>3, <2>3
      <4> QED BY ONLY <1>1, <2>1, <4>1
    <3> QED BY <2>3, <3>1, <3>2
  <2> QED BY <1>2, <2>2, <2>3
<1>4. ASSUME NEW u \in Checks(ts) \ {v}, ts[u].name = ts[v].name PROVE Done(ts, u)
  <2>1. u \in DOMAIN ts /\ u # v
    BY DEF Checks
  <2>2. CASE v = k
    <3>1. k \in 1 .. n
      BY <1>1
    <3> QED BY <1>1, <1>3, <1>4, <2>1, <2>2, <3>1
  <2>3. CASE Second(ts, n, k)
    <3>1. k \in 1 .. n /\ Done(ts, k) /\ ts[Len(ts)].name = ts[k].name
      BY <1>1, <2>3 DEF Second
    <3>2. ts[v].name = ts[k].name
      BY <1>2, <3>1
    <3> QED BY <1>1, <1>3, <1>4, <2>1, <3>1, <3>2
  <2> QED BY <1>2, <2>2, <2>3
<1>5. ASSUME work # 0 PROVE Done(ts, work)
  <2>1. work \in DOMAIN ts /\ ts[work].kind = "agent" /\ \E w \in 1 .. k - 1 : ts[w].name = ts[work].name
    BY <1>1, <1>5, CheckedTaskIs, CheckedAbove
  <2>2. PICK w \in 1 .. k - 1 : ts[w].name = ts[work].name
    BY <2>1
  <2> HIDE DEF work
  <2>3. work # v /\ w \in 1 .. n
    <3>1. w \in 1 .. n
      BY ONLY <1>1, <2>2
    <3> QED BY <2>1, <3>1
  <2> QED BY <1>1, <1>3, <2>1, <2>2, <2>3
<1> QED BY <1>4, <1>5

------------------------------------------------------------------------------
\* Rows settle, begin and come with nothing said of them.
SameWords(ts, us) == DOMAIN ts \subseteq DOMAIN us /\ \A t \in DOMAIN ts : SameWord(ts[t], us[t])

LEMMA FinishWords ==
    ASSUME NEW ts \in Seq(TaskRows), NEW S, NEW st \in Statuses
    PROVE  SameWords(ts, Finish(ts, S, st))
<1>1. \A row \in TaskRows : SameWord(row, [row EXCEPT !.status = st]) /\ SameWord(row, row)
  BY DEF TaskRows, SameWord
<1>2. \A t \in DOMAIN ts : ts[t] \in TaskRows
  OBVIOUS
<1> QED BY <1>1, <1>2 DEF Finish, SameWords

LEMMA BeginWords ==
    ASSUME NEW ts \in Seq(TaskRows), NEW S
    PROVE  SameWords(ts, Begin(ts, S))
<1>1. \A row \in TaskRows : SameWord(row, [row EXCEPT !.status = "running", !.started = TRUE]) /\ SameWord(row, row)
  BY DEF TaskRows, SameWord
<1>2. \A t \in DOMAIN ts : ts[t] \in TaskRows
  OBVIOUS
<1> QED BY <1>1, <1>2 DEF Begin, SameWords

LEMMA JudgedWords ==
    ASSUME NEW ts \in Seq(TaskRows), NEW u \in DOMAIN ts, NEW v, NEW by
    PROVE  /\ DOMAIN Judged(ts, u, v, by) = DOMAIN ts
           /\ Judged(ts, u, v, by)[u].verdict = v /\ Judged(ts, u, v, by)[u].by = by
           /\ \A t \in DOMAIN ts \ {u} : Judged(ts, u, v, by)[t] = ts[t]
<1> DEFINE row == [ts[u] EXCEPT !.verdict = v, !.by = by]
<1>1. ts[u] \in TaskRows
  OBVIOUS
<1>2. row.verdict = v /\ row.by = by
  BY <1>1 DEF TaskRows
<1>3. Judged(ts, u, v, by) = [ts EXCEPT ![u] = row]
  BY <1>1 DEF Judged, TaskRows
<1> HIDE DEF row
<1> QED BY <1>2, <1>3

\* A loop says nothing of a row's worth.
LEMMA LoopWords ==
    ASSUME IInv, Alone, Serial, Budgetless, NEW d \in Drivers, Loop(d)
    PROVE  SameWords(tasks, tasks')
<1>1. tasks \in Seq(TaskRows)
  BY DEF IInv, TypeOK
<1>2. ASSUME NEW ts \in Seq(TaskRows), SameWords(tasks, ts)
      PROVE  SameWords(tasks, CallOff(ts))
  <2>1. SameWords(ts, CallOff(ts))
    BY FinishWords DEF CallOff, Statuses
  <2> QED BY <1>2, <2>1 DEF SameWords, SameWord
<1>3. SameWords(tasks, tasks)
  BY DEF SameWords, SameWord
<1>4. CASE LoopStopped(d) \/ LoopDrained(d)
  <2>1. \E ts \in {tasks, CallOff(tasks)} : tasks' = ts \/ tasks' = CallOff(ts)
    BY <1>4 DEF LoopStopped, LoopDrained, Leave, Wait
  <2>2. CallOff(tasks) \in Seq(TaskRows)
    BY <1>1, FinishIs DEF CallOff, Statuses
  <2> QED BY <1>1, <1>2, <1>3, <2>1, <2>2
<1>5. CASE LoopPass(d)
  <2>1. PICK n \in PassSteps(d) : tasks' = PassRows(d, n) \/ tasks' = CallOff(PassRows(d, n))
    <3>1. \A c, ts, r : Leave(d, c, ts, r) => tasks' = ts \/ tasks' = CallOff(ts)
      BY DEF Leave
    <3>2. \A c, ts, r : Wait(d, c, ts, r) => tasks' = ts
      BY DEF Wait
    <3>3. PICK n \in PassSteps(d) :
             \/ tasks' = PassRows(d, n)
             \/ Leave(d, PassContext(d), PassRows(d, n), PassRow(d))
             \/ Wait(d, PassContext(d), PassRows(d, n), PassRow(d))
      BY <1>5, PassIs
    <3> QED BY ONLY <3>1, <3>2, <3>3
  <2> DEFINE begun == Begin(tasks, PassStart(d))
             planned == Finish(begun, PassPlans(d), "success")
             walked == Finish(planned, PassSkip(d), "skipped")
             more == PassAdds(d, n)
             us == PassRows(d, n)
  <2>2. begun \in Seq(TaskRows) /\ SameWords(tasks, begun)
    BY <1>1, BeginIs, BeginWords
  <2> HIDE DEF begun
  <2>3. planned \in Seq(TaskRows) /\ SameWords(begun, planned)
    BY <2>2, FinishIs, FinishWords DEF Statuses
  <2> HIDE DEF planned
  <2>4. walked \in Seq(TaskRows) /\ SameWords(planned, walked)
    BY <2>3, FinishIs, FinishWords DEF Statuses
  <2>5. us = walked \o more
    BY DEF PassRows, Walk, walked, planned, begun
  <2>6. more \in Seq(TaskRows) /\ \A i \in 1 .. Len(more) : more[i].status = "queued"
    BY PassAddsAre
  <2> HIDE DEF walked, more, us
  <2>7. us \in Seq(TaskRows) /\ SameWords(walked, us)
    BY <2>4, <2>5, <2>6, AddedIs DEF SameWords, SameWord
  <2>8. SameWords(tasks, us)
    BY <2>2, <2>3, <2>4, <2>7, SMTT(30) DEF SameWords, SameWord
  <2> QED BY <1>2, <2>1, <2>7, <2>8 DEF us
<1> QED BY <1>4, <1>5 DEF Loop

\* A step of a body says nothing, or what the rule says of its own task, or
\* what a check says of itself and of the work it speaks for.
Speaking(b) ==
    LET v == b.task
    IN \/ /\ DOMAIN tasks' = DOMAIN tasks
          /\ \A t \in DOMAIN tasks :
                \/ SameWord(tasks[t], tasks'[t])
                \/ tasks'[t].verdict \in {"unverified", "needs-user", "failed"} /\ tasks'[t].by = "rule" /\ t = v
       \/ /\ b.stage = "turn" /\ v \in Checks(tasks) /\ Done(tasks', v)
          /\ \E x \in VerdictValues :
                /\ tasks'[v].verdict = x /\ tasks'[v].by = "check"
                /\ \A u \in DOMAIN tasks \ {v} :
                      IF u = CheckedTask(tasks, v) /\ Speaks(x, tasks[u].verdict)
                      THEN tasks'[u].verdict = x /\ tasks'[u].by = "check" ELSE SameWord(tasks[u], tasks'[u])
                /\ DOMAIN tasks' = DOMAIN tasks \/ (x = "failed" /\ bodies' = {})

LEMMA BodySpeaks ==
    ASSUME IInv, Alone, Serial, Budgetless, NEW b \in bodies, Body(b)
    PROVE  Speaking(b)
<1> DEFINE t == b.task
           Quietly(ts) == /\ ts \in Seq(TaskRows) /\ DOMAIN ts = DOMAIN tasks
                          /\ \A u \in DOMAIN tasks : SameWord(tasks[u], ts[u])
<1>1. tasks \in Seq(TaskRows) /\ t \in DOMAIN tasks /\ tasks[t] \in TaskRows
  BY BodyIs
<1>2. Quietly(tasks)
  BY <1>1 DEF SameWord
<1>3. ASSUME NEW st \in {"failed", "stopped", "success"}
      PROVE  Quietly(Finish(tasks, {t}, st)) /\ Done(Finish(tasks, {t}, st), t)
  <2>1. st \in Statuses /\ st \in Terminal
    BY DEF Statuses, Terminal
  <2> QED BY <1>1, <2>1, FinishIs, FinishWords DEF SameWords, Done
<1>4. ASSUME NEW ts, Quietly(ts), tasks' = ts PROVE Speaking(b)
  BY <1>4 DEF Speaking
<1>5. ASSUME NEW ts, Quietly(ts), NEW v \in {"unverified", "needs-user", "failed"}, tasks' = Judged(ts, t, v, "rule")
      PROVE  Speaking(b)
  <2>1. /\ DOMAIN tasks' = DOMAIN tasks /\ tasks'[t].verdict = v /\ tasks'[t].by = "rule"
        /\ \A u \in DOMAIN tasks \ {t} : tasks'[u] = ts[u]
    BY <1>1, <1>5, JudgedWords
  <2>2. \A u \in DOMAIN tasks : SameWord(tasks[u], ts[u])
    BY <1>5
  <2> HIDE DEF Quietly
  <2> QED BY <2>1, <2>2 DEF Speaking
<1> HIDE DEF Quietly
<1>6. CASE Ask(b) \/ Answered(b) \/ TurnBreaks(b) \/ Note(b) \/ Close(b) \/ CloseCut(b)
  <2>1. tasks' = tasks
    BY <1>6 DEF Ask, Answered, TurnBreaks, Note, Close, CloseCut, Settles, GoesOn
  <2> QED BY <1>2, <1>4, <2>1
<1>7. CASE TurnFails(b)
  <2>1. \E st \in {"failed", "stopped"} :
           \/ tasks' = Finish(tasks, {t}, st)
           \/ \E v \in {"failed", "needs-user"} : tasks' = Judged(Finish(tasks, {t}, st), t, v, "rule")
    BY <1>7 DEF TurnFails, Settles
  <2> HIDE DEF t
  <2> QED BY <1>3, <1>4, <1>5, <2>1
<1>8. CASE TurnStops(b) \/ TurnHalts(b)
  <2>1. tasks' = Finish(tasks, {t}, "stopped")
    BY <1>8 DEF TurnStops, TurnHalts, Settles
  <2> QED BY <1>3, <1>4, <2>1
<1>9. ~TurnCut(b)
  BY DEF TurnCut, Budgetless
<1>10. CASE TurnSucceeds(b)
  <2>1. \E st \in {"stopped", "success"} : tasks' = Finish(tasks, {t}, st)
    BY <1>10 DEF TurnSucceeds, GoesOn
  <2> QED BY <1>3, <1>4, <2>1
<1>11. CASE Judge(b)
  <2>1. \E v \in {"unverified", "needs-user", "failed"} : tasks' = Judged(tasks, t, v, "rule")
    BY <1>11 DEF Judge, Settles, GoesOn
  <2> QED BY <1>2, <1>5, <2>1
<1>12. ASSUME NEW ok \in BOOLEAN, NEW v \in VerdictValues, CheckEnds(b, ok, v), ok \/ v = "failed"
       PROVE  Speaking(b)
  <2> DEFINE done == Finish(tasks, {t}, IF stopping THEN "stopped" ELSE IF ok THEN "success" ELSE "failed")
             own  == Judged(done, t, v, "check")
             work == CheckedTask(tasks, t)
             all  == Judged(own, work, v, "check")
             ts   == IF stopping THEN done ELSE IF work # 0 /\ Speaks(v, tasks[work].verdict) THEN all ELSE own
  <2>1. /\ t \in Checks(tasks) /\ b.stage = "turn"
        /\ work # 0 => work \in DOMAIN tasks /\ tasks[work].kind = "agent" /\ work # t
    <3>1. tasks[t].kind = "verify" /\ b.stage = "turn"
      BY <1>12 DEF CheckEnds, InTurn, At
    <3> QED BY <1>1, <3>1, CheckedTaskIs DEF Checks
  <2>2. Quietly(done) /\ Done(done, t)
    BY <1>3
  <2>3. \/ tasks' = ts
        \/ ~ok /\ ~stopping /\ tasks' = ts \o RetryPair(tasks, work, t) /\ bodies' = bodies \ {b}
           /\ MayRetry(tasks, t)
    BY <1>12 DEF CheckEnds, Settles, GoesOn
  <2>4. CASE stopping
    BY <1>4, <2>2, <2>3, <2>4
  <2>5. CASE ~stopping
    <3> DEFINE spoken == work # 0 /\ Speaks(v, tasks[work].verdict)
    <3>0. done \in Seq(TaskRows) /\ DOMAIN done = DOMAIN tasks /\ \A u \in DOMAIN tasks : SameWord(tasks[u], done[u])
      BY <2>2 DEF Quietly
    <3>1. ts = IF spoken THEN all ELSE own
      BY <2>5
    <3> HIDE DEF done
    <3>2. /\ own \in Seq(TaskRows) /\ DOMAIN own = DOMAIN tasks /\ own[t].verdict = v /\ own[t].by = "check"
          /\ \A u \in DOMAIN tasks \ {t} : own[u] = done[u]
          /\ own[t].status = done[t].status
      BY <1>1, <3>0, JudgedIs, JudgedWords
    <3> HIDE DEF own
    <3>3. work # 0 => /\ all \in Seq(TaskRows) /\ DOMAIN all = DOMAIN tasks
                      /\ all[work].verdict = v /\ all[work].by = "check"
                      /\ \A u \in DOMAIN tasks \ {work} : all[u] = own[u]
      BY <2>1, <3>2, JudgedIs, JudgedWords
    <3> HIDE DEF all
    <3>4. /\ ts \in Seq(TaskRows) /\ DOMAIN ts = DOMAIN tasks /\ ts[t].verdict = v /\ ts[t].by = "check"
          /\ ts[t].status = done[t].status
          /\ \A u \in DOMAIN tasks \ {t} : IF u = work /\ spoken THEN ts[u].verdict = v /\ ts[u].by = "check"
                                           ELSE ts[u] = done[u]
      <4> HIDE DEF ts, spoken, work
      <4>1. spoken => work # 0
        BY DEF spoken
      <4> QED BY <1>1, <2>1, <3>1, <3>2, <3>3, <4>1
    <3>5. \A u \in DOMAIN tasks \ {t} : IF u = work /\ Speaks(v, tasks[u].verdict)
                                        THEN ts[u].verdict = v /\ ts[u].by = "check" ELSE SameWord(tasks[u], ts[u])
      <4>1. 0 \notin DOMAIN tasks
        <5>1. DOMAIN tasks = 1 .. Len(tasks) /\ Len(tasks) \in Nat
          BY <1>1
        <5> QED BY ONLY <5>1
      <4> HIDE DEF ts, work
      <4> QED BY <3>0, <3>4, <4>1
    <3>6. Done(ts, t)
      BY <2>2, <3>4 DEF Done
    <3> HIDE DEF ts, work, spoken
    <3>7. CASE tasks' = ts
      BY <2>1, <3>4, <3>5, <3>6, <3>7 DEF Speaking, work
    <3>8. CASE ~ok /\ tasks' = ts \o RetryPair(tasks, work, t) /\ bodies' = bodies \ {b} /\ MayRetry(tasks, t)
      <4>1. work \in DOMAIN tasks /\ tasks[t].retries > 0
        BY <2>1, <3>8 DEF MayRetry, work
      <4>2. /\ RetryPair(tasks, work, t) \in Seq(TaskRows) /\ Len(RetryPair(tasks, work, t)) = 2
            /\ \A i \in 1 .. 2 : RetryPair(tasks, work, t)[i].status = "queued"
        BY <1>1, <4>1, RetryPairIs
      <4>3. \A u \in DOMAIN tasks : tasks'[u] = ts[u]
        BY <3>4, <3>8, <4>2, AddedIs
      <4>4. bodies' = {} /\ v = "failed"
        BY <1>12, <3>8 DEF Serial
      <4> QED BY <1>1, <2>1, <3>4, <3>5, <3>6, <4>3, <4>4 DEF Speaking, work, Done
    <3> QED BY <2>3, <3>7, <3>8 DEF work, ts
  <2> QED BY <2>4, <2>5
<1>13. CASE Check(b)
  <2>1. \E ok \in BOOLEAN, v \in VerdictValues : CheckEnds(b, ok, v) /\ (ok \/ v = "failed")
    BY <1>13 DEF Check, VerdictValues
  <2> QED BY <1>12, <2>1
<1> QED BY <1>6, <1>7, <1>8, <1>9, <1>10, <1>11, <1>13 DEF Body, TurnEnds, GoOn

LEMMA BodySpoken ==
    ASSUME IInv, Alone, Serial, Budgetless, Line, Spoken(tasks, bodies), NEW b \in bodies, Body(b)
    PROVE  Spoken(tasks', bodies')
<1> DEFINE v == b.task
           work == CheckedTask(tasks, v)
<1>1. /\ tasks \in Seq(TaskRows) /\ v \in DOMAIN tasks /\ bodies = {b}
      /\ b.stage = "turn" => tasks[v].status = "running"
      /\ drivers[b.drv].pc = "wait" /\ b.drv \in Drivers
  BY BodyIsQuiet, BodyAlone, BodyIs
<1>2. Follows(tasks, tasks', {v})
  BY BodyFollows
<1>3. \A c \in bodies' : c.task = v
  <2>1. CASE TurnBreaks(b)
    BY <1>1, <2>1 DEF TurnBreaks
  <2>2. CASE ~TurnBreaks(b)
    <3>1. bodies' = bodies \/ bodies' = {} \/ \E stage : bodies' = {[b EXCEPT !.stage = stage]}
      BY <2>2, BodyComesTo DEF Outcome
    <3>2. \A stage : [b EXCEPT !.stage = stage].task = b.task
      BY DEF IInv, TypeOK, BodyRows
    <3> QED BY <1>1, <3>1, <3>2
  <2> QED BY <2>1, <2>2
<1>4. \A t \in DOMAIN tasks : Done(tasks, t) => Done(tasks', t)
  <2>1. \A t \in DOMAIN tasks \ {v} : tasks'[t].status = tasks[t].status
    BY <1>2 DEF Follows
  <2>2. Done(tasks, v) => tasks'[v].status = tasks[v].status
    <3>1. CASE TurnBreaks(b)
      BY <3>1 DEF TurnBreaks
    <3>2. CASE b.stage = "turn"
      BY <1>1, <3>2 DEF Done, Terminal
    <3>3. CASE ~TurnBreaks(b) /\ b.stage # "turn"
      BY <3>3, BodyComesTo DEF Outcome, Brings
    <3> QED BY <3>1, <3>2, <3>3
  <2> QED BY <2>1, <2>2 DEF Done
<1>5. ASSUME DOMAIN tasks' = DOMAIN tasks PROVE SameList(tasks, tasks')
  BY <1>2, <1>5 DEF Follows, SameList
<1>6. CASE /\ DOMAIN tasks' = DOMAIN tasks
           /\ \A t \in DOMAIN tasks :
                \/ SameWord(tasks[t], tasks'[t])
                \/ tasks'[t].verdict \in {"unverified", "needs-user", "failed"} /\ tasks'[t].by = "rule" /\ t = v
  <2>1. SameList(tasks, tasks')
    BY <1>5, <1>6
  <2>2. \A t \in DOMAIN tasks :
           \/ SameWord(tasks[t], tasks'[t])
           \/ /\ tasks'[t].verdict \in {"unverified", "needs-user", "failed"} /\ tasks'[t].by = "rule"
              /\ \E c \in bodies : c.task = t
    BY <1>1, <1>6
  <2>3. \A c \in bodies' : \E d \in bodies : c.task = d.task
    BY <1>1, <1>3
  <2> HIDE DEF v
  <2>4. \A ts \in Seq(TaskRows) : \A bs : ts = tasks /\ bs = bodies => Spoken(tasks', bodies')
    BY <1>4, <2>1, <2>2, <2>3, SpokenStays
  <2> QED BY <1>1, <2>4
<1>7. ASSUME b.stage = "turn", v \in Checks(tasks), Done(tasks', v), NEW x \in VerdictValues,
             tasks'[v].verdict = x, tasks'[v].by = "check",
             \A u \in DOMAIN tasks \ {v} :
                IF u = work /\ Speaks(x, tasks[u].verdict)
                THEN tasks'[u].verdict = x /\ tasks'[u].by = "check" ELSE SameWord(tasks[u], tasks'[u]),
             DOMAIN tasks' = DOMAIN tasks \/ (x = "failed" /\ bodies' = {})
      PROVE  Spoken(tasks', bodies')
  <2>1. tasks[v].status = "running" /\ tasks[v].kind = "verify" /\ ~Done(tasks, v)
    BY <1>1, <1>7 DEF Checks, Done, Terminal
  <2>2. PICK n \in DOMAIN tasks, k \in DOMAIN tasks : TurnOf(tasks, n, k, v)
    <3>1. InLine(tasks)
      BY <1>1 DEF Line, Alone, On, Held, Active
    <3> QED BY <1>1, <2>1, <3>1, RunningsTurn
  <2>3. /\ \A u \in Checks(tasks) \ {v} : tasks[u].name = tasks[v].name => Done(tasks, u)
        /\ work # 0 => Done(tasks, work)
    BY <1>1, <2>1, <2>2, TurnChecks
  <2>4. \A u \in DOMAIN tasks \ {v} : tasks'[u].status = tasks[u].status
    BY <1>2 DEF Follows
  <2>5. CASE DOMAIN tasks' = DOMAIN tasks
    <3>1. SameList(tasks, tasks')
      BY <1>5, <2>5
    <3> HIDE DEF v
    <3> QED BY <1>1, <1>3, <1>7, <2>1, <2>3, <2>4, <3>1, SpokenOf
  <2>6. CASE DOMAIN tasks' # DOMAIN tasks
    <3>1. Retried(v, tasks') /\ tasks' \in Seq(TaskRows)
      <4>1. ~TurnBreaks(b)
        BY <2>6 DEF TurnBreaks
      <4> QED BY <1>2, <2>6, <4>1, BodyComesTo DEF Outcome, Brings, Follows
    <3> DEFINE mid == [t \in DOMAIN tasks |-> tasks'[t]]
    <3>2. /\ mid \in Seq(TaskRows) /\ DOMAIN mid = DOMAIN tasks /\ \A t \in DOMAIN tasks : mid[t] = tasks'[t]
      <4>1. DOMAIN tasks = 1 .. Len(tasks) /\ Len(tasks) \in Nat
        BY <1>1
      <4>2. \A t \in DOMAIN tasks : tasks'[t] \in TaskRows
        BY <1>2, <3>1 DEF Follows
      <4> QED BY <4>1, <4>2
    <3> HIDE DEF mid
    <3>3. SameList(tasks, mid) /\ \A t \in DOMAIN tasks : mid[t].status = tasks'[t].status
      BY <1>2, <3>2 DEF Follows, SameList
    <3>4. Spoken(mid, {})
      <4>1. /\ mid[v].verdict = x /\ mid[v].by = "check" /\ Done(mid, v)
            /\ \A u \in DOMAIN tasks \ {v} :
                  /\ mid[u].status = tasks[u].status
                  /\ IF u = work /\ Speaks(x, tasks[u].verdict)
                     THEN mid[u].verdict = x /\ mid[u].by = "check" ELSE SameWord(tasks[u], mid[u])
        BY <1>1, <1>7, <2>4, <3>2 DEF Done
      <4> HIDE DEF v
      <4> QED BY <1>1, <1>7, <2>1, <2>3, <3>3, <4>1, SpokenOf
    <3>5. work # 0 /\ work \in DOMAIN tasks /\ tasks[work].kind = "agent" /\ CheckedTask(mid, v) = work
      <4>1. work # 0
        BY <3>1 DEF Retried, MayRetry
      <4> QED BY <1>1, <3>2, <3>3, <4>1, CheckedTaskIs, SameChecked DEF SameList
    <3>6. /\ \A t \in DOMAIN tasks : mid[t].name = tasks[t].name /\ mid[t].kind = tasks[t].kind
          /\ Checks(mid) = Checks(tasks) /\ Checks(tasks) \subseteq DOMAIN tasks
      BY <3>2, <3>3 DEF SameList, AsAsked, Checks
    <3>7. ASSUME NEW u \in Checks(mid), mid[u].name = mid[v].name
          PROVE  Done(mid, u) /\ mid[u].verdict # "verified"
      <4>1. u \in Checks(tasks) /\ u \in DOMAIN tasks /\ tasks[u].name = tasks[v].name /\ tasks[u].kind = "verify"
        BY <1>1, <3>6, <3>7 DEF Checks
      <4>2. CASE u = v
        BY <1>7, <2>6, <3>2, <4>1, <4>2 DEF Done
      <4>3. CASE u # v
        <5>1. Done(tasks, u) /\ u # work
          BY <2>3, <3>5, <4>1, <4>3
        <5>2. SameWord(tasks[u], mid[u])
          BY <1>7, <3>2, <4>1, <4>3, <5>1
        <5>3. tasks[u].verdict # "verified"
          <6>1. tasks[u].verdict = "verified" => Cleared(tasks, bodies, u)
            BY <4>1 DEF Spoken
          <6> QED BY <1>7, <2>1, <4>1, <6>1 DEF Cleared
        <5>4. Done(mid, u)
          BY <1>4, <3>3, <4>1, <5>1 DEF Done
        <5> QED BY <5>2, <5>3, <5>4 DEF SameWord
      <4> QED BY <4>2, <4>3
    <3> DEFINE one == [RetryOf(tasks, work) EXCEPT !.listed = TRUE]
               two == [RetryOf(tasks, v) EXCEPT !.listed = TRUE, !.dependsOn = <<tasks[work].name>>,
                                                !.retries = tasks[v].retries - 1]
    <3>8. /\ one.kind = tasks[work].kind /\ one.name = tasks[work].name /\ one.verdict = "none" /\ one.by = "none"
          /\ two.kind = tasks[v].kind /\ two.name = tasks[v].name /\ two.verdict = "none"
          /\ two.dependsOn = <<tasks[work].name>>
      <4> HIDE DEF work
      <4> QED BY DEF RetryOf, NewTask
    <3>9. Len(tasks') = Len(tasks) + 2 /\ tasks'[Len(tasks) + 1] = one /\ tasks'[Len(tasks) + 2] = two
      <4>1. RetryPair(tasks, work, v) = <<one, two>>
        BY DEF RetryPair
      <4> HIDE DEF one, two
      <4> QED BY <3>1, <4>1 DEF Retried
    <3>10. Len(mid) = Len(tasks) /\ tasks \in Seq(TaskRows)
      <4> DEFINE l == Len(tasks)
                 m == Len(mid)
      <4>1. l \in Nat /\ m \in Nat /\ 1 .. m = 1 .. l
        BY <1>1, <3>2
      <4> HIDE DEF l, m
      <4>2. l <= m /\ m <= l
        <5>1. (l \in 1 .. l \/ l = 0) /\ (m \in 1 .. m \/ m = 0)
          BY ONLY <4>1
        <5>2. (l \in 1 .. m \/ l = 0) /\ (m \in 1 .. l \/ m = 0)
          BY ONLY <4>1, <5>1
        <5> QED BY ONLY <4>1, <5>2
      <4>3. l = m
        BY ONLY <4>1, <4>2
      <4> QED BY <1>1, <4>3 DEF l, m
    <3> HIDE DEF one, two, v, work
    <3>11. /\ v \in Checks(mid) /\ mid[v].name = tasks[v].name /\ mid[work].name = tasks[work].name
           /\ tasks[v].kind = "verify"
      BY <1>1, <1>7, <2>1, <3>5, <3>6
    <3>12. Spoken(tasks', {})
      <4>1. /\ tasks'[Len(mid) + 1].kind = "agent" /\ tasks'[Len(mid) + 1].name = mid[CheckedTask(mid, v)].name
            /\ tasks'[Len(mid) + 1].verdict = "none" /\ tasks'[Len(mid) + 1].by = "none"
            /\ tasks'[Len(mid) + 2].kind = "verify" /\ tasks'[Len(mid) + 2].name = mid[v].name
            /\ tasks'[Len(mid) + 2].dependsOn = <<mid[CheckedTask(mid, v)].name>>
            /\ tasks'[Len(mid) + 2].verdict = "none" /\ Len(tasks') = Len(mid) + 2
        BY <3>5, <3>8, <3>9, <3>10, <3>11
      <4>2. \A t \in DOMAIN mid : tasks'[t] = mid[t]
        BY <3>2
      <4>3. CheckedTask(mid, v) # 0
        BY <3>5
      <4> QED BY ONLY <3>1, <3>2, <3>4, <3>7, <3>11, <4>1, <4>2, <4>3, SpokenAgain
    <3> QED BY <1>7, <2>6, <3>12
  <2> QED BY <2>5, <2>6
<1>8. Speaking(b)
  BY BodySpeaks
<1> HIDE DEF v, work
<1> QED BY <1>6, <1>7, <1>8 DEF Speaking, v, work

\* A loop begins, skips and calls off, and says nothing.
LEMMA LoopSpoken ==
    ASSUME IInv, Alone, Serial, Budgetless, Line, Spoken(tasks, bodies), NEW d \in Drivers, Loop(d)
    PROVE  Spoken(tasks', bodies')
<1>1. SameWords(tasks, tasks') /\ tasks \in Seq(TaskRows)
  BY LoopWords DEF IInv, TypeOK
<1>2. drivers[d].pc = "loop" /\ run.status = "running" /\ (Leaves(d) \/ Waits(d) \/ Passes(d))
  BY LoopComesTo
<1>3. bodies = {} /\ InLine(tasks)
  BY <1>2 DEF Line, Active
<1>4. ASSUME SameList(tasks, tasks'), \A t \in DOMAIN tasks : Done(tasks, t) => Done(tasks', t),
             \A c \in bodies' : ~Done(tasks, c.task)
      PROVE  Spoken(tasks', bodies')
  <2>1. \A ts \in Seq(TaskRows) : \A bs : ts = tasks /\ bs = bodies => Spoken(tasks', bodies')
    BY <1>1, <1>4, SpokenStays DEF SameWords
  <2> QED BY <1>1, <2>1
<1>5. CASE Leaves(d)
  <2>1. bodies' = {} /\ SameList(tasks, tasks')
    BY <1>3, <1>5 DEF Leaves, Follows, SameList
  <2>2. \A t \in DOMAIN tasks : Done(tasks, t) => Done(tasks', t)
    BY <1>5 DEF Leaves, Done, Terminal
  <2> QED BY <1>4, <2>1, <2>2
<1>6. ~Waits(d)
  BY <1>3 DEF Waits
<1>7. CASE Passes(d)
  <2> DEFINE start == PassStart(d)
             skip  == PassSkip(d)
  <2>1. start \subseteq With(tasks, "queued") /\ skip \subseteq With(tasks, "queued") /\ PassPlans(d) \subseteq start
    BY PassSets
  <2>2. PassPlans(d) = {}
    BY <1>1, <1>3, <2>1, NoFans DEF PassPlans, With
  <2>3. /\ bodies' = TurnsOf(d, start) /\ tasks' \in Seq(TaskRows) /\ DOMAIN tasks' = DOMAIN tasks
        /\ \A t \in DOMAIN tasks : /\ AsAsked(tasks[t], tasks'[t])
                                   /\ tasks'[t].status = IF t \in skip THEN "skipped"
                                                         ELSE IF t \in start THEN "running" ELSE tasks[t].status
    <3>1. DOMAIN tasks' = DOMAIN tasks
      BY <1>7, <2>2 DEF Passes, Walked
    <3> QED BY <1>3, <1>7, <2>2, <3>1 DEF Passes, Walked
  <2>4. \A t \in With(tasks, "queued") : ~Done(tasks, t)
    BY DEF With, Done, Terminal
  <2>5. \A t \in DOMAIN tasks : Done(tasks, t) => Done(tasks', t)
    <3> HIDE DEF start, skip
    <3> QED BY <2>1, <2>3, <2>4 DEF Done
  <2>6. \A c \in bodies' : ~Done(tasks, c.task)
    BY <2>1, <2>3, <2>4 DEF TurnsOf
  <2>7. SameList(tasks, tasks')
    BY <2>3 DEF SameList
  <2> QED BY <1>4, <2>5, <2>6, <2>7
<1> QED BY <1>2, <1>5, <1>6, <1>7

\* Nor does a person who lets the run on or stops it, or a server that starts
\* again.
LEMMA RequestSpoken ==
    ASSUME IInv, Alone, Serial, Budgetless, Spoken(tasks, bodies), Calls \subseteq {"approve", "stop"},
           OpenThread \/ Request \/ Crash
    PROVE  Spoken(tasks', bodies')
<1>1. CASE OpenThread \/ Approve
  <2>1. bodies' = bodies /\ tasks' = tasks
    BY <1>1 DEF OpenThread, Approve, Budgetless, rows
  <2> QED BY <2>1
<1>2. CASE Stop
  BY <1>2 DEF Stop
<1>3. CASE Crash
  <2>1. bodies' = {} /\ tasks' = Finish(tasks, With(tasks, "running"), "queued") /\ tasks \in Seq(TaskRows)
    BY <1>3 DEF Crash, IInv, TypeOK
  <2>2. "queued" \in Statuses
    BY DEF Statuses
  <2>3. SameList(tasks, tasks')
    BY <2>1, <2>2, FinishIs, FinishFollows DEF SameList, Follows
  <2>4. \A t \in DOMAIN tasks : Done(tasks, t) => Done(tasks', t)
    BY <2>1, <2>2, FinishIs DEF Done, With, Terminal
  <2>5. \A t \in DOMAIN tasks : SameWord(tasks[t], tasks'[t])
    BY <2>1, <2>2, FinishWords DEF SameWords
  <2>6. \A ts \in Seq(TaskRows) : \A bs : ts = tasks /\ bs = bodies => Spoken(tasks', {})
    BY <2>3, <2>4, <2>5, SpokenStays
  <2> QED BY <2>1, <2>6
<1>4. ~Resuming /\ \A t \in DOMAIN tasks : ~Retry(t) /\ ~Cancel(t)
  BY DEF Resuming, Restored, RestoreFails, Resume, Retry, Cancel, Asked
<1> QED BY <1>1, <1>2, <1>3, <1>4 DEF Request

LEMMA NextSpoken ==
    ASSUME Lists, IInv, Alone, Serial, Budgetless, Line, Spoken(tasks, bodies), [Next]_vars
    PROVE  Spoken(tasks', bodies')
<1>1. CASE UNCHANGED vars \/ Rest
  <2>1. tasks' = tasks /\ bodies' = bodies
    BY <1>1 DEF Rest, vars, rows, memory
  <2> QED BY <2>1
<1>2. ~\E level \in {"near", "over"} : Spend(level)
  BY DEF Spend, Lists
<1> QED BY <1>1, <1>2, LoopSpoken, BodySpoken, RequestSpoken DEF Next, Lists

\* Lists in which no two checks are about one work, before anything ran.
CheckedLists ==
    /\ Lists
    /\ \A p \in Plans : OwnChecks(p) /\ \A t \in DOMAIN p : p[t].verdict = "none" /\ p[t].by = "none"

LEMMA InitSpoken == CheckedLists /\ Init => Spoken(tasks, bodies)
<1> SUFFICES ASSUME CheckedLists, Init PROVE Spoken(tasks, bodies)
  OBVIOUS
<1>1. /\ tasks \in Plans /\ tasks \in Seq(TaskRows) /\ OwnChecks(tasks)
      /\ \A t \in DOMAIN tasks : tasks[t].verdict = "none" /\ tasks[t].by = "none"
  BY EngineAssumption DEF Init, CheckedLists
<1>2. /\ \A t, u \in DOMAIN tasks : tasks[t].name = tasks[u].name => t = u
      /\ \A t \in DOMAIN tasks : ListRow(tasks, t)
  <2>1. Listing(tasks, Len(tasks)) /\ DOMAIN tasks = 1 .. Len(tasks)
    BY <1>1 DEF CheckedLists, Lists
  <2> QED BY <2>1 DEF Listing
<1>3. \A v \in DOMAIN tasks : CheckedTask(tasks, v) # 0 => CheckedTask(tasks, v) \in DOMAIN tasks
  BY <1>1, CheckedTaskIs
<1>4. \A x : Len(<<x>>) <= 1 /\ Len(<<>>) <= 1
  OBVIOUS
<1>5. Paired(tasks)
  <2>1. \A v \in Checks(tasks) : v \in DOMAIN tasks /\ Len(tasks[v].dependsOn) <= 1
    BY <1>2, <1>4 DEF Checks, ListRow
  <2> QED BY <1>1, <1>2, <1>3, <2>1 DEF Paired, OwnChecks
<1>6. \A v \in Checks(tasks) : tasks[v].verdict = "none" /\ v \in DOMAIN tasks
  BY <1>1 DEF Checks
<1> QED BY <1>1, <1>3, <1>5, <1>6 DEF Spoken

\* A check speaks for itself and for the task it checks, unless that task is
\* held for worse already (runTask's check, runner.ts): in a list whose checks are
\* each about a work of its own, whatever they send back and however often,
\* work that a check verified shows as verified, or as the rule had it for
\* worse, and never as an earlier check or nobody had it.
THEOREM ListsAreChecked ==
    ASSUME CheckedLists
    PROVE  Spec => []CheckedWorkIsVerified
<1> DEFINE Has == Spoken(tasks, bodies)
<1>1. Lists
  BY DEF CheckedLists
<1>2. Init => Has
  BY InitSpoken
<1>3. IInv /\ Alone /\ Budgetless /\ Line /\ Serial /\ Has /\ [Next]_vars => Has'
  BY <1>1, NextSpoken
<1>4. Has => CheckedWorkIsVerified
  BY DEF Spoken, Cleared, Lifted, Checks, Standing, CheckedWorkIsVerified
<1> HIDE DEF Has
<1> QED BY <1>1, <1>2, <1>3, <1>4, LinesAlways, PTL DEF Spec
=============================================================================
