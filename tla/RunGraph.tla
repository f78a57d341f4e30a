------------------------------- MODULE RunGraph -------------------------------
(***************************************************************************)
(* The task graph of a run, as harness-server/src/runner.ts and verdict.ts *)
(* read it: what a task waits for, whether it may start, which work a      *)
(* check is about, what the run's verdict is and where a resume picks up.  *)
(*                                                                         *)
(* A run's tasks are a sequence ordered by position; a task is its index.  *)
(* Nothing here changes state: RunEngine does, with these operators.       *)
(***************************************************************************)
EXTENDS Naturals, Sequences, FiniteSets

CONSTANT
    Names    \* what tasks are called; "" stands for no name given

ASSUME RunGraphAssumption == "" \in Names

Kinds    == {"agent", "verify", "action", "external"}
Statuses == {"queued", "running", "success", "failed", "skipped", "stopped"}

\* TERMINAL: a settled task will not change again; the graph moves on these.
Terminal == {"success", "failed", "skipped", "stopped"}

\* VERDICTS, best to worst, and "none" for a task nobody judged.
VerdictValues == {"verified", "unverified", "needs-user", "failed"}
Badness(v) == CASE v = "none" -> 0 [] v = "verified" -> 1 [] v = "unverified" -> 2
                [] v = "needs-user" -> 3 [] v = "failed" -> 4

(***************************************************************************)
(* A task row.  "listed" says whether dependsOn was given at all, "when"   *)
(* and "foreach" are "" when absent, retryOf is 0 for a first attempt and  *)
(* "cut" says that the row's error is the run's own budget reason, "visual" *)
(* that a check also looks at the page, and "by" who judged: the rule over *)
(* the answer (an auditor model included) or a check that ran.             *)
(***************************************************************************)
TaskRows ==
    [name : Names, kind : Kinds, status : Statuses, started : BOOLEAN,
     retryOf : Nat, attempt : Nat, retries : Nat, gate : BOOLEAN,
     listed : BOOLEAN, dependsOn : Seq(Names), when : Names,
     whenIs : SUBSET Statuses, require : BOOLEAN, foreach : Names,
     visual : BOOLEAN, verdict : VerdictValues \cup {"none"},
     by : {"none", "rule", "check"}, cut : BOOLEAN]

\* A task as addTasks inserts it: queued, nothing behind it, nothing after it.
NewTask(name, kind) ==
    [name |-> name, kind |-> kind, status |-> "queued", started |-> FALSE,
     retryOf |-> 0, attempt |-> 1, retries |-> 0, gate |-> FALSE,
     listed |-> FALSE, dependsOn |-> <<>>, when |-> "", whenIs |-> {},
     require |-> FALSE, foreach |-> "", visual |-> FALSE, verdict |-> "none",
     by |-> "none", cut |-> FALSE]

\* againOf and definitionOf: the same work as a new attempt of itself.
AgainOf(ts, t) ==
    [ts[t] EXCEPT !.status = "queued", !.started = FALSE, !.verdict = "none", !.by = "none",
                  !.cut = FALSE, !.attempt = @ + 1, !.retryOf = t]

\* The attempt retryTask adds: the work, not its place in the graph.
RetryOf(ts, t) ==
    [NewTask(ts[t].name, ts[t].kind) EXCEPT !.visual = ts[t].visual,
                                            !.attempt = ts[t].attempt + 1, !.retryOf = t]

\* scheduleRetry: the checked work once more, as a root, and the check behind
\* it with one try less.
RetryPair(ts, work, check) ==
    <<[RetryOf(ts, work) EXCEPT !.listed = TRUE],
      [RetryOf(ts, check) EXCEPT !.listed = TRUE, !.dependsOn = <<ts[work].name>>,
                                 !.retries = ts[check].retries - 1]>>

\* One step of a foreach plan, as expand adds it.
StepOf(row) == [NewTask(row.name, row.kind) EXCEPT !.listed = TRUE]

------------------------------------------------------------------------------

With(ts, s)        == {t \in DOMAIN ts : ts[t].status = s}
Instances(ts, n)   == {t \in DOMAIN ts : ts[t].name = n}
Successes(ts, n)   == {t \in Instances(ts, n) : ts[t].status = "success"}
Newest(S)          == CHOOSE t \in S : \A u \in S : u <= t
Oldest(S)          == CHOOSE t \in S : \A u \in S : t <= u

\* Names in the order the code walks them.
Listed(q) == {q[k] : k \in DOMAIN q}

\* dependencies: what each task waits for.  foreach waits for its plan, an
\* explicit list is used as written, a retry waits for what the original was
\* given and anything else for the task above; "when" is waited for too.
Dependencies(ts) ==
    LET deps[t \in DOMAIN ts] ==
            LET row   == ts[t]
                given == IF row.foreach # "" THEN <<row.foreach>>
                         ELSE IF row.listed THEN row.dependsOn
                         ELSE IF row.retryOf # 0 THEN deps[row.retryOf]
                         ELSE IF t > 1 THEN <<ts[t - 1].name>> ELSE <<>>
            IN IF row.when # "" /\ row.when \notin Listed(given)
               THEN Append(given, row.when) ELSE given
    IN deps

\* Mutant: what was stopped is waited for as if it could still go on.
Settled_open(ts, n) ==
    LET all == Instances(ts, n)
    IN IF all = {} THEN "failed"
       ELSE IF \E t \in all : ts[t].status \notin Terminal \ {"stopped"} THEN "pending"
       ELSE IF \E t \in all : ts[t].status \in {"success", "skipped"} THEN "ok"
       ELSE "failed"

\* settled: whether every instance of a name has settled, and whether one
\* of them came to something.
Settled(ts, n) ==
    LET all == Instances(ts, n)
    IN IF all = {} THEN "failed"
       ELSE IF \E t \in all : ts[t].status \notin Terminal THEN "pending"
       ELSE IF \E t \in all : ts[t].status \in {"success", "skipped"} THEN "ok"
       ELSE "failed"

\* A "when" that names a failure is the way through it.
Expects(row, n) == row.when = n /\ row.whenIs \cap {"failed", "stopped"} # {}

\* expectsFailure: somebody in the run declared this failure survivable.
ExpectsFailure(ts, n) == \E t \in DOMAIN ts : Expects(ts[t], n)

\* condition: whether "when" is answered, and how.
Condition(ts, t) ==
    LET all == Instances(ts, ts[t].when)
    IN IF ts[t].when = "" THEN "run"
       ELSE IF all = {} THEN "skip"
       ELSE IF \E u \in all : ts[u].status \notin Terminal THEN "wait"
       ELSE IF \E u \in all : ts[u].status \in ts[t].whenIs THEN "run" ELSE "skip"

\* require: verified.  The newest instance of every dependency speaks for it.
Unchecked(ts, n) ==
    Instances(ts, n) = {} \/ ts[Newest(Instances(ts, n))].verdict # "verified"

\* decide: the first dependency that is not over with decides; then what the
\* task requires, then its condition.
Decide(ts, t) ==
    LET deps  == Dependencies(ts)[t]
        stops == {k \in DOMAIN deps :
                    \/ Settled(ts, deps[k]) = "pending"
                    \/ Settled(ts, deps[k]) = "failed" /\ ~Expects(ts[t], deps[k])}
    IN IF stops # {}
       THEN IF Settled(ts, deps[Oldest(stops)]) = "pending" THEN "wait" ELSE "skip"
       ELSE IF ts[t].require /\ \E n \in Listed(deps) : Unchecked(ts, n) THEN "skip"
       ELSE Condition(ts, t)

\* handoffFor: the tasks whose notes a task is handed, the newest success of
\* each name it depends on.
HandedBy(ts, t) ==
    {Newest(Successes(ts, n)) :
        n \in {m \in Listed(Dependencies(ts)[t]) : Successes(ts, m) # {}}}

\* checkedTask: the agent task a check is about, 0 when there is none.
CheckedTask(ts, v) ==
    LET named == {t \in DOMAIN ts : ts[t].kind = "agent" /\ ts[t].name \in Listed(ts[v].dependsOn)}
        above == {t \in DOMAIN ts : ts[t].kind = "agent" /\ t < v}
        about == IF ts[v].dependsOn # <<>> THEN named ELSE above
    IN IF about = {} THEN 0 ELSE Newest(about)

------------------------------------------------------------------------------

\* Attempts a later attempt retries no longer speak for the run.
Standing(ts) == {t \in DOMAIN ts : \A u \in DOMAIN ts : ts[u].retryOf # t}

\* runVerdict: the worst verdict of the standing tasks.
RunVerdict(ts) ==
    LET judged == {ts[t].verdict : t \in {u \in Standing(ts) : ts[u].verdict # "none"}}
    IN IF judged = {} THEN "none"
       ELSE CHOOSE v \in judged : \A w \in judged : Badness(w) <= Badness(v)

\* behind: the starting tasks and every settled, unsucceeded task that waits
\* on them by name, however far down.
Behind(ts, starts) ==
    LET lost == {t \in Standing(ts) : ts[t].status \in {"failed", "stopped", "skipped"}}
        grow[n \in 0 .. Len(ts)] ==
            IF n = 0 THEN starts
            ELSE LET names == {ts[t].name : t \in grow[n - 1]}
                 IN grow[n - 1] \cup
                    {t \in lost : Listed(Dependencies(ts)[t]) \cap names # {}}
    IN DOMAIN ts \cap grow[Len(ts)]

\* startingTask: where a reader may choose to resume from.
MayStartFrom(ts, t) ==
    t \in Standing(ts) /\ ts[t].status \in {"failed", "stopped", "skipped"}

\* resumePoint: what runs again, from a chosen task or (from = 0) from where
\* the run broke; and whether there is a point to put the folder back to.
ResumeStarts(ts, from) ==
    IF from # 0 THEN {from}
    ELSE {t \in Standing(ts) : ts[t].status \in {"failed", "stopped"}}

Again(ts, from) == Behind(ts, ResumeStarts(ts, from))

RunsAgain(ts, from) == Again(ts, from) \cup {t \in Standing(ts) : ts[t].status = "queued"}

RestoresFolder(ts, from) ==
    /\ \/ ResumeStarts(ts, from) # {}
       \/ \E t \in Standing(ts) : ts[t].status = "queued" /\ ts[t].started
    /\ \E t \in Standing(ts) : ts[t].status = "success"
==============================================================================
