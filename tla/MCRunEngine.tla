----------------------------- MODULE MCRunEngine -----------------------------
(***************************************************************************)
(* Runs small enough to check: the plans they are started with.            *)
(***************************************************************************)
EXTENDS RunEngine, TLC

\* What the plans below call their tasks, and no name.
TaskNames == {"work", "check", "next", "plan", "step", "sum", "mend", "ship", "fetch", "build",
              "look", "left", "right", "join", ""}

agent(n)  == NewTask(n, "agent")
verify(n) == NewTask(n, "verify")
Root(row) == [row EXCEPT !.listed = TRUE]
After1(row, n) == [row EXCEPT !.listed = TRUE, !.dependsOn = <<n>>]

\* Work behind a gate, a check with one try, and work that builds on it.
Checked == <<[agent("work") EXCEPT !.gate = TRUE], [verify("check") EXCEPT !.retries = 1],
             agent("next")>>

\* A plan, a task per step, and what follows them all.
FannedOut == <<agent("plan"), [agent("step") EXCEPT !.foreach = "plan"], agent("sum")>>

\* A check with a declared way through its failure, and a task that wants
\* verified work.
Recovering == <<agent("work"), verify("check"),
                [agent("mend") EXCEPT !.when = "check", !.whenIs = {"failed"}],
                [After1(agent("ship"), "check") EXCEPT !.require = TRUE]>>

\* The kinds a plan mixes.
Mixed == <<NewTask("fetch", "action"), NewTask("build", "external"),
           [verify("look") EXCEPT !.visual = TRUE]>>

\* Two branches at once, one of them behind a gate, and a join.
Forked == <<[Root(agent("left")) EXCEPT !.gate = TRUE], Root(agent("right")),
            [Root(agent("join")) EXCEPT !.dependsOn = <<"left", "right">>]>>

\* The same with every dependency written down.
Written == <<Checked[1], [After1(verify("check"), "work") EXCEPT !.retries = 1],
             After1(agent("next"), "check")>>

\* Two roots, the first behind a gate, and nothing else: what two drivers of
\* one run can meet over.
Pair == <<[Root(NewTask("left", "external")) EXCEPT !.gate = TRUE], Root(agent("right"))>>

------------------------------------------------------------------------------
(* The plans of each configuration.                                        *)

\* One task at a time, in the order it is written.
OneByOne   == {Checked, Recovering, Mixed}
Sequential == OneByOne \cup {FannedOut}

\* One task at a time, each naming the one before it.
Named == {Written}

\* Several tasks at a time.
Parallel == {Pair}
Window   == {Forked}

\* Drivers and callers are interchangeable: no plan and no property names one.
Slots == Permutations(Drivers) \cup Permutations(Callers)
==============================================================================
