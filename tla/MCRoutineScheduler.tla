------------------------- MODULE MCRoutineScheduler -------------------------
(***************************************************************************)
(* One routine that runs a workflow file, catches up on missed beats and   *)
(* is retried: routines share nothing but the tick.  That runs of a prompt *)
(* keep apart as well is in RoutineProofs, for any routines.               *)
(***************************************************************************)
EXTENDS RoutineScheduler, TLC

CONSTANT w

MCRoutines == {w}
MCFromFile == {w}
MCSkips    == {}
MCEvery    == [r \in {w} |-> 2]
MCRetries  == [r \in {w} |-> 1]
MCMaxRuns  == [r \in {w} |-> 3]
==============================================================================
