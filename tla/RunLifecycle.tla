---------------------------- MODULE RunLifecycle ----------------------------
(***************************************************************************)
(* What a run promises to whoever reads its row: the phases it goes        *)
(* through, who is working on it in each, and what its endings mean.       *)
(*                                                                         *)
(* A run is worked on by one driver while it is "running" or "held" for an *)
(* answer in the middle of a turn, and by nobody while it is "waiting" at  *)
(* a gate or a budget or is over.  Only a person takes it from waiting or  *)
(* from its end back to running.                                           *)
(***************************************************************************)
EXTENDS Naturals

VARIABLES
    phase,     \* "running", "held", "waiting", or how the run ended
    driving,   \* how many loops work on it
    stopAsked, \* a person asked it to stop, and it has not yet
    left       \* some of its work is still queued

vars == <<phase, driving, stopAsked, left>>

Endings == {"success", "failed", "stopped"}

Init == /\ phase = "running" /\ driving = 1 /\ stopAsked = FALSE /\ left \in BOOLEAN

\* The work goes on: tasks start, end, and are added or called off.
Work == phase \in {"running", "held"} /\ UNCHANGED <<phase, driving, stopAsked>>

\* A turn asks the person something, and is answered or ends.
Hold == phase = "running" /\ phase' = "held" /\ UNCHANGED <<driving, stopAsked, left>>
Go   == phase = "held" /\ phase' = "running" /\ UNCHANGED <<driving, stopAsked>>

\* The run stops at a gate or a budget; one that was asked to stop does not.
Pause ==
    /\ phase = "running" /\ ~stopAsked
    /\ phase' = "waiting" /\ driving' = 0 /\ left' \in BOOLEAN
    /\ UNCHANGED stopAsked

\* The driver ends the run: as asked, if it was asked to stop, and as a
\* success only with nothing left to do.
End ==
    /\ phase = "running"
    /\ phase' \in Endings
    /\ stopAsked => phase' = "stopped"
    /\ phase' = "success" => ~left'
    /\ driving' = 0 /\ stopAsked' = FALSE

\* A person lets a waiting run on, or picks up one that is over.
Resume ==
    /\ phase \in {"waiting"} \cup Endings
    /\ phase' = "running" /\ driving' = 1
    /\ UNCHANGED stopAsked

\* A person stops the run: at once when nobody is working on it.
Stop ==
    \/ phase \in {"running", "held"} /\ stopAsked' = TRUE /\ UNCHANGED <<phase, driving, left>>
    \/ phase = "waiting" /\ phase' = "stopped" /\ UNCHANGED <<driving, stopAsked, left>>

\* A person takes work off a run that is at rest.
Cancel == phase \notin {"running", "held"} /\ left' \in BOOLEAN /\ UNCHANGED <<phase, driving, stopAsked>>

\* What worked on it dies: the process, or the loop itself.
Die ==
    /\ phase \notin Endings
    /\ phase' = "failed" /\ driving' = 0 /\ stopAsked' = FALSE

Next == \/ Work \/ Hold \/ Go \/ Pause \/ End \/ Resume \/ Stop \/ Cancel \/ Die

Spec == Init /\ [][Next]_vars
=============================================================================
