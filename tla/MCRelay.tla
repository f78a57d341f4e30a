------------------------------- MODULE MCRelay -------------------------------
(***************************************************************************)
(* The relay with its places and its phones interchangeable: only safety   *)
(* is checked of it.                                                       *)
(***************************************************************************)
EXTENDS Relay, TLC

Interchangeable == Permutations(Places) \cup Permutations(Phones)

==============================================================================
