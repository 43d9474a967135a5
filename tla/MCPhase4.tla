------------------------------- MODULE MCPhase4 -------------------------------
(* Phase4.tla for TLC: tokens and calls are interchangeable.               *)
EXTENDS Phase4, TLC

Symmetry == Permutations(Tokens) \cup Permutations(Calls)
=============================================================================
