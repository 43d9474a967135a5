------------------------------ MODULE MCFreshness ------------------------------
(* Instances of Freshness for TLC. Both start with every symbol past the   *)
(* contract, since what is not stale owes no repair; invocations of the    *)
(* refresh are interchangeable.                                            *)
EXTENDS Freshness, TLC

MCInit == /\ Init
          /\ bar = [s \in Symbols |-> "old"]
          /\ reserved = {} /\ failing = {2}

MCSpec == MCInit /\ [][Next]_vars
MCFairSpec == MCSpec /\ Fairness

Symmetry == Permutations(Invocations)
=============================================================================
