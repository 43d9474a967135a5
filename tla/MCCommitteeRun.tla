---------------------------- MODULE MCCommitteeRun ----------------------------
(* Instances of CommitteeRun for TLC: requests and providers are           *)
(* interchangeable.                                                        *)
EXTENDS CommitteeRun, TLC

Symmetry == Permutations(Requests) \cup Permutations(Providers)
=============================================================================
