--------------------------- MODULE MCConfirmation ---------------------------
(***************************************************************************)
(* Confirmation.tla for TLC. A lease is held by a row or a handler, and an *)
(* order number by a row, a handler or a request, so one more of each than *)
(* there can be holders is as good as infinitely many.                     *)
(***************************************************************************)
EXTENDS Confirmation, TLC

\* Tokens, workers, leases and order numbers are interchangeable.
Symmetry == Permutations(Tokens) \cup Permutations(Workers)
              \cup Permutations(Leases) \cup Permutations(Orders)
=============================================================================
