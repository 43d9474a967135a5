--------------------------- MODULE MCPaperAutonomy ---------------------------
(* Instances of PaperAutonomy for TLC: proposal 1 is twice as large as the *)
(* others, so that the notional budget and the count both bind. The daily  *)
(* budgets are checked as long as no two runs were in progress together:   *)
(* the runner checks and charges them in two transactions.                 *)
EXTENDS PaperAutonomy, TLC

VARIABLE overlapped \* history: have two runs been in progress at once?

Overlap == Cardinality({r \in Runners : ~At(r, "idle")}) > 1

MCInit == Init /\ overlapped = FALSE

MCSpec ==
  /\ MCInit
  /\ [][Next /\ overlapped' = (overlapped \/ Overlap')]_<<vars, overlapped>>

MCNotional == [p \in Proposals |-> IF p = 1 THEN 2 ELSE 1]
Symmetry == Permutations(Runners)

\* Runs that do not overlap stay within the day's budgets.
BudgetHoldsAlone == ~overlapped => BudgetHolds
=============================================================================
