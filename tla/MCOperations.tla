---------------------------- MODULE MCOperations -----------------------------
(***************************************************************************)
(* The execution side for TLC.  A behaviour chooses one part and the       *)
(* others rest in their initial states: "autonomy", overlapping runs of    *)
(* the PAPER runner (PaperAutonomy); "phase4", overlapping tool calls on   *)
(* one approved proposal (Phase4).  What is claimed for one run, or one    *)
(* call, at a time is checked as long as no two were in progress together. *)
(***************************************************************************)
EXTENDS MCPaperAutonomy, Phase4

VARIABLE part

operationVars == <<part, vars, phase4Vars, overlapped>>

CallsOverlap == Cardinality({c \in Calls : call[c].pc # "idle"}) > 1

OperationsInit ==
  /\ part \in {"autonomy", "phase4"}
  /\ MCInit /\ Phase4Init

AutonomyMoves ==
  /\ part = "autonomy" /\ Next
  /\ overlapped' = (overlapped \/ Overlap')
  /\ UNCHANGED <<part, phase4Vars>>
Phase4Moves ==
  /\ part = "phase4" /\ Phase4Next
  /\ overlapped' = (overlapped \/ CallsOverlap')
  /\ UNCHANGED <<part, vars>>

OperationsSpec ==
  OperationsInit /\ [][AutonomyMoves \/ Phase4Moves]_operationVars

Interchangeable ==
  Symmetry \cup Permutations(Tokens) \cup Permutations(Calls)

\* Calls that do not overlap make one order of one proposal.
OneOrderAlone == ~overlapped => OneOrderPerApproval

\* Calls that do not overlap never take an applied fill back.
AppliedNeverShrinksAlone ==
  [][~overlapped' => link'.applied >= link.applied]_phase4Vars
=============================================================================
