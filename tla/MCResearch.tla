----------------------------- MODULE MCResearch ------------------------------
(***************************************************************************)
(* From refreshed symbols to candidates, for TLC.  A behaviour chooses one *)
(* part and the others rest in one initial state each: "refresh",          *)
(* overlapping invocations of the daily refresh (RefreshRun); "screening", *)
(* overlapping screening processes (Screening); "funnel", the choice of    *)
(* candidates (Funnel); "experiments", overlapping evaluations of one      *)
(* regime (Experiments).  Invocations, processes and pipelines are         *)
(* interchangeable, symbols are not, since the rotation goes through them  *)
(* in order.                                                               *)
(***************************************************************************)
EXTENDS RefreshRun, Screening, Funnel, Experiments, TLC

INSTANCE MCMarkets

VARIABLE part

MCCodes == {[spec |-> "s1", body |-> "b1"], [spec |-> "s1", body |-> "b2"],
            [spec |-> "s2", body |-> "raises"]}

MCRemovals == <<"quality">>
MCGates == <<"committee">>
MCWalks == <<<<"B3", "63">>, <<"B4", "126">>>>

ResearchInit ==
  /\ part \in {"refresh", "screening", "funnel", "experiments"}
  /\ part # "refresh" =>
       bar = [s \in Symbols |-> "none"] /\ ledger = bar /\ reserved = {}
  /\ part # "funnel" => pool = QuietMarket
  /\ part # "experiments" => regime = NewRegime(600) /\ population = "nobody"
  /\ RefreshInit /\ ScreeningInit /\ FunnelInit /\ ExperimentInit

RefreshMoves ==
  /\ part = "refresh" /\ \E i \in Invocations : RefreshStep(i)
  /\ UNCHANGED <<part, screenVars, funnelVars, experimentVars>>
ScreeningMoves ==
  part = "screening" /\ ScreeningNext /\ UNCHANGED <<part, refreshVars, funnelVars, experimentVars>>
FunnelMoves ==
  part = "funnel" /\ Choose /\ UNCHANGED <<part, refreshVars, screenVars, experimentVars>>
ExperimentsMove ==
  /\ part = "experiments" /\ ExperimentNext
  /\ UNCHANGED <<part, refreshVars, screenVars, funnelVars>>

ResearchSpec ==
  /\ ResearchInit
  /\ [][RefreshMoves \/ ScreeningMoves \/ FunnelMoves \/ ExperimentsMove]_<<part, refreshVars,
        screenVars, funnelVars, experimentVars>>

Interchangeable ==
  Permutations(Invocations) \cup Permutations(Processes) \cup Permutations(Pipelines)
=============================================================================
