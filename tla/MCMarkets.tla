------------------------------ MODULE MCMarkets -----------------------------
(* Markets for Funnel: four securities, two in one sector and one without any; each is of one of *)
(* eight kinds: two base passes, one with many clusters, one with few, an     *)
(* event pass, an eligible control, one without data, one never screened.    *)
EXTENDS Naturals, FiniteSets

Families == {"valuation", "inflection", "quality", "informed_activity", "event", "momentum_confirmation"}

Result(family, sufficient, passed, clusters) ==
  [family |-> family, sufficient |-> sufficient, passed |-> passed, quality |-> Cardinality(clusters),
   confidence |-> 1, clusters |-> clusters]

Profile(passes, sufficient, clusters) ==
  {Result(f, sufficient \/ f \in passes, f \in passes, clusters) :
     f \in Families}

Profiles == { Profile({"valuation", "quality"}, TRUE, {"c1"}), Profile({"valuation"}, TRUE, {"c1", "c2"}),
           Profile({"inflection", "momentum_confirmation"}, TRUE, {"c1"}), Profile({"inflection"}, TRUE, {}),
           Profile({"event"}, FALSE, {}), Profile({}, TRUE, {}), Profile({}, FALSE, {}), {} }

Market(rows, held) == [rows |-> rows, held |-> held, sector |-> <<3, 1, 1, 0>>]

MCUniverse == 1 .. 4
MCMarkets == {Market(rows, held) : rows \in [MCUniverse -> Profiles], held \in {{}, {3, 9}}}
QuietMarket == Market([s \in MCUniverse |-> {}], {})
MCControlKey == <<3, 4, 1, 2>>
=============================================================================
