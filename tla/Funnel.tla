------------------------------- MODULE Funnel -------------------------------
(***************************************************************************)
(* The candidate funnel of a screening run (funnel-v1): holdings and event *)
(* passes first, then a round-robin over the sectors of the securities     *)
(* that pass a base screen, then controls taken in hash order from those   *)
(* that pass nothing.                                                      *)
(*                                                                         *)
(* Securities and sectors are numbers, ordered as their names are; sector  *)
(* 0 is a missing one, which the code names UNKNOWN.                       *)
(* A row is one stored screen result: its family, whether it had data and  *)
(* passed, its data quality, its confidence and the evidence clusters its  *)
(* evidence resolves to.                                                   *)
(***************************************************************************)
EXTENDS Integers, Sequences, FiniteSets

CONSTANTS
  Universe,      \* the securities of the run
  Markets,       \* what the run stored and holds: [rows, held, sector]
  FunnelBudget,  \* FunnelConfig.budget
  ControlCount,  \* FunnelConfig.control_count
  UnknownSector, \* where UNKNOWN sorts among the sectors
  ControlKey     \* the hash of each security, as a number

(* A stored screen result, as far as the funnel reads it.                   *)
IsRow(r) ==
  /\ r.passed \in BOOLEAN /\ r.sufficient \in BOOLEAN
  /\ r.quality \in Nat /\ r.confidence \in Nat /\ IsFiniteSet(r.clusters)

ASSUME FunnelAssumption ==
  /\ FunnelBudget \in Nat /\ ControlCount \in Nat /\ UnknownSector \in Int
  /\ Universe \subseteq Int /\ IsFiniteSet(Universe)
  /\ \A s \in Universe : ControlKey[s] \in Int
  /\ \A m \in Markets : \A s \in Universe :
       m.sector[s] \in Int /\ IsFiniteSet(m.rows[s]) /\ \A r \in m.rows[s] : IsRow(r)

VARIABLES
  pool,        \* the stored results, the holdings and the sectors
  candidates,  \* the ordered candidates
  flagged      \* budget_overflow_mandatory

funnelVars == <<pool, candidates, flagged>>

BaseFamilies == {"valuation", "inflection", "quality", "informed_activity"}

-----------------------------------------------------------------------------
Rows(s) == pool.rows[s]
Passing(s, families) == {r \in Rows(s) : r.family \in families /\ r.passed}

SectorOf(s) == IF pool.sector[s] = 0 THEN UnknownSector ELSE pool.sector[s]

(* Keys compare as tuples, the first difference deciding. *)
Before(a, b) == \E k \in DOMAIN a : a[k] < b[k] /\ \A j \in 1 .. k - 1 : a[j] = b[j]

Sorted(S, key) ==
  [k \in 1 .. Cardinality(S) |->
     CHOOSE x \in S : Cardinality({y \in S : Before(key[y], key[x])}) = k - 1]

Id == [s \in Universe |-> <<s>>]
HashKey == [s \in Universe |-> <<ControlKey[s], s>>]

Held == pool.held \cap Universe
EventPasses == {s \in Universe : Passing(s, {"event"}) # {}}
Mandatory == Sorted(Held, Id) \o Sorted(EventPasses \ Held, Id)
IsMandatory(s) == s \in Held \cup EventPasses

Overflows == Len(Mandatory) > FunnelBudget

Signals == {s \in Universe : ~IsMandatory(s) /\ Passing(s, BaseFamilies) # {}}

(* The five base results must be there, none passing, one with data. *)
IsControl(s) ==
  LET base == {r \in Rows(s) : r.family \in BaseFamilies \cup {"event"}}
  IN  /\ ~IsMandatory(s) /\ s \notin Signals
      /\ {r.family : r \in base} = BaseFamilies \cup {"event"}
      /\ \A r \in base : ~r.passed
      /\ \E r \in base : r.sufficient

EligibleControls == {s \in Universe : IsControl(s)}

Smallest(S) == CHOOSE n \in S : \A k \in S : n <= k
Largest(S) == CHOOSE n \in S \cup {0} : \A k \in S : k <= n

Reserved ==
  IF Overflows THEN 0
  ELSE Smallest({ControlCount, Cardinality(EligibleControls), FunnelBudget - Len(Mandatory)})

SignalCapacity(controls) == Largest({FunnelBudget - Len(Mandatory) - controls})

(* Within a sector: passes, supporting clusters, quality, confidence and    *)
(* momentum, each better first, then the identifier.                        *)
SignalRank(s) ==
  LET passing == Passing(s, BaseFamilies)
  IN  << -Cardinality(passing), -Cardinality(UNION {r.clusters : r \in passing}),
         -Largest({r.quality : r \in passing}), -Largest({r.confidence : r \in passing}),
         IF Passing(s, {"momentum_confirmation"}) # {} THEN 0 ELSE 1, s >>

Place(s) == Cardinality({t \in Signals : SectorOf(t) = SectorOf(s) /\ Before(SignalRank(t), SignalRank(s))})

SectorIndex(s) ==
  Cardinality({x \in {SectorOf(t) : t \in Signals} : x < SectorOf(s)})

\* Mutant: a sector is exhausted before the next one is visited.
SectorBySector(s) == <<SectorIndex(s), Place(s)>>

(* The round-robin visits the sectors in order and takes one of each: the   *)
(* k-th of every sector comes before the (k+1)-th of any.                   *)
Turn(s) == <<Place(s), SectorIndex(s)>>

Truncate(seq, n) == SubSeq(seq, 1, Smallest({n, Len(seq)}))

RunFunnel ==
  LET controls == Truncate(Sorted(EligibleControls, HashKey), Reserved)
      signals == Truncate(Sorted(Signals, [s \in Signals |-> Turn(s)]), SignalCapacity(Len(controls)))
  IN  Mandatory \o signals \o controls

-----------------------------------------------------------------------------
FunnelInit == pool \in Markets /\ candidates = <<>> /\ flagged = FALSE

Choose ==
  /\ candidates = <<>> /\ RunFunnel # <<>>
  /\ candidates' = RunFunnel /\ flagged' = Overflows
  /\ UNCHANGED pool

FunnelSpec == FunnelInit /\ [][Choose]_funnelVars

-----------------------------------------------------------------------------
(* A candidate population is fair: no holding and no event pass is dropped, *)
(* nothing appears twice, the budget is exceeded only when the mandatory    *)
(* set alone exceeds it and that is flagged, a sector never gets a second   *)
(* signal more than another that still has one to offer, no signal is left  *)
(* out for one of its own sector that ranks behind it, controls pass no     *)
(* base screen and never crowd out a mandatory name, and room is left only  *)
(* when nobody is (run_funnel).                                             *)
FunnelIsFair ==
  candidates # <<>> =>
    LET chosen == {candidates[k] : k \in DOMAIN candidates}
        Taken(x) == Cardinality({s \in Signals \cap chosen : SectorOf(s) = x})
    IN  /\ Held \cup EventPasses \subseteq chosen
        /\ Cardinality(chosen) = Len(candidates)
        /\ (Len(candidates) > FunnelBudget) => (flagged /\ \A s \in chosen : IsMandatory(s))
        /\ flagged => Len(candidates) > FunnelBudget
        /\ \A left \in Signals \ chosen :
             /\ Len(candidates) >= FunnelBudget
             /\ \A s \in Signals \cap chosen :
                  /\ Taken(SectorOf(s)) <= Taken(SectorOf(left)) + 1
                  /\ SectorOf(s) = SectorOf(left) => Before(SignalRank(s), SignalRank(left))
        /\ \A s \in chosen : IsMandatory(s) \/ s \in Signals \/ Passing(s, BaseFamilies) = {}
        /\ \A left \in EligibleControls \ chosen :
             \/ Len(candidates) >= FunnelBudget
             \/ Cardinality(EligibleControls \cap chosen) = ControlCount
=============================================================================
