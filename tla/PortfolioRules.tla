--------------------------- MODULE PortfolioRules ---------------------------
(***************************************************************************)
(* The pure rules of tradehub_research/portfolio: the versioned policy and *)
(* its validation (policy.py), eligibility (eligibility.py), risk          *)
(* (risk.py), sizing (sizing.py), the proposal contract (proposal.py) and  *)
(* the order in which a day's budget admits drafts (budget.py).            *)
(*                                                                         *)
(* Weights are whole parts of Ppm and quantities whole parts of Unit: both *)
(* are 10^6 in the code, and small here so that every rounding still       *)
(* happens. A mark price is the price of Unit parts of a share.            *)
(***************************************************************************)
EXTENDS Integers, Sequences, FiniteSets, SequencesExt, FiniteSetsExt

CONSTANTS
  Ppm,    \* MAX_PPM, the whole of a portfolio
  Unit,   \* parts of one share
  Policy, \* the registered policy, a record
  None    \* SQL NULL

States == {"DISCOVER", "WATCH", "ENTER", "HOLD", "ADD", "TRIM", "EXIT"}
Pending == {"ENTER", "ADD", "TRIM", "EXIT"}

Edges == {<<"DISCOVER", "WATCH">>, <<"WATCH", "DISCOVER">>,
          <<"WATCH", "ENTER">>, <<"ENTER", "HOLD">>, <<"ADD", "HOLD">>,
          <<"HOLD", "ADD">>, <<"HOLD", "TRIM">>, <<"TRIM", "HOLD">>,
          <<"TRIM", "EXIT">>, <<"HOLD", "EXIT">>, <<"EXIT", "WATCH">>}

Actionable == {<<"WATCH", "ENTER">>, <<"HOLD", "ADD">>, <<"HOLD", "TRIM">>,
               <<"HOLD", "EXIT">>, <<"TRIM", "EXIT">>}

\* A trigger that fires on its own flag, and the reason it gives.
Reason == [VERIFIED_THESIS_BREAK |-> "thesis_broken",
           DATA_INTEGRITY |-> "data_integrity",
           POLICY_INELIGIBLE |-> "policy_ineligible",
           RISK_REDUCTION |-> "risk_reduction",
           THESIS_REALISED |-> "thesis_realised",
           OPPORTUNITY_COST |-> "opportunity_cost",
           SCORE_BAND |-> "score_band"]
Triggers == DOMAIN Reason
SellReasons == {Reason[t] : t \in Triggers \ {"SCORE_BAND"}}

Trajectories == {"INITIAL", "REBASED", "RISING", "FALLING", "STABLE"}
Coverages == {"SUPPORTED", "LIMITED", "RESEARCH_ONLY"}
Direction(to) == IF to \in {"ENTER", "ADD"} THEN "BUY" ELSE "SELL"

-----------------------------------------------------------------------------
(* validate_spec.                                                          *)

Part(x) == x \in 0..Ppm
Optional(x) == x = None \/ Part(x)
Count(x) == x \in Nat
Positive(x) == x \in Nat \ {0}

\* Identifiers and priorities are unique, edges canonical, ranges not empty.
RulesValid(p) ==
  /\ p.rules # {} /\ IsFiniteSet(p.rules)
  /\ \A r, q \in p.rules : r.priority = q.priority => r = q
  /\ \A r \in p.rules :
       /\ r.priority \in Int
       /\ <<r.from, r.to>> \in Edges /\ r.trigger \in Triggers
       /\ Part(r.convictionMin) /\ Part(r.convictionMax)
       /\ r.convictionMin <= r.convictionMax
       /\ Part(r.qualityMin) /\ Part(r.agreementMin)
       /\ r.trajectories \subseteq Trajectories
       /\ Optional(r.opportunityMin) /\ Optional(r.opportunityMax)
       /\ None \notin {r.opportunityMin, r.opportunityMax}
            => r.opportunityMin <= r.opportunityMax
       /\ r.position \in {"ANY", "ABSENT", "PRESENT"}
       /\ r.coverage # {} /\ r.coverage \subseteq Coverages

\* Exactly the canonical edges are controlled; an actionable one must wait for
\* at least one observation.
ControlsValid(p) ==
  /\ DOMAIN p.controls = Edges
  /\ \A e \in Edges :
       /\ Count(p.controls[e].required) /\ Count(p.controls[e].cooldown)
       /\ e \in Actionable => p.controls[e].required >= 1
       /\ p.controls[e].material \in BOOLEAN /\ p.controls[e].broken \in BOOLEAN

MaterialValid(p) ==
  /\ p.delta \in 1..Ppm
  /\ DOMAIN p.direction = Actionable
  /\ \A e \in Actionable : p.direction[e] \in {"UP", "DOWN", "NONE"}

ThesisBreakValid(p) ==
  /\ p.methods # {}
  /\ p.methods \subseteq {"OWNER_ATTESTED", "DETERMINISTIC_RULE", "FIXTURE"}
  /\ Positive(p.breakAge) /\ Part(p.realisedMax) /\ Part(p.costMax)

SettlementValid(p) == Count(p.tolerance) /\ Count(p.pendingMax) /\ Count(p.cadence)

\* Bands descend strictly to a floor band at zero.
BandsValid(bands) ==
  /\ bands # <<>> /\ Last(bands).min = 0
  /\ \A i \in DOMAIN bands : Part(bands[i].min) /\ Part(bands[i].value)
  /\ \A i, j \in DOMAIN bands : i < j => bands[j].min < bands[i].min

SizingValid(p) ==
  /\ BandsValid(p.convictionBands) /\ BandsValid(p.qualityBands)
  /\ BandsValid(p.agreementBands)
  /\ p.trajectoryMultiplier \in [Trajectories -> 0..Ppm]
  /\ Part(p.trimFraction) /\ Positive(p.weightIncrement) /\ Count(p.minNotional)

RiskValid(p) ==
  /\ \A x \in {p.maxPosition, p.maxSector, p.maxBook, p.maxVolatility,
               p.correlationThreshold, p.maxCorrelated, p.minCorrelated,
               p.maxParticipation, p.maxAdvDays, p.valuationTolerance} : Part(x)
  /\ Positive(p.priceStale) /\ Positive(p.minReturns)
  /\ p.seamRequired \in BOOLEAN
  /\ p.unknownDecrease \in {"LIMITED", "BLOCK"}

BudgetValid(p) ==
  /\ Count(p.maxCount) /\ Count(p.maxNotional)
  /\ p.categories \in Seq(STRING) \ {<<>>} /\ p.reasons \in Seq(STRING) \ {<<>>}

ValidPolicy(p) ==
  /\ RulesValid(p) /\ ControlsValid(p) /\ MaterialValid(p)
  /\ ThesisBreakValid(p) /\ SettlementValid(p) /\ SizingValid(p)
  /\ RiskValid(p) /\ BudgetValid(p) /\ Positive(p.increment)

ASSUME ScaleAssumption == Positive(Ppm) /\ Positive(Unit)
ASSUME PolicyAssumption == ValidPolicy(Policy)
ASSUME NoneAssumption == None \notin Int /\ None \notin States

-----------------------------------------------------------------------------
(* Eligibility. A context holds what is known of one security: its score,  *)
(* the opportunity signal, whether it is held, its sector coverage and the *)
(* flags that fired.                                                       *)

OpportunityBlocks(r, c) ==
  /\ {r.opportunityMin, r.opportunityMax} # {None}
  /\ c.opportunity = None

InBand(x, low, high) == (low # None => x >= low) /\ (high # None => x <= high)

RuleMatches(r, c) ==
  /\ c.scored
  /\ InBand(c.conviction, r.convictionMin, r.convictionMax)
  /\ c.quality >= r.qualityMin
  /\ c.agreement # None /\ c.agreement >= r.agreementMin
  /\ r.trajectories = {} \/ c.trajectory \in r.trajectories
  /\ r.position = "ABSENT" => ~c.present
  /\ r.position = "PRESENT" => c.present
  /\ c.opportunity # None =>
       InBand(c.opportunity, r.opportunityMin, r.opportunityMax)

Fires(r, c) ==
  IF r.trigger = "SCORE_BAND" THEN OpportunityBlocks(r, c) \/ RuleMatches(r, c)
  ELSE r.trigger \in c.flags

NoRule == [status |-> "INELIGIBLE", to |-> None, trigger |-> None]

\* The rule of lowest priority number that the sector's coverage admits and
\* that fires decides; a band that needs an unknown opportunity decides UNKNOWN.
Eligibility(state, c) ==
  LET own == {r \in Policy.rules : r.from = state}
      covered == {r \in own : c.coverage \in r.coverage}
      firing == {r \in covered : Fires(r, c)}
      first == CHOOSE r \in firing : \A q \in firing : r.priority <= q.priority
  IN IF own # {} /\ covered = {} THEN [NoRule EXCEPT !.status = "BLOCKED"]
     ELSE IF firing = {} THEN NoRule
     ELSE [status |-> IF first.trigger = "SCORE_BAND" /\ OpportunityBlocks(first, c)
                        THEN "UNKNOWN" ELSE "PASS",
           to |-> first.to, trigger |-> first.trigger]

-----------------------------------------------------------------------------
(* Risk. The inputs of one decision: direction, what the snapshot knows    *)
(* (nav, cash, holdings, the holding's quantity, sellable and valuation),  *)
(* the market input and the measures of the price ledger.                  *)

\* An input that is missing, stale or from the future blocks.
Untrusted(i) ==
  LET common == (IF i.nav # "KNOWN" THEN {"nav"} ELSE {})
        \cup (IF i.price # "KNOWN" THEN {"mark"} ELSE {})
        \cup (IF i.liquidity # "KNOWN" THEN {"liquidity"} ELSE {})
        \cup (IF i.age \notin 0..Policy.priceStale THEN {"stale"} ELSE {})
      buy == (IF i.cash # "KNOWN" THEN {"cash"} ELSE {})
        \cup (IF i.sector = None THEN {"sector"} ELSE {})
        \cup (IF i.holdings # "KNOWN" THEN {"holdings"} ELSE {})
        \cup (IF i.present /\ i.quantity # "KNOWN" THEN {"quantity"} ELSE {})
        \cup (IF i.volatility = None THEN {"volatility"} ELSE {})
        \cup (IF i.returns < Policy.minReturns THEN {"returns"} ELSE {})
      sell == (IF i.quantity # "KNOWN" THEN {"quantity"} ELSE {})
        \cup (IF i.sellable # "KNOWN" THEN {"sellable"} ELSE {})
        \cup (IF i.valuation # "KNOWN" THEN {"valuation"} ELSE {})
  IN common \cup (IF i.direction = "BUY" THEN buy ELSE sell)

Distance(a, b) == IF a < b THEN b - a ELSE a - b

\* An increase must agree with the liquidity the price ledger measured.
LiquidityReconciles(i) ==
  /\ i.ledgerAdv # None
  /\ Policy.valuationTolerance > 0 =>
       /\ i.ledgerAdv > 0
       /\ (Distance(i.adv, i.ledgerAdv) * Ppm) \div i.ledgerAdv
            <= Policy.valuationTolerance

\* Other holdings heavy enough to matter whose correlation is unknown.
Unassessable(i) ==
  {h \in i.others : h.weight >= Policy.minCorrelated /\ h.correlation = None}

CorrelatedBook(i) ==
  MapThenSumSet(LAMBDA h : h.weight,
    {h \in i.others : /\ h.weight >= Policy.minCorrelated
                      /\ h.correlation # None
                      /\ h.correlation >= Policy.correlationThreshold})

Room(limit, used) == IF limit > used THEN limit - used ELSE 0

\* The caps an increase is clipped to.
Clips(i) ==
  {Policy.maxPosition,
   i.weight + Room(Policy.maxSector, i.sectorWeight),
   i.weight + Room(Policy.maxBook, i.bookWeight),
   Room(Policy.maxCorrelated, CorrelatedBook(i)),
   IF i.volatility > Policy.maxVolatility
     THEN (Policy.maxPosition * Policy.maxVolatility) \div i.volatility
     ELSE Policy.maxPosition,
   (i.adv * Policy.maxAdvDays) \div i.navValue}

\* evaluate: unknowns block an increase; for a decrease an unknown volatility
\* or correlation limits, or blocks where the policy says so.
Risk(i) ==
  IF Policy.seamRequired \/ Untrusted(i) # {} THEN "BLOCKED"
  ELSE IF i.direction = "BUY"
    THEN IF LiquidityReconciles(i) /\ Unassessable(i) = {} THEN "PASS" ELSE "BLOCKED"
    ELSE IF i.volatility # None /\ Unassessable(i) = {} THEN "PASS"
         ELSE IF Policy.unknownDecrease = "BLOCK" THEN "BLOCKED" ELSE "LIMITED"

-----------------------------------------------------------------------------
(* Sizing.                                                                 *)

Floor(x, step) == (x \div step) * step
Least(a, b) == IF a < b THEN a ELSE b
BandValue(bands, x) == SelectSeq(bands, LAMBDA b : b.min <= x)[1].value
Notional(quantity, mark) == (quantity * mark) \div Unit

NoAction(current, held) ==
  [action |-> None, to |-> None, current |-> current, target |-> current,
   quantity |-> 0, completion |-> held, notional |-> 0]

\* The band's target times three multipliers, floored once.
RawTarget(score) ==
  Floor((BandValue(Policy.convictionBands, score.conviction)
        * BandValue(Policy.qualityBands, score.quality)
        * BandValue(Policy.agreementBands,
                    IF score.agreement = None THEN 0 ELSE score.agreement)
        * Policy.trajectoryMultiplier[score.trajectory])
        \div (Ppm * Ppm * Ppm), Policy.weightIncrement)

SizeBuy(to, score, weight, held, nav, mark, clips, cash) ==
  LET target == Floor(Min(clips \cup {RawTarget(score)}), Policy.weightIncrement)
      wanted == Least(((target - weight) * nav) \div Ppm, cash)
      quantity == Floor((wanted * Unit) \div mark, Policy.increment)
      notional == Notional(quantity, mark)
  IN IF \/ target <= weight
        \/ wanted < Policy.minNotional
        \/ quantity <= 0
        \/ notional < Policy.minNotional
     THEN NoAction(weight, held)
     ELSE [action |-> "BUY", to |-> to, current |-> weight, target |-> target,
           quantity |-> quantity, completion |-> held + quantity,
           notional |-> notional]

\* A trim's quantity, from the weight it should shed.
TrimQuantity(weight, nav, mark) ==
  LET target == Floor((weight * Policy.trimFraction) \div Ppm, Policy.weightIncrement)
  IN Floor(((((weight - target) * nav) \div Ppm) * Unit) \div mark, Policy.increment)

\* What the participation cap leaves of an order, in notional and quantity.
CappedNotional(quantity, mark, adv) ==
  Least(Notional(quantity, mark), (adv * Policy.maxParticipation) \div Ppm)
CappedQuantity(quantity, mark, adv) ==
  Least(quantity,
        Floor((CappedNotional(quantity, mark, adv) * Unit) \div mark, Policy.increment))

\* The weight left after selling quantity.
WeightLeft(weight, quantity, mark, nav) ==
  Room(weight, (quantity * mark * Ppm) \div (nav * Unit))

\* A full exit that cannot sell everything becomes a trim, in the ledger too.
SizeSell(to, weight, held, sellable, nav, mark, adv) ==
  LET shed == Floor((weight * Policy.trimFraction) \div Ppm, Policy.weightIncrement)
      wish == Least(sellable, IF to = "EXIT" THEN sellable
                              ELSE TrimQuantity(weight, nav, mark))
      sold == CappedQuantity(wish, mark, adv)
      notional == IF sold < wish THEN Notional(sold, mark)
                  ELSE CappedNotional(sold, mark, adv)
      left == WeightLeft(weight, sold, mark, nav)
  IN IF \/ to = "TRIM" /\ shed >= weight
        \/ sold <= 0 \/ notional <= 0
        \/ notional < Policy.minNotional
     THEN NoAction(weight, held)
     ELSE [action |-> "SELL",
           to |-> IF to = "EXIT" /\ sold < held THEN "TRIM" ELSE to,
           current |-> weight,
           target |-> IF sold < sellable \/ (to = "EXIT" /\ sold < held) THEN left
                      ELSE IF to = "EXIT" THEN 0 ELSE shed,
           quantity |-> sold, completion |-> held - sold, notional |-> notional]

-----------------------------------------------------------------------------
(* The proposal contract. build_proposal raises unless this holds, and the *)
(* whole run is rolled back.                                               *)

Proposable(z, from, reason, held, sellable, mark) ==
  /\ z.action = "BUY" => /\ <<from, z.to>> \in {<<"WATCH", "ENTER">>, <<"HOLD", "ADD">>}
                         /\ z.target > z.current
  /\ z.action = "SELL" =>
       /\ <<from, z.to>> \in {<<"HOLD", "TRIM">>, <<"HOLD", "EXIT">>, <<"TRIM", "EXIT">>}
       /\ z.target < z.current
       /\ reason \in SellReasons
       /\ z.to = "EXIT" => z.completion = 0
       /\ sellable # None => z.quantity <= sellable /\ sellable <= held
  /\ Positive(z.quantity) /\ Count(z.completion) /\ Positive(z.notional)
  /\ z.notional <= Notional(z.quantity, mark)

-----------------------------------------------------------------------------
(* Admission to the day's budget, draft by draft and each whole.           *)

Rank(list, x) ==
  IF x \in ToSet(list) THEN CHOOSE i \in DOMAIN list : list[i] = x ELSE Len(list) + 1

Category(reason) ==
  CASE reason = "thesis_broken" -> "verified_break"
    [] reason \in {"risk_reduction", "data_integrity", "policy_ineligible"} -> reason
    [] OTHER -> "score_band"

DraftBefore(a, b) ==
  LET ka == <<Rank(Policy.categories, Category(a.reason)), Rank(Policy.reasons, a.reason), a.security>>
      kb == <<Rank(Policy.categories, Category(b.reason)), Rank(Policy.reasons, b.reason), b.security>>
  IN \E i \in 1..3 : ka[i] < kb[i] /\ \A j \in 1..(i - 1) : ka[j] = kb[j]

Spent(set) == MapThenSumSet(LAMBDA z : z.notional, set)
Buys(set) == {z \in set : z.action = "BUY"}

\* Mutant: only the notional cap is enforced.
FitsNotional(b, before, d) ==
  b.notional + Spent(before) + d.notional <= b.maxNotional

\* Whether draft d fits what the day b has left once the drafts of before are
\* admitted: a BUY the day's opening cash less what was bought on it, every draft
\* both caps. What a SELL would free is never credited.
Fits(b, before, d) ==
  /\ d.action = "BUY" /\ b.cash # None => d.notional <= b.cash - Spent(Buys(before))
  /\ b.count + Cardinality(before) + 1 <= b.maxCount
  /\ b.notional + Spent(before) + d.notional <= b.maxNotional

\* admit_drafts: in order, each draft that fits after those admitted before it.
Admitted(b, drafts) ==
  CHOOSE A \in SUBSET drafts :
    \A d \in drafts : d \in A <=> Fits(b, {e \in A : DraftBefore(e, d)}, d)
=============================================================================
