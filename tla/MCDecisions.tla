----------------------------- MODULE MCDecisions -----------------------------
(***************************************************************************)
(* From the stores of the research plane to its decisions, for TLC.  A     *)
(* behaviour chooses one part and the others rest in an initial state:     *)
(* "decisions", engine runs over two securities of one sector, two         *)
(* research cycles, days of two moments (Decisions); "snapshots", copies   *)
(* of the database (Snapshots); "cohort", bootstraps and reconciliations   *)
(* of the universe (Cohort); "backfill", runs of the backfill driver       *)
(* (Backfill). The policy is the shipped one with its thresholds scaled to *)
(* Ppm = 10 and its persistence to two observations.                       *)
(***************************************************************************)
EXTENDS Decisions, Snapshots, Cohort, Backfill, TLC

Rule(n, from, to, trigger, low, high) ==
  [priority |-> n, from |-> from, to |-> to, trigger |-> trigger,
   convictionMin |-> low, convictionMax |-> high, qualityMin |-> 0,
   agreementMin |-> 0, trajectories |-> {}, opportunityMin |-> None,
   opportunityMax |-> None, position |-> "ANY", coverage |-> {"SUPPORTED"}]

Unheld(r) == [r EXCEPT !.position = "ABSENT"]

MCControl(e) ==
  [required |-> IF e \in Actionable THEN 2 ELSE 0,
   cooldown |-> IF e \in {<<"EXIT", "WATCH">>, <<"WATCH", "DISCOVER">>} THEN 1 ELSE 0,
   material |-> e \in Actionable,
   broken |-> e \in {<<"HOLD", "EXIT">>, <<"TRIM", "EXIT">>}]

Single(v) == <<[min |-> 0, value |-> v]>>

MCPolicy ==
  [rules |-> {Rule(5, "HOLD", "EXIT", "VERIFIED_THESIS_BREAK", 0, 10),
              Rule(6, "TRIM", "EXIT", "VERIFIED_THESIS_BREAK", 0, 10),
              Rule(10, "DISCOVER", "WATCH", "SCORE_BAND", 4, 10),
              Rule(15, "HOLD", "EXIT", "DATA_INTEGRITY", 0, 10),
              Rule(16, "HOLD", "EXIT", "POLICY_INELIGIBLE", 0, 10),
              Rule(17, "HOLD", "TRIM", "RISK_REDUCTION", 0, 10),
              Unheld(Rule(20, "WATCH", "DISCOVER", "SCORE_BAND", 0, 3)),
              Unheld([Rule(30, "WATCH", "ENTER", "SCORE_BAND", 6, 10)
                        EXCEPT !.opportunityMin = 3]),
              Rule(40, "HOLD", "ADD", "SCORE_BAND", 9, 10),
              Rule(45, "HOLD", "EXIT", "THESIS_REALISED", 0, 10),
              Rule(50, "HOLD", "TRIM", "OPPORTUNITY_COST", 0, 10)},
   controls |-> [e \in Edges |-> MCControl(e)],
   delta |-> 3,
   direction |-> [e \in Actionable |-> IF e[2] \in {"ENTER", "ADD"} THEN "UP" ELSE "DOWN"],
   methods |-> {"OWNER_ATTESTED"}, breakAge |-> 1, realisedMax |-> 0, costMax |-> 1,
   tolerance |-> 0, pendingMax |-> 1, cadence |-> 1,
   convictionBands |-> <<[min |-> 8, value |-> 4], [min |-> 5, value |-> 2],
                         [min |-> 0, value |-> 0]>>,
   qualityBands |-> Single(10), agreementBands |-> Single(10),
   trajectoryMultiplier |-> [x \in Trajectories |-> 10],
   trimFraction |-> 5, weightIncrement |-> 1, minNotional |-> 1,
   maxPosition |-> 5, maxSector |-> 8, maxBook |-> 9, maxVolatility |-> 10,
   correlationThreshold |-> 8, maxCorrelated |-> 5, minCorrelated |-> 1,
   maxParticipation |-> 10, maxAdvDays |-> 10, valuationTolerance |-> 2,
   priceStale |-> 1, minReturns |-> 1, seamRequired |-> FALSE,
   unknownDecrease |-> "LIMITED", maxCount |-> 1, maxNotional |-> 8,
   categories |-> <<"verified_break", "risk_reduction", "data_integrity",
                    "policy_ineligible", "score_band">>,
   reasons |-> <<"thesis_broken", "risk_reduction", "data_integrity",
                 "policy_ineligible", "thesis_realised", "opportunity_cost",
                 "score_band">>,
   increment |-> 1]

MCSecurities == {1, 2}
MCPipelines == {1, 2}
MCSector == [s \in MCSecurities |-> "tech"]
MCCoverage == [s \in MCSecurities |-> "SUPPORTED"]
MCMeasures == [s \in MCSecurities |-> [volatility |-> 5, adv |-> 10, returns |-> 9]]
MCCorrelation == [s \in MCSecurities |-> [x \in MCSecurities |-> 0]]

-----------------------------------------------------------------------------
(* Ledgers to start with, written by runs before the first moment.         *)

Move(s, from, to, cause, at) ==
  [security |-> s, from |-> from, to |-> to, cause |-> cause, at |-> at, run |-> at - 10]

Order(s, from, to, action, reason, quantity, completion, at) ==
  [security |-> s, day |-> Day(at), at |-> at, run |-> at - 10, from |-> from,
   to |-> to, action |-> action, reason |-> reason, quantity |-> quantity,
   completion |-> completion, notional |-> quantity]

Entered(s) == {Move(s, "DISCOVER", "WATCH", "RULE_PERSISTED", -9),
               Move(s, "WATCH", "ENTER", "RULE_PERSISTED", -7),
               Move(s, "ENTER", "HOLD", "SETTLEMENT", -5)}
Bought(s, n) == Order(s, "WATCH", "ENTER", "BUY", "score_band", n, n, -7)
Trimmed(s) == Move(s, "HOLD", "TRIM", "RULE_PERSISTED", -1)

\* The scores a committee gives: better, as before, worse.
Kind(conviction, trajectory, delta) ==
  [conviction |-> conviction, trajectory |-> trajectory, delta |-> delta, driven |-> TRUE]
Rising == Kind(9, "RISING", 4)
Stable == Kind(9, "STABLE", 0)
Falling == Kind(1, "FALLING", 0)

Seed(moves, orders, cash, held, opportunity, jobs, kinds, bounds) ==
  [transitions |-> moves, proposals |-> orders,
   account |-> [cash |-> cash, held |-> [s \in MCSecurities |-> IF s = 1 THEN held ELSE 0]],
   signal |-> [s \in MCSecurities |-> opportunity],
   bound |-> [jobs |-> jobs, kinds |-> kinds, moments |-> bounds[1], runs |-> bounds[2],
              scores |-> bounds[3], breaks |-> bounds[4], handoffs |-> bounds[5]]]

Watched == {Move(s, "DISCOVER", "WATCH", "RULE_PERSISTED", -5) : s \in MCSecurities}

\* an empty ledger, and nothing happens
QuietSeed == Seed({}, {}, 0, 0, 0, {}, {}, <<1, 0, 0, 0, 0>>)

MCSeeds ==
  {\* two watched securities compete for the day
   Seed(Watched, {}, 10, 0, 5, {}, {Rising}, <<3, 2, 2, 0, 0>>),
   \* evidence gathers over days
   Seed(Watched, {}, 10, 0, 5, {}, {Stable}, <<3, 3, 2, 0, 0>>),
   \* an operator's order is exported by the finalizer, executed and settled
   Seed(Watched, {}, 10, 0, 5, Jobs, {Rising}, <<3, 2, 1, 0, 1>>),
   \* a holding too heavy, or one whose thesis may break, is sold
   Seed(Entered(1), {Bought(1, 6)}, 4, 6, 5, {}, {Rising, Falling}, <<3, 3, 1, 0, 0>>),
   Seed(Entered(1), {Bought(1, 4)}, 6, 4, 0, {}, {Falling}, <<3, 2, 1, 1, 0>>),
   \* a trim settles, with or without a broken thesis
   Seed(Entered(1) \cup {Trimmed(1)},
        {Bought(1, 4), Order(1, "HOLD", "TRIM", "SELL", "opportunity_cost", 2, 2, -1)},
        8, 2, 5, {}, {}, <<3, 3, 0, 1, 0>>),
   QuietSeed}

MCViews ==
  {[cash |-> TRUE, zeros |-> FALSE, price |-> "KNOWN", adv |-> 10]}

-----------------------------------------------------------------------------
(* Cohort: samples that rename a security, replace it, or name it twice.   *)
Row(c, t) == [cik |-> c, ticker |-> t]
MCSamples == {<<Row(1, "A"), Row(1, "AA")>>, <<Row(2, "B"), Row(1, "A")>>,
              <<Row(1, "AA"), Row(2, "B")>>, <<Row(2, "B")>>}

-----------------------------------------------------------------------------
\* Calls of the bootstrap are interchangeable, and so are drivers.
Interchangeable == Permutations(BootCalls) \cup Permutations(Drivers)

VARIABLE part

PlaneInit ==
  /\ part \in {"decisions", "snapshots", "cohort", "backfill"}
  /\ Init /\ SnapshotInit /\ CohortInit /\ BackfillInit
  /\ part # "decisions" <=> bound = QuietSeed.bound
  /\ part # "cohort" => \A c \in Ciks : member[c] = <<>>

DecisionsMove ==
  part = "decisions" /\ Next /\ UNCHANGED <<part, snapshotVars, cohortVars, backfillVars>>
SnapshotsMove ==
  part = "snapshots" /\ SnapshotNext /\ UNCHANGED <<part, vars, cohortVars, backfillVars>>
CohortMoves ==
  part = "cohort" /\ CohortNext /\ UNCHANGED <<part, vars, snapshotVars, backfillVars>>
BackfillMoves ==
  part = "backfill" /\ BackfillNext /\ UNCHANGED <<part, vars, snapshotVars, cohortVars>>

PlaneSpec ==
  /\ PlaneInit
  /\ [][DecisionsMove \/ SnapshotsMove \/ CohortMoves \/ BackfillMoves]_<<part, vars,
        snapshotVars, cohortVars, backfillVars>>
=============================================================================
