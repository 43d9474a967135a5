--------------------------- MODULE PortfolioEngine ---------------------------
(***************************************************************************)
(* PortfolioEngine.run of tradehub_research/portfolio/engine.py with       *)
(* state.py and the activity day of budget.py: one run decides every       *)
(* candidate security from the scores, the ledger of state transitions,    *)
(* the observations and a portfolio snapshot, admits what the day's budget *)
(* allows and writes observations, transitions and proposals.              *)
(*                                                                         *)
(* A run is one BEGIN IMMEDIATE transaction, so it is one action; a        *)
(* ValueError anywhere in it rolls the whole run back. decision_as_of is   *)
(* the caller's: runs may arrive in an order that is not that of time.     *)
(***************************************************************************)
EXTENDS PortfolioRules

CONSTANTS
  Securities, \* numbers, in the order of their identifiers
  Pipelines,  \* research cycles, in the order of their run ids
  LastTime,   \* the last moment of the model
  PerDay,     \* moments of one calendar day
  Mark,       \* mark price of every security
  Sector,     \* security |-> its sector
  Coverage,   \* security |-> its sector's coverage status
  Measures,   \* security |-> volatility, adv and returns of the price ledger
  Correlation,\* security |-> security |-> their correlation
  Delisted    \* securities delisted before the first moment

ASSUME BoundsAssumption == LastTime \in Nat /\ PerDay \in Nat \ {0}
ASSUME PipelinesAssumption == Pipelines \subseteq Nat
ASSUME SecuritiesAssumption == Securities \subseteq Nat /\ IsFiniteSet(Securities)

VARIABLES
  scores,       \* score_snapshot rows: at most one per pipeline and security
  signal,       \* security |-> remaining opportunity of its signal input
  breaks,       \* thesis_break_verification rows
  transitions,  \* portfolio_state_transition rows
  observations, \* portfolio_state_observation rows
  proposals,    \* trade_proposal rows
  days,         \* portfolio_activity_day: day |-> the cash it was bound to
  runs          \* portfolio_run rows

inputs == <<scores, signal, breaks>>
tables == <<transitions, observations, proposals, days, runs>>

Times == 1..LastTime
Day(t) == (t - 1) \div PerDay
Days == {Day(t) : t \in Times}
Unbound == -1 \* no cash is negative
Start == -100 \* before every row: the epoch of a state never entered

Round(a, b) ==
  LET q == a \div b r == a % b
  IN IF 2 * r > b \/ (2 * r = b /\ q % 2 = 1) THEN q + 1 ELSE q

\* A snapshot has a moment, cash (or None), rows for the holdings it lists with
\* what is held and sellable of each (nothing, where there is no row), market
\* inputs for the securities priced, and the price's status and adv of those.
\* Value and weight of a holding in a snapshot, and the snapshot's NAV.
ValueOf(snap, s) == Notional(snap.held[s], Mark)
Book(snap) == MapThenSumSet(LAMBDA s : ValueOf(snap, s), Securities)
Nav(snap) == IF snap.cash = None THEN None ELSE snap.cash + Book(snap)
\* build_snapshot: cash is never negative and a known NAV is positive.
Valid(snap) == snap.cash # None => snap.cash >= 0 /\ Nav(snap) > 0
Weight(snap, s) ==
  IF Nav(snap) \in {None, 0} THEN 0 ELSE Round(ValueOf(snap, s) * Ppm, Nav(snap))
WeightOf(snap, set) == MapThenSumSet(LAMBDA s : Weight(snap, s), set)
SectorWeight(snap, s) == WeightOf(snap, {x \in Securities : Sector[x] = Sector[s]})

-----------------------------------------------------------------------------
(* What a run reads.                                                       *)

\* The scores of a pipeline computed by the decision time.
Pinned(p, t) == {z \in scores : z.pipeline = p /\ z.at <= t}
ScoreOf(p, s, t) == {z \in Pinned(p, t) : z.security = s}

Implicit == [security |-> None, from |-> None, to |-> "DISCOVER",
             cause |-> None, at |-> None, run |-> None]

\* current_state: the newest transition at or before t, else DISCOVER.
Latest(s, t) ==
  LET rows == {x \in transitions : x.security = s /\ x.at <= t}
  IN IF rows = {} THEN Implicit
     ELSE CHOOSE x \in rows : \A y \in rows : y.at <= x.at

Candidates(p, t, snap) ==
  {z.security : z \in Pinned(p, t)} \cup snap.rows
    \cup {s \in Securities : /\ \E x \in transitions : x.security = s /\ x.at < t
                             /\ Latest(s, t).to # "DISCOVER"}

\* The newest verification of a security's break decides, if it is fresh.
VerifiedBreak(s, t) ==
  LET rows == {b \in breaks : b.security = s /\ b.at <= t}
  IN \E b \in rows : /\ \A c \in rows : c.at <= b.at
                     /\ b.verified /\ b.method \in Policy.methods
                     /\ Day(t) - Day(b.at) <= Policy.breakAge

\* cooldown_satisfied, in calendar days of the model.
Cool(entered, t, days_) == days_ = 0 \/ entered = None \/ t >= entered + days_ * PerDay

-----------------------------------------------------------------------------
(* Persistence: consecutive observations of distinct evidence, at most one *)
(* per cadence interval, since the state was entered.                      *)

Earlier(o, q) == o.at < q.at \/ (o.at = q.at /\ o.run < q.run)

\* Kept, in order: each that follows those kept before it by the cadence.
Cadenced(rows) ==
  CHOOSE K \in SUBSET rows :
    \A o \in rows :
      o \in K <=> \A q \in K : Earlier(q, o) => Day(o.at) - Day(q.at) >= Policy.cadence

\* The first observation of each evidence.
Distinct(rows) ==
  {o \in rows : \A q \in rows : Earlier(q, o) => q.evidence # o.evidence}

Trailing(rows, to) ==
  {o \in rows : \A q \in rows : Earlier(o, q) \/ q = o => q.status = "PASS" /\ q.state = to}

Epoch(s, state, t) ==
  Max({Start} \cup {x.at : x \in {y \in transitions :
                                y.security = s /\ y.to = state /\ y.at <= t}})

\* The evidence driven observations that count, with the present one.
Counted(s, state, t, now) ==
  {o \in observations : o.security = s /\ o.driven /\ o.at > Epoch(s, state, t) /\ o.at < t}
    \cup (IF now.driven THEN {now} ELSE {})

\* Mutant: reruns over the same evidence count.
PersistenceOfRuns(s, state, to, t, now) ==
  IF now.evidence = None THEN 0 ELSE Cardinality(Trailing(Counted(s, state, t, now), to))

Persistence(s, state, to, t, now) ==
  IF now.evidence = None THEN 0
  ELSE Cardinality(Trailing(Distinct(Cadenced(Counted(s, state, t, now))), to))

\* A large move of an evidence driven score, newer than the state.
MaterialChange(edge, set, entered) ==
  \E z \in set : /\ z.driven /\ z.delta # None
                 /\ \/ Policy.direction[edge] = "UP" /\ z.delta >= Policy.delta
                    \/ Policy.direction[edge] = "DOWN" /\ -z.delta >= Policy.delta
                 /\ entered # None /\ z.changed > entered

-----------------------------------------------------------------------------
(* One decision.                                                           *)

Flags(s, t, snap) ==
  (IF VerifiedBreak(s, t) THEN {"VERIFIED_THESIS_BREAK"} ELSE {})
  \cup (IF s \in Delisted THEN {"POLICY_INELIGIBLE"} ELSE {})
  \cup (IF snap.held[s] > 0 /\ s \in snap.priced /\ snap.price # "KNOWN"
          THEN {"DATA_INTEGRITY"} ELSE {})
  \cup (IF signal[s] # None /\ signal[s] <= Policy.realisedMax
          THEN {"THESIS_REALISED"} ELSE {})
  \cup (IF signal[s] # None /\ signal[s] <= Policy.costMax
          THEN {"OPPORTUNITY_COST"} ELSE {})
  \cup (IF /\ s \in snap.rows /\ Nav(snap) # None
            /\ \/ Weight(snap, s) > Policy.maxPosition
               \/ Sector[s] # None /\ SectorWeight(snap, s) > Policy.maxSector
          THEN {"RISK_REDUCTION"} ELSE {})

\* _eligibility_context; set is the security's pinned score, or empty.
Context(s, set, t, snap, present) ==
  LET z == IF set = {} THEN None ELSE CHOOSE x \in set : TRUE
  IN [scored |-> set # {}, present |-> present, coverage |-> Coverage[s],
      opportunity |-> signal[s], flags |-> Flags(s, t, snap),
      conviction |-> IF set = {} THEN None ELSE z.conviction,
      quality |-> IF set = {} THEN None ELSE z.quality,
      agreement |-> IF set = {} THEN None ELSE z.agreement,
      trajectory |-> IF set = {} THEN None ELSE z.trajectory]

RiskInputs(s, to, t, snap) ==
  LET known(x) == IF x = None THEN "UNKNOWN" ELSE "KNOWN" IN
  [direction |-> Direction(to), present |-> snap.held[s] > 0,
   nav |-> known(Nav(snap)), navValue |-> Nav(snap), cash |-> known(snap.cash),
   sector |-> Sector[s], holdings |-> "KNOWN", quantity |-> "KNOWN",
   sellable |-> IF s \in snap.rows THEN "KNOWN" ELSE "UNKNOWN",
   valuation |-> known(Nav(snap)),
   price |-> IF s \in snap.priced THEN snap.price ELSE "UNKNOWN",
   liquidity |-> IF s \in snap.priced THEN known(snap.adv) ELSE "UNKNOWN",
   age |-> Day(t) - Day(snap.at), adv |-> snap.adv,
   ledgerAdv |-> Measures[s].adv, volatility |-> Measures[s].volatility,
   returns |-> Measures[s].returns, weight |-> Weight(snap, s),
   sectorWeight |-> SectorWeight(snap, s),
   bookWeight |-> WeightOf(snap, Securities \ {s}),
   others |-> {[security |-> x, weight |-> Weight(snap, x),
                correlation |-> Correlation[s][x]] :
                 x \in snap.rows \ {s}}]

Size(s, to, set, snap, t) ==
  LET w == Weight(snap, s) IN
  IF to \in {"ENTER", "ADD"}
    THEN SizeBuy(to, CHOOSE z \in set : TRUE, w, snap.held[s], Nav(snap), Mark,
                 Clips(RiskInputs(s, to, t, snap)), snap.cash)
    ELSE SizeSell(to, w, snap.held[s], snap.sellable[s], Nav(snap), Mark, snap.adv)

\* A decision that moves nothing.
Stay(s, state, now, status, to) ==
  [security |-> s, from |-> state, to |-> None, cause |-> None, draft |-> {},
   obs |-> [now EXCEPT !.status = status, !.state = to], error |-> FALSE]

\* Why a state may change: a verified break, persistence, a material change.
CauseOf(s, edge, verdict, set, head, t, now) ==
  LET c == Policy.controls[edge] IN
  IF verdict.trigger = "VERIFIED_THESIS_BREAK" /\ c.broken THEN "VERIFIED_THESIS_BREAK"
  ELSE IF ~Cool(head.at, t, c.cooldown) THEN None
  ELSE IF Persistence(s, edge[1], edge[2], t, now) >= c.required THEN "RULE_PERSISTED"
  ELSE IF c.material /\ MaterialChange(edge, set, head.at) THEN "MATERIAL_CHANGE"
  ELSE None

\* pending_resolution: filled or stale, else the state waits. A state whose
\* proposal is not recorded can only go stale; one whose proposal is recorded
\* waits as long as the snapshot lists no holding, however old it is.
Resolution(s, head, t, snap) ==
  LET own == {z \in proposals : z.run = head.run /\ z.security = s}
      filled == \E z \in own :
        IF head.to \in {"ENTER", "ADD"} THEN snap.held[s] >= z.completion - Policy.tolerance
        ELSE snap.held[s] <= z.completion + Policy.tolerance
      stale == Policy.pendingMax > 0 /\ Day(t) - Day(head.at) > Policy.pendingMax
  IN IF own = {} \/ s \in snap.rows
     THEN IF filled THEN (CASE head.to = "EXIT" -> "WATCH"
                            [] head.to = "TRIM" -> "CANDIDATE"
                            [] OTHER -> "HOLD")
          ELSE IF ~stale THEN "WAIT" ELSE IF head.to = "EXIT" THEN "WATCH" ELSE "HOLD"
     ELSE "WAIT"

\* _settle. A filled trim may go on to EXIT: a transition without a proposal.
Settle(s, head, set, t, snap, now) ==
  LET outcome == Resolution(s, head, t, snap)
      verdict == Eligibility("TRIM", Context(s, set, t, snap, TRUE))
      passing == [now EXCEPT !.status = "PASS", !.state = "EXIT"]
      cause == IF verdict.status = "PASS" /\ verdict.to = "EXIT"
                 THEN (IF verdict.trigger = "VERIFIED_THESIS_BREAK"
                         /\ ~Policy.controls[<<"TRIM", "EXIT">>].broken THEN None
                       ELSE CauseOf(s, <<"TRIM", "EXIT">>, verdict, set, head, t, passing))
               ELSE None
      to == IF outcome # "CANDIDATE" THEN outcome
            ELSE IF cause # None THEN "EXIT" ELSE "HOLD"
  IN IF outcome = "WAIT" THEN Stay(s, head.to, now, "INELIGIBLE", head.to)
     ELSE [Stay(s, head.to, now, "INELIGIBLE", to) EXCEPT
             !.to = to,
             !.cause = IF to = "EXIT" THEN cause ELSE "SETTLEMENT"]

\* The draft of what was sized, and whether the proposal contract refuses it.
Drafted(s, from, z, reason, cause, stay, t, snap) ==
  IF z.action = None THEN stay
  ELSE [stay EXCEPT
          !.to = z.to, !.cause = cause,
          !.draft = {[security |-> s, day |-> Day(t), at |-> t, run |-> stay.obs.run,
                      from |-> from, to |-> z.to, action |-> z.action,
                      reason |-> reason, quantity |-> z.quantity,
                      completion |-> z.completion, notional |-> z.notional]},
          !.error = ~Proposable(z, from, reason, snap.held[s],
                                IF s \in snap.rows THEN snap.sellable[s] ELSE None,
                                Mark)]

\* An edge that carries an order: risk, size, then the proposal contract.
Propose(s, from, verdict, cause, set, t, snap, now) ==
  LET stay == Stay(s, from, now, "PASS", verdict.to)
      reason == Reason[verdict.trigger]
  IN IF \/ Direction(verdict.to) = "SELL" /\ reason = "score_band"
        \/ Risk(RiskInputs(s, verdict.to, t, snap)) = "BLOCKED"
     THEN stay
     ELSE Drafted(s, from, Size(s, verdict.to, set, snap, t), reason, cause, stay,
                  t, snap)

\* _decide.
Decide(p, s, t, snap, id) ==
  LET set == ScoreOf(p, s, t)
      head == Latest(s, t)
      now == [security |-> s, run |-> id, at |-> t, status |-> "UNKNOWN", state |-> head.to,
              score |-> IF set = {} THEN None ELSE <<p, s>>,
              driven |-> \E z \in set : z.driven,
              evidence |-> IF set = {} THEN None ELSE (CHOOSE z \in set : TRUE).evidence]
      verdict == Eligibility(head.to, Context(s, set, t, snap, snap.held[s] > 0))
      edge == <<head.to, verdict.to>>
      passing == [now EXCEPT !.status = "PASS", !.state = verdict.to]
      cause == CauseOf(s, edge, verdict, set, head, t, passing)
      \* a break that acts without a score is recorded under its own
      acting == IF cause = "VERIFIED_THESIS_BREAK" /\ set = {}
                  THEN [now EXCEPT !.score = <<None, s>>] ELSE now
  IN IF head.to \in Pending THEN Settle(s, head, set, t, snap, now)
     ELSE IF verdict.status # "PASS"
       THEN Stay(s, head.to, now, verdict.status,
                 IF verdict.to = None THEN head.to ELSE verdict.to)
     ELSE IF cause = None THEN Stay(s, head.to, now, "PASS", verdict.to)
     ELSE IF edge \notin Actionable
       THEN [Stay(s, head.to, acting, "PASS", verdict.to) EXCEPT
               !.to = verdict.to, !.cause = cause]
     ELSE Propose(s, head.to, verdict, cause, set, t, snap, acting)

-----------------------------------------------------------------------------
(* One run.                                                                *)

OnDay(d) == {z \in proposals : z.day = d}

\* bind_day: the first run of a day fixes its cash; a run with another fails.
BindsDay(t, snap) ==
  days[Day(t)] \in {Unbound, snap.cash} \/ (snap.cash = None /\ days[Day(t)] # Unbound)

ActivityBudget(t, snap) ==
  LET opening == IF days[Day(t)] = Unbound THEN snap.cash ELSE days[Day(t)]
      used == OnDay(Day(t))
  IN [count |-> Cardinality(used), notional |-> Spent(used),
      cash |-> IF opening = None THEN None ELSE opening - Spent(Buys(used)),
      maxCount |-> Policy.maxCount, maxNotional |-> Policy.maxNotional]

\* The inputs and prior rows a run is identified by; its own rows carry its
\* moment and so are never among them.
Identity(p, t, snap) ==
  LET cs == Candidates(p, t, snap) IN
  [pipeline |-> p, at |-> t, snapshot |-> snap, scores |-> Pinned(p, t),
   heads |-> {x \in transitions : x.security \in cs /\ x.at < t
                /\ \A y \in transitions : y.security = x.security /\ y.at < t => y.at <= x.at},
   seen |-> {[run |-> o.run, security |-> o.security] : o \in
               {q \in observations : q.security \in cs /\ q.driven /\ q.at < t}},
   broken |-> {b \in breaks : b.security \in cs /\ b.at <= t},
   prior |-> {[run |-> z.run, security |-> z.security] : z \in
                {q \in OnDay(Day(t)) : q.at < t}}]

\* Mutant: a transition is appended whatever the head of the ledger is.
ChainsAnywhere(d, t) == <<d.from, d.to>> \in Edges

\* _write_transition: strictly after the newest row, and from its state.
Chains(d, t) ==
  LET last == Latest(d.security, LastTime) IN
  last.run = None \/ (t > last.at /\ last.to = d.from)

\* Mutant: the transition of a draft the budget refused is written too.
WrittenAnyway(D, admitted) == {d \in D : d.to # None}

Written(D, admitted) ==
  {d \in D : d.to # None /\ d.draft \subseteq admitted}

\* The transaction of run id over the decisions D of the candidates.
Ran(id, p, t, snap, D) ==
  LET drafts == UNION {d.draft : d \in D}
      admitted == Admitted(ActivityBudget(t, snap), drafts)
      written == Written(D, admitted)
      same == {r \in runs : r.identity = Identity(p, t, snap)}
  IN IF snap.at > t THEN [status |-> "ERROR", run |-> None]
     ELSE IF same # {} THEN [status |-> "REUSED", run |-> (CHOOSE r \in same : TRUE).id]
     ELSE IF \/ ~BindsDay(t, snap) \/ (\E d \in D : d.error)
             \/ \E d \in written : ~Chains(d, t)
          THEN [status |-> "ERROR", run |-> None]
     ELSE [status |-> "COMPLETE", run |-> id, observed |-> {d.obs : d \in D},
           admitted |-> admitted,
           moved |-> {[security |-> d.security, from |-> d.from, to |-> d.to,
                       cause |-> d.cause, at |-> t, run |-> id] : d \in written}]

Outcome(p, t, snap) ==
  LET id == Cardinality(runs) + 1
  IN Ran(id, p, t, snap,
         {Decide(p, s, t, snap, id) : s \in Candidates(p, t, snap)})

\* Write a COMPLETE outcome; a reused or failed run writes nothing.
Commit(p, t, snap, o) ==
  IF o.status = "COMPLETE"
  THEN /\ transitions' = transitions \cup o.moved
       /\ observations' = observations \cup o.observed
       /\ proposals' = proposals \cup o.admitted
       /\ days' = [days EXCEPT ![Day(t)] = IF @ = Unbound THEN snap.cash ELSE @]
       /\ runs' = runs \cup {[id |-> o.run, identity |-> Identity(p, t, snap),
                              covered |-> {x.score : x \in o.observed} \ {None}]}
  ELSE UNCHANGED tables
=============================================================================
