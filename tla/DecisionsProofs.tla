--------------------------- MODULE DecisionsProofs ---------------------------
(***************************************************************************)
(* Proofs about Decisions.tla, for any policy that validates, any          *)
(* securities, pipelines and moments, and any ledger that is a chain to    *)
(* start with.                                                             *)
(*                                                                         *)
(* The authority record comes before the envelope on every path, and the   *)
(* locals of a job that died hold no proposal it has not published         *)
(* (ExportOK). The ledger stays one chain because every decision takes a   *)
(* canonical edge (DecideMoves) and a run appends only after the newest    *)
(* row of its security and from its state (CommitChains), at a moment      *)
(* that is one of the model's: the finalizer only decides score sets that  *)
(* are not empty (FinalizerOK).                                            *)
(*                                                                         *)
(* A day stays within its budget because the drafts of a run are admitted  *)
(* against what every earlier run of that day has proposed, within the     *)
(* transaction that appends them (AdmittedWithin, CommitKeepsMoney); that  *)
(* admission has an answer for every set of drafts is GreedyExists. What   *)
(* is spent is a sum over a set, whose laws Sums.tla gives (SpentLaws).    *)
(*                                                                         *)
(* An order taken for persistence is earned because what persistence       *)
(* counts is a cadence apart and of distinct evidence (CountedApart), was  *)
(* observed since the newest row of the ledger (EpochCovers), and stays    *)
(* observed (CommitKeepsEvidence). EvidenceOK is inductive beside          *)
(* DecisionsInv, not part of it: nothing in DecisionsInv needs it.         *)
(***************************************************************************)
EXTENDS Decisions, Sums

\* A job always has its program point and its locals.
Shaped(q) == q = [pc |-> q.pc, pipeline |-> q.pipeline, todo |-> q.todo, set |-> q.set,
                  run |-> q.run, left |-> q.left, proposal |-> q.proposal]
JobsOK ==
  /\ DOMAIN job = Jobs /\ job = [j \in Jobs |-> job[j]]
  /\ \A j \in Jobs : Shaped(job[j])

\* What has an envelope, or is about to get one, was proposed and authorised.
ExportOK ==
  /\ EnvelopeIsAuthorised
  /\ \A j \in Jobs : job[j].pc = "envelope" =>
                       job[j].proposal \in authority \cap proposals

\* Scores and handoffs carry moments of the model.
MomentsOK ==
  /\ now \in Times /\ bound.moments \in Times
  /\ \A z \in scores : z.at \in Times /\ z.pipeline \in Pipelines
  /\ \A h \in history : h.at \in Times

\* The finalizer's work list names pipelines that have scores, and the score
\* set it looks for is one of theirs.
FinalizerOK ==
  /\ job["finalizer"].todo \subseteq {z.pipeline : z \in scores}
  /\ job["finalizer"].pc = "find" =>
       /\ job["finalizer"].set \subseteq scores
       /\ job["finalizer"].set # {}

\* Transitions are dated within the model and carry the run that wrote them.
RowsOK == \A x \in transitions : x.at \in Int /\ x.at <= LastTime /\ x.run \in Int

LedgerOK == RowsOK /\ LedgerIsChain /\ PendingHasProposal /\ IsFiniteSet(runs)

\* What is known of the account and of the securities scored: an engine run
\* decides securities of the universe, with cash that is a number.
CashOK ==
  /\ account.cash \in Int
  /\ \A h \in history : h.cash \in Int /\ h.rows \subseteq Securities
  /\ \A z \in scores : z.security \in Securities

\* A day no run has bound has no proposals; the others keep within their limits.
BudgetOK ==
  /\ \A z \in proposals : z.notional \in Nat
  /\ DOMAIN days = Days /\ days = [d \in Days |-> days[d]]
  /\ \A d \in Days : /\ IsFiniteSet(OnDay(d))
                     /\ days[d] \in Nat \cup {Unbound, None}
                     /\ days[d] = Unbound => OnDay(d) = {}
  /\ DayBudgetHolds

MoneyOK == CashOK /\ BudgetOK /\ ProposalMovedLedger

\* The inductive invariant.
DecisionsInv == JobsOK /\ ExportOK /\ MomentsOK /\ FinalizerOK /\ LedgerOK /\ MoneyOK

\* A run dates what it observes and signs it, once per security.
EvidenceOK ==
  /\ IsFiniteSet(observations)
  /\ \A o \in observations : o.at \in Int /\ o.run \in Int /\ o.run <= Cardinality(runs)
  /\ \A o, q \in observations : o.security = q.security /\ o.run = q.run => o = q
  /\ OrdersAreEarned

-----------------------------------------------------------------------------
(* Every decision takes a canonical edge.                                  *)

\* A finite set of rules has one of lowest priority number.
LEMMA FirstRuleExists ==
  ASSUME NEW R, IsFiniteSet(R), R # {}, \A r \in R : r.priority \in Int
  PROVE  \E r \in R : \A q \in R : r.priority <= q.priority
<1> DEFINE later == {e \in R \X R : e[2].priority < e[1].priority}
<1>1. \A r, q \in R : <<r, q>> \in later <=> q.priority < r.priority
  OBVIOUS
<1> HIDE DEF later
<1>2. \A r \in R : <<r, r>> \notin later
  BY <1>1
<1>3. \A x, y, z \in R : <<x, y>> \in later /\ <<y, z>> \in later => <<x, z>> \in later
  <2> SUFFICES ASSUME NEW x \in R, NEW y \in R, NEW z \in R, <<x, y>> \in later, <<y, z>> \in later
               PROVE  <<x, z>> \in later
    OBVIOUS
  <2>1. y.priority < x.priority /\ z.priority < y.priority
    BY <1>1
  <2>2. x.priority \in Int /\ y.priority \in Int /\ z.priority \in Int
    OBVIOUS
  <2>3. z.priority < x.priority
    BY <2>1, <2>2
  <2> QED BY <2>3, <1>1
<1>4. PICK r \in R : \A q \in R : <<r, q>> \notin later
  BY <1>2, <1>3, LastExists
<1>5. \A q \in R : ~(q.priority < r.priority)
  BY <1>1, <1>4
<1>6. ASSUME NEW q \in R PROVE r.priority <= q.priority
  <2>1. r.priority \in Int /\ q.priority \in Int
    OBVIOUS
  <2> QED BY <1>5, <2>1
<1> QED BY <1>6

LEMMA EligibilityEdges ==
  ASSUME NEW state, NEW c, Eligibility(state, c).status = "PASS"
  PROVE  <<state, Eligibility(state, c).to>> \in Edges
<1> DEFINE own == {r \in Policy.rules : r.from = state}
           covered == {r \in own : c.coverage \in r.coverage}
           firing == {r \in covered : Fires(r, c)}
           first == CHOOSE r \in firing : \A q \in firing : r.priority <= q.priority
<1>1. RulesValid(Policy)
  BY PolicyAssumption DEF ValidPolicy
<1>2. firing # {} /\ Eligibility(state, c).to = first.to
  <2>1. NoRule.status # "PASS" /\ [NoRule EXCEPT !.status = "BLOCKED"].status # "PASS"
    BY DEF NoRule
  <2> QED BY <2>1 DEF Eligibility
<1>3. IsFiniteSet(firing) /\ \A r \in firing : r.priority \in Int
  BY <1>1, FS_Subset DEF RulesValid
<1>4. \E r \in firing : \A q \in firing : r.priority <= q.priority
  BY <1>2, <1>3, FirstRuleExists
<1>5. first \in firing
  BY <1>4
<1>6. first.from = state /\ <<first.from, first.to>> \in Edges
  BY <1>1, <1>5 DEF RulesValid
<1> QED BY <1>2, <1>6

\* What is sized keeps its direction; an exit that cannot be full is a trim.
LEMMA SizeKeeps ==
  ASSUME NEW s, NEW to, NEW set, NEW snap, NEW t, Size(s, to, set, snap, t).action # None
  PROVE  LET z == Size(s, to, set, snap, t)
         IN  z.to = to \/ (to = "EXIT" /\ z.to = "TRIM")
<1>1. CASE to \in {"ENTER", "ADD"}
  BY <1>1 DEF Size, SizeBuy, NoAction
<1>2. CASE to \notin {"ENTER", "ADD"}
  BY <1>2 DEF Size, SizeSell, NoAction
<1> QED BY <1>1, <1>2

\* A decision of run id about s: it stays, or moves along a canonical edge; to
\* wait for a fill it must bring the draft of its proposal.
Moves(d, s, id) ==
  /\ d.security = s
  /\ d.to # None => <<d.from, d.to>> \in Edges
  /\ d.to \in {"ENTER", "ADD", "TRIM"} =>
       \E z : d.draft = {z} /\ z.run = id /\ z.security = s /\ z.to = d.to

LEMMA StayMoves ==
  ASSUME NEW s, NEW from, NEW now_, NEW status, NEW to, NEW id
  PROVE  LET d == Stay(s, from, now_, status, to)
         IN  d.security = s /\ d.from = from /\ d.to = None /\ Moves(d, s, id)
BY NoneAssumption DEF Stay, Moves, States

LEMMA SettleMoves ==
  ASSUME NEW s, NEW head, NEW set, NEW t, NEW snap, NEW now_, NEW id,
         head.to \in Pending
  PROVE  Moves(Settle(s, head, set, t, snap, now_), s, id)
<1> DEFINE d == Settle(s, head, set, t, snap, now_)
           outcome == Resolution(s, head, t, snap)
<1>0. None \notin {"ENTER", "ADD", "TRIM"}
  BY NoneAssumption DEF States
<1>1. /\ d.security = s
      /\ outcome = "WAIT" => d.to = None
      /\ outcome # "WAIT" => d.from = head.to
      /\ outcome = "CANDIDATE" => d.to \in {"EXIT", "HOLD"}
      /\ outcome \notin {"WAIT", "CANDIDATE"} => d.to = outcome
  BY DEF Settle, Stay
<1>2. CASE head.to = "EXIT"
  <2>1. outcome \in {"WAIT", "WATCH"}
    BY <1>2 DEF Resolution
  <2> QED BY <1>0, <1>1, <1>2, <2>1 DEF Moves, Edges
<1>3. CASE head.to = "TRIM"
  <2>1. outcome \in {"WAIT", "CANDIDATE", "HOLD"}
    BY <1>3 DEF Resolution
  <2> QED BY <1>0, <1>1, <1>3, <2>1 DEF Moves, Edges
<1>4. CASE head.to \in {"ENTER", "ADD"}
  <2>1. outcome \in {"WAIT", "HOLD"}
    BY <1>4 DEF Resolution
  <2> QED BY <1>0, <1>1, <1>4, <2>1 DEF Moves, Edges
<1> QED BY <1>2, <1>3, <1>4 DEF Pending

\* An edge with an order leaves no state that waits for a fill.
LEMMA ProposeMoves ==
  ASSUME NEW s, NEW from, NEW verdict, NEW cause, NEW set, NEW t, NEW snap, NEW now_,
         <<from, verdict.to>> \in Actionable, from \notin Pending,
         NEW id, now_.run = id, "run" \in DOMAIN now_
  PROVE  Moves(Propose(s, from, verdict, cause, set, t, snap, now_), s, id)
<1> DEFINE stay == Stay(s, from, now_, "PASS", verdict.to)
           z == Size(s, verdict.to, set, snap, t)
<1>1. Moves(stay, s, id) /\ stay.security = s /\ stay.from = from
  BY StayMoves
<1>2. ASSUME NEW reason, z.action # None
      PROVE  Moves(Drafted(s, from, z, reason, cause, stay, t, snap), s, id)
  <2>1. z.to = verdict.to \/ (verdict.to = "EXIT" /\ z.to = "TRIM")
    BY <1>2, SizeKeeps
  <2>2. <<from, z.to>> \in Edges
    BY <2>1 DEF Actionable, Edges, Pending
  <2>3. /\ Drafted(s, from, z, reason, cause, stay, t, snap).security = s
        /\ Drafted(s, from, z, reason, cause, stay, t, snap).from = from
        /\ Drafted(s, from, z, reason, cause, stay, t, snap).to = z.to
    BY <1>2 DEF Drafted, Stay
  <2>4. stay.obs.run = id
    BY DEF Stay
  <2>5. \E y : /\ Drafted(s, from, z, reason, cause, stay, t, snap).draft = {y}
               /\ y.run = id /\ y.security = s /\ y.to = z.to
    <3>1. PICK y : y = [security |-> s, day |-> Day(t), at |-> t, run |-> stay.obs.run,
                        from |-> from, to |-> z.to, action |-> z.action,
                        reason |-> reason, quantity |-> z.quantity,
                        completion |-> z.completion, notional |-> z.notional]
      OBVIOUS
    <3>2. Drafted(s, from, z, reason, cause, stay, t, snap).draft = {y}
      BY <1>2, <3>1 DEF Drafted, Stay
    <3> QED BY <2>4, <3>1, <3>2
  <2> QED BY <2>2, <2>3, <2>5 DEF Moves
<1>3. ASSUME NEW reason, z.action = None
      PROVE  Moves(Drafted(s, from, z, reason, cause, stay, t, snap), s, id)
  BY <1>1, <1>3 DEF Drafted
<1> QED BY <1>1, <1>2, <1>3 DEF Propose

LEMMA DecideMoves ==
  ASSUME NEW p, NEW s, NEW t, NEW snap, NEW id
  PROVE  Moves(Decide(p, s, t, snap, id), s, id)
<1> DEFINE set == ScoreOf(p, s, t)
           head == Latest(s, t)
           verdict == Eligibility(head.to, Context(s, set, t, snap, snap.held[s] > 0))
           edge == <<head.to, verdict.to>>
           now_ == [security |-> s, run |-> id, at |-> t, status |-> "UNKNOWN",
                    state |-> head.to,
                    score |-> IF set = {} THEN None ELSE <<p, s>>,
                    driven |-> \E z \in set : z.driven,
                    evidence |-> IF set = {} THEN None
                                 ELSE (CHOOSE z \in set : TRUE).evidence]
           passing == [now_ EXCEPT !.status = "PASS", !.state = verdict.to]
           cause == CauseOf(s, edge, verdict, set, head, t, passing)
           acting == IF cause = "VERIFIED_THESIS_BREAK" /\ set = {}
                       THEN [now_ EXCEPT !.score = <<None, s>>] ELSE now_
           d == Decide(p, s, t, snap, id)
<1>1. CASE head.to \in Pending
  <2>1. d = Settle(s, head, set, t, snap, now_)
    BY <1>1, Zenon DEF Decide
  <2> QED BY <1>1, <2>1, SettleMoves
<1>2. CASE head.to \notin Pending /\ verdict.status # "PASS"
  <2>1. d = Stay(s, head.to, now_, verdict.status,
                 IF verdict.to = None THEN head.to ELSE verdict.to)
    BY <1>2, Zenon DEF Decide
  <2> QED BY <2>1, StayMoves
<1>3. CASE head.to \notin Pending /\ verdict.status = "PASS" /\ cause = None
  <2>1. d = Stay(s, head.to, now_, "PASS", verdict.to)
    BY <1>3, Zenon DEF Decide
  <2> QED BY <2>1, StayMoves
<1>4. CASE /\ head.to \notin Pending /\ verdict.status = "PASS" /\ cause # None
           /\ edge \in Actionable
  <2>1. d = Propose(s, head.to, verdict, cause, set, t, snap, acting)
    BY <1>4, Zenon DEF Decide
  <2>2. acting.run = id /\ "run" \in DOMAIN acting
    <3> HIDE DEF cause
    <3> QED OBVIOUS
  <2> QED BY <1>4, <2>1, <2>2, ProposeMoves
<1>5. CASE /\ head.to \notin Pending /\ verdict.status = "PASS" /\ cause # None
           /\ edge \notin Actionable
  <2>1. d = [Stay(s, head.to, acting, "PASS", verdict.to) EXCEPT
               !.to = verdict.to, !.cause = cause]
    BY <1>5, Zenon DEF Decide
  <2>2. edge \in Edges
    BY <1>5, EligibilityEdges
  <2>3. d.security = s /\ d.from = head.to /\ d.to = verdict.to
    BY <2>1 DEF Stay
  <2>4. verdict.to \notin {"ENTER", "ADD", "TRIM"}
    BY <1>5, <2>2 DEF Edges, Actionable
  <2> QED BY <2>2, <2>3, <2>4 DEF Moves
<1> QED BY <1>1, <1>2, <1>3, <1>4, <1>5

-----------------------------------------------------------------------------
(* A run leaves the ledger a chain.                                        *)

\* A row strictly after the newest one, and from its state, extends a chain.
LEMMA ChainGrows ==
  ASSUME NEW rows, \A x \in rows : x.at \in Int, IsChain(rows),
         NEW x, x.at \in Int, <<x.from, x.to>> \in Edges,
         rows # {} => \E l \in rows : /\ \A y \in rows : y.at <= l.at
                                      /\ l.at < x.at /\ l.to = x.from
  PROVE  IsChain(rows \cup {x})
<1> PICK all : all = rows \cup {x}
  OBVIOUS
<1>1. \A y \in rows : y.at < x.at
  BY DEF IsChain
<1>2. ASSUME NEW w \in all
      PROVE  /\ <<w.from, w.to>> \in Edges
             /\ \A y \in all \ {w} : w.at # y.at
  <2>1. CASE w \in rows
    BY <1>1, <2>1 DEF IsChain
  <2>2. CASE w = x
    BY <1>1, <2>2
  <2> QED BY <2>1, <2>2
<1>3. ASSUME NEW w \in all, NEW y \in all, y.at < w.at,
             ~\E v \in all : y.at < v.at /\ v.at < w.at
      PROVE  y.to = w.from
  <2>1. CASE w \in rows
    <3>1. y \in rows
      BY <1>1, <1>3, <2>1
    <3> QED BY <1>3, <2>1, <3>1 DEF IsChain
  <2>2. CASE w = x
    <3>1. y \in rows
      BY <1>3, <2>2
    <3>2. PICK l \in rows : /\ \A v \in rows : v.at <= l.at
                            /\ l.at < x.at /\ l.to = x.from
      BY <3>1
    <3>3. y.at = l.at
      BY <1>3, <2>2, <3>1, <3>2
    <3>4. y = l
      BY <3>1, <3>2, <3>3 DEF IsChain
    <3> QED BY <2>2, <3>2, <3>4
  <2> QED BY <2>1, <2>2
<1>4. IsChain(all)
  BY <1>2, <1>3 DEF IsChain
<1> QED BY <1>4

\* The newest row of a security's ledger, which is what Chains looks at.
LEMMA NewestRow ==
  ASSUME RowsOK, NEW s, NEW rows, rows = {x \in transitions : x.security = s},
         rows # {}
  PROVE  /\ Latest(s, LastTime) \in rows
         /\ \A y \in rows : y.at <= Latest(s, LastTime).at
         /\ Latest(s, LastTime).run # None
<1>1. PICK moments : moments = {x.at : x \in rows}
  OBVIOUS
<1>2. moments \subseteq Int /\ moments # {} /\ \A m \in moments : m <= LastTime
  BY <1>1 DEF RowsOK
<1>3. LastTime \in Int
  BY BoundsAssumption
<1>4. PICK m \in moments : \A n \in moments : n <= m
  BY <1>2, <1>3, GreatestExists
<1>5. PICK x \in rows : x.at = m
  BY <1>1
<1>6. rows = {y \in transitions : y.security = s /\ y.at <= LastTime}
  BY DEF RowsOK
<1>7. Latest(s, LastTime) = CHOOSE y \in rows : \A z \in rows : z.at <= y.at
  BY <1>6 DEF Latest
<1>8. \A z \in rows : z.at <= x.at
  BY <1>1, <1>4, <1>5
<1>9. Latest(s, LastTime) \in rows /\ \A y \in rows : y.at <= Latest(s, LastTime).at
  BY <1>7, <1>8
<1> QED BY <1>9, NoneAssumption DEF RowsOK

\* The row a decision writes.
RowOf(d, t, id) == [security |-> d.security, from |-> d.from, to |-> d.to,
                    cause |-> d.cause, at |-> t, run |-> id]

\* What a complete run writes to the ledger was decided, moves, and chains.
LEMMA RanMoves ==
  ASSUME NEW id, NEW p, NEW t, NEW snap, NEW D,
         Ran(id, p, t, snap, D).status = "COMPLETE"
  PROVE  \E W \in SUBSET D :
           /\ \A d \in W : /\ d.to # None /\ Chains(d, t)
                          /\ d.draft \subseteq Ran(id, p, t, snap, D).admitted
           /\ \A x \in Ran(id, p, t, snap, D).moved : \E d \in W : x = RowOf(d, t, id)
<1> DEFINE drafts == UNION {d.draft : d \in D}
           admitted == Admitted(ActivityBudget(t, snap), drafts)
           written == Written(D, admitted)
<1>1. /\ written \in SUBSET D
      /\ \A d \in written : d.to # None /\ d.draft \subseteq admitted
  BY DEF Written
<1>2. \A d \in written : Chains(d, t)
  <2>1. SUFFICES ASSUME \E d \in written : ~Chains(d, t) PROVE FALSE
    OBVIOUS
  <2>2. Ran(id, p, t, snap, D).status \in {"ERROR", "REUSED"}
    BY <2>1 DEF Ran
  <2> QED BY <2>2
<1>3. PICK rows : rows = {[security |-> d.security, from |-> d.from, to |-> d.to,
                           cause |-> d.cause, at |-> t, run |-> id] : d \in written}
  OBVIOUS
<1>4. \A x \in rows : \E d \in written : x = RowOf(d, t, id)
  BY <1>3 DEF RowOf
<1>5. Ran(id, p, t, snap, D).moved = rows /\ Ran(id, p, t, snap, D).admitted = admitted
  <2>1. \/ Ran(id, p, t, snap, D).status = "ERROR"
        \/ Ran(id, p, t, snap, D).status = "REUSED"
        \/ Ran(id, p, t, snap, D) =
             [status |-> "COMPLETE", run |-> id, observed |-> {d.obs : d \in D},
              admitted |-> admitted, moved |-> rows]
    BY <1>3, Zenon DEF Ran
  <2> HIDE DEF admitted
  <2> QED BY <2>1
<1> HIDE DEF written, admitted
<1> QED BY <1>1, <1>2, <1>4, <1>5

\* A run appends at most one row per security, and only where it chains.
LEMMA CommitChains ==
  ASSUME LedgerOK, NEW p, NEW t \in Times, NEW snap,
         Commit(p, t, snap, Outcome(p, t, snap))
  PROVE  LedgerOK'
<1> DEFINE o == Outcome(p, t, snap)
<1>i. PICK id : id = Cardinality(runs) + 1
  OBVIOUS
<1>d. PICK D : D = {Decide(p, s, t, snap, id) : s \in Candidates(p, t, snap)}
  OBVIOUS
<1>1. CASE o.status # "COMPLETE"
  <2>1. UNCHANGED tables
    BY <1>1 DEF Commit
  <2> QED BY <2>1 DEF LedgerOK, tables, RowsOK, LedgerIsChain, PendingHasProposal
<1>2. CASE o.status = "COMPLETE"
  <2>1. PICK W \in SUBSET D :
                 /\ \A d \in W : /\ d.to # None /\ Chains(d, t)
                                /\ d.draft \subseteq o.admitted
                 /\ \A x \in o.moved : \E d \in W : x = RowOf(d, t, id)
    <3>1. o = Ran(id, p, t, snap, D)
      BY <1>d, <1>i DEF Outcome
    <3>2. Ran(id, p, t, snap, D).status = "COMPLETE"
      BY <1>2, <3>1
    <3>3. \E W \in SUBSET D :
           /\ \A d \in W : /\ d.to # None /\ Chains(d, t)
                          /\ d.draft \subseteq Ran(id, p, t, snap, D).admitted
           /\ \A x \in Ran(id, p, t, snap, D).moved : \E d \in W : x = RowOf(d, t, id)
      BY <3>2, RanMoves
    <3> QED BY <3>1, <3>3
  <2>2. transitions' = transitions \cup o.moved
    BY <1>2 DEF Commit
  <2>3. IsFiniteSet(runs')
    <3>1. PICK r : runs' = runs \cup {r}
      BY <1>2 DEF Commit
    <3> QED BY <3>1, FS_AddElement DEF LedgerOK
  <2>4. t \in Int /\ t <= LastTime /\ id \in Int
    BY <1>i, BoundsAssumption, FS_CardinalityType DEF Times, LedgerOK
  <2>5. ASSUME NEW x \in o.moved
        PROVE  /\ x.at = t /\ x.run = id /\ <<x.from, x.to>> \in Edges
               /\ \A y \in o.moved : y.security = x.security => y = x
               /\ Chains(x, t)
               /\ x.to \in {"ENTER", "ADD", "TRIM"} =>
                    \E z \in o.admitted : z.run = x.run /\ z.security = x.security
                                           /\ z.to = x.to
    <3>1. PICK d \in W : x = RowOf(d, t, id)
      BY <2>1
    <3>2. ASSUME NEW e \in W
          PROVE  e = Decide(p, e.security, t, snap, id) /\ Moves(e, e.security, id)
      <4>1. PICK s : e = Decide(p, s, t, snap, id)
        BY <1>d
      <4>2. Moves(e, s, id)
        BY <4>1, DecideMoves
      <4> QED BY <4>1, <4>2 DEF Moves
    <3>3. \A e \in W : e.security = d.security => e = d
      BY <3>2
    <3>4. <<d.from, d.to>> \in Edges
      BY <2>1, <3>2 DEF Moves
    <3>5. Chains(x, t)
      BY <2>1, <3>1 DEF Chains, RowOf
    <3>6. \A y \in o.moved : y.security = x.security => y = x
      BY <2>1, <3>1, <3>3 DEF RowOf
    <3>7. x.to \in {"ENTER", "ADD", "TRIM"} =>
            \E z \in o.admitted : z.run = x.run /\ z.security = x.security /\ z.to = x.to
      BY <2>1, <3>1, <3>2 DEF RowOf, Moves
    <3> QED BY <3>1, <3>4, <3>5, <3>6, <3>7 DEF RowOf
  <2>6. RowsOK'
    BY <2>2, <2>4, <2>5 DEF RowsOK, LedgerOK
  <2>7. ASSUME NEW s \in Securities
        PROVE  IsChain({x \in transitions' : x.security = s})
    <3>1. PICK rows : rows = {x \in transitions : x.security = s}
      OBVIOUS
    <3>2. IsChain(rows) /\ \A x \in rows : x.at \in Int
      BY <3>1 DEF LedgerOK, LedgerIsChain, RowsOK
    <3>3. CASE \A x \in o.moved : x.security # s
      <4>1. {x \in transitions' : x.security = s} = rows
        BY <2>2, <3>1, <3>3
      <4> QED BY <3>2, <4>1
    <3>4. ASSUME NEW x \in o.moved, x.security = s
          PROVE  IsChain({y \in transitions' : y.security = s})
      <4>1. {y \in transitions' : y.security = s} = rows \cup {x}
        BY <2>2, <2>5, <3>1, <3>4
      <4>2. ASSUME rows # {}
            PROVE  \E l \in rows : /\ \A y \in rows : y.at <= l.at
                                   /\ l.at < x.at /\ l.to = x.from
        <5>1. /\ Latest(s, LastTime) \in rows
              /\ \A y \in rows : y.at <= Latest(s, LastTime).at
              /\ Latest(s, LastTime).run # None
          BY <3>1, <4>2, NewestRow DEF LedgerOK
        <5>2. Latest(s, LastTime).at < x.at /\ Latest(s, LastTime).to = x.from
          <6>1. Chains(x, t) /\ x.at = t
            BY <2>5
          <6> QED BY <2>4, <3>2, <3>4, <5>1, <6>1 DEF Chains
        <5> QED BY <5>1, <5>2
      <4>3. x.at \in Int /\ <<x.from, x.to>> \in Edges
        BY <2>4, <2>5
      <4>4. IsChain(rows \cup {x})
        BY <3>2, <4>2, <4>3, ChainGrows
      <4> QED BY <4>1, <4>4
    <3> QED BY <3>3, <3>4
  <2>8. PendingHasProposal'
    <3>1. proposals' = proposals \cup o.admitted
      BY <1>2 DEF Commit
    <3>2. AllProposed(transitions, proposals)
      BY DEF LedgerOK, PendingHasProposal
    <3>3. AllProposed(transitions', proposals')
      BY <2>2, <2>5, <3>1, <3>2 DEF AllProposed
    <3> QED BY <3>3 DEF PendingHasProposal
  <2> QED BY <2>3, <2>6, <2>7, <2>8 DEF LedgerOK, LedgerIsChain
<1> QED BY <1>1, <1>2
-----------------------------------------------------------------------------
(* What a day has spent.                                                   *)

LEMMA SpentUnfolds ==
  ASSUME NEW S,
         \E g : g = [s \in SUBSET S |->
                       IF s = {} THEN 0
                       ELSE (CHOOSE x \in s : TRUE).notional + g[s \ {CHOOSE x \in s : TRUE}]]
  PROVE  \E g : /\ g = [s \in SUBSET S |->
                          IF s = {} THEN 0
                          ELSE (CHOOSE x \in s : TRUE).notional
                               + g[s \ {CHOOSE x \in s : TRUE}]]
                /\ Spent(S) = g[S]
BY DEF Spent, MapThenSumSet, MapThenFoldSet

\* Spent is the total of the notionals.
LEMMA SpentTotal ==
  ASSUME NEW T, IsFiniteSet(T), NEW w, w = [z \in T |-> z.notional], NEW S \in SUBSET T
  PROVE  Spent(S) = Total(w, S)
<1> DEFINE Sums(g) == g = [s \in SUBSET S |->
                       IF s = {} THEN 0
                       ELSE (CHOOSE x \in s : TRUE).notional + g[s \ {CHOOSE x \in s : TRUE}]]
<1>1. IsFiniteSet(S)
  BY FS_Subset
<1>2. \A s \in SUBSET S : s # {} => w[Pick(s)] = (CHOOSE x \in s : TRUE).notional
  BY PickIn DEF Pick
<1>3. ASSUME NEW g PROVE IsSum(g, w, S) <=> Sums(g)
  <2>1. ASSUME NEW s \in SUBSET S
        PROVE  (IF s = {} THEN 0 ELSE w[Pick(s)] + g[s \ {Pick(s)}])
                 = IF s = {} THEN 0
                   ELSE (CHOOSE x \in s : TRUE).notional + g[s \ {CHOOSE x \in s : TRUE}]
    BY <1>2 DEF Pick
  <2>2. [s \in SUBSET S |-> IF s = {} THEN 0 ELSE w[Pick(s)] + g[s \ {Pick(s)}]]
          = [s \in SUBSET S |->
               IF s = {} THEN 0
               ELSE (CHOOSE x \in s : TRUE).notional + g[s \ {CHOOSE x \in s : TRUE}]]
    BY <2>1
  <2> QED BY <2>2 DEF IsSum
<1>4. \E g : Sums(g)
  <2>1. PICK g : IsSum(g, w, S)
    BY <1>1, SumExists
  <2>2. Sums(g)
    BY <1>3, <2>1
  <2> HIDE DEF Sums
  <2> QED BY <2>2
<1>5. \E g : Sums(g) /\ Spent(S) = g[S]
  BY <1>4, SpentUnfolds
<1> HIDE DEF Sums
<1>6. PICK g : IsSum(g, w, S) /\ Spent(S) = g[S]
  BY <1>3, <1>5
<1> QED BY <1>1, <1>6, TotalOf

LEMMA SpentLaws ==
  ASSUME NEW T, IsFiniteSet(T), \A z \in T : z.notional \in Nat
  PROVE  /\ Spent({}) = 0
         /\ \A S \in SUBSET T : Spent(S) \in Nat
         /\ \A S \in SUBSET T : \A x \in T \ S : Spent(S \cup {x}) = Spent(S) + x.notional
         /\ \A U, V \in SUBSET T : Spent(U \cup V) <= Spent(U) + Spent(V)
<1>1. PICK w : w = [z \in T |-> z.notional]
  OBVIOUS
<1>2. w \in [T -> Nat]
  BY <1>1
<1>3. \A S \in SUBSET T : Spent(S) = Total(w, S)
  BY <1>1, SpentTotal
<1>4. {} \in SUBSET T
  OBVIOUS
<1>5. Spent({}) = 0
  BY <1>3, <1>4, TotalEmpty
<1>6. \A S \in SUBSET T : Spent(S) \in Nat
  BY <1>2, <1>3, TotalNat
<1>7. ASSUME NEW S \in SUBSET T, NEW x \in T \ S
      PROVE  Spent(S \cup {x}) = Spent(S) + x.notional
  <2>1. S \cup {x} \in SUBSET T /\ w[x] = x.notional /\ x \in T /\ x \notin S
    BY <1>1
  <2>2. Total(w, S \cup {x}) = Total(w, S) + w[x]
    BY <1>2, <2>1, TotalAdd
  <2> QED BY <1>3, <2>1, <2>2
<1>8. ASSUME NEW U \in SUBSET T, NEW V \in SUBSET T
      PROVE  Spent(U \cup V) <= Spent(U) + Spent(V)
  <2>1. U \cup V \in SUBSET T
    OBVIOUS
  <2>2. Total(w, U \cup V) <= Total(w, U) + Total(w, V)
    BY <1>2, TotalUnion
  <2> QED BY <1>3, <2>1, <2>2
<1> QED BY <1>5, <1>6, <1>7, <1>8

-----------------------------------------------------------------------------
(* The order of admission and what is admitted.                            *)

LEMMA RankNat ==
  ASSUME NEW list \in Seq(STRING), NEW x
  PROVE  Rank(list, x) \in Nat
<1>1. CASE x \in ToSet(list)
  <2>1. \E i \in DOMAIN list : list[i] = x
    BY <1>1 DEF ToSet
  <2>2. (CHOOSE i \in DOMAIN list : list[i] = x) \in DOMAIN list
    BY <2>1
  <2> QED BY <1>1, <2>2 DEF Rank
<1>2. CASE x \notin ToSet(list)
  BY <1>2 DEF Rank
<1> QED BY <1>1, <1>2

\* Drafts are admitted in the lexical order of three numbers.
LEMMA DraftOrder ==
  ASSUME NEW a, NEW b
  PROVE  LET a1 == Rank(Policy.categories, Category(a.reason))
             b1 == Rank(Policy.categories, Category(b.reason))
             a2 == Rank(Policy.reasons, a.reason)
             b2 == Rank(Policy.reasons, b.reason)
         IN  DraftBefore(a, b) <=>
               \/ a1 < b1
               \/ a1 = b1 /\ a2 < b2
               \/ a1 = b1 /\ a2 = b2 /\ a.security < b.security
<1> DEFINE ka == <<Rank(Policy.categories, Category(a.reason)), Rank(Policy.reasons, a.reason), a.security>>
           kb == <<Rank(Policy.categories, Category(b.reason)), Rank(Policy.reasons, b.reason), b.security>>
<1>1. DraftBefore(a, b) <=>
        \E i \in 1..3 : ka[i] < kb[i] /\ \A j \in 1..(i - 1) : ka[j] = kb[j]
  BY DEF DraftBefore
<1>2. 1..3 = {1, 2, 3} /\ 1..(1-1) = {} /\ 1..(2-1) = {1} /\ 1..(3-1) = {1, 2}
  OBVIOUS
<1>3. DraftBefore(a, b) <=>
        \/ ka[1] < kb[1]
        \/ ka[1] = kb[1] /\ ka[2] < kb[2]
        \/ ka[1] = kb[1] /\ ka[2] = kb[2] /\ ka[3] < kb[3]
  <2> HIDE DEF ka, kb
  <2> QED BY <1>1, <1>2
<1> QED BY <1>3

\* Of drafts of different securities exactly one comes first.
LEMMA DraftsOrdered ==
  ASSUME NEW S, \A z \in S : z.security \in Nat,
         \A y, z \in S : y.security = z.security => y = z
  PROVE  /\ \A x \in S : ~DraftBefore(x, x)
         /\ \A x, y \in S : x = y \/ DraftBefore(x, y) \/ DraftBefore(y, x)
         /\ \A x, y, z \in S : DraftBefore(x, y) /\ DraftBefore(y, z) => DraftBefore(x, z)
<1>1. Policy.categories \in Seq(STRING) /\ Policy.reasons \in Seq(STRING)
  BY PolicyAssumption DEF ValidPolicy, BudgetValid
<1> DEFINE one(x) == Rank(Policy.categories, Category(x.reason))
           two(x) == Rank(Policy.reasons, x.reason)
<1>2. \A x \in S : one(x) \in Nat /\ two(x) \in Nat
  BY <1>1, RankNat
<1>3. \A x, y \in S : DraftBefore(x, y) <=>
        \/ one(x) < one(y)
        \/ one(x) = one(y) /\ two(x) < two(y)
        \/ one(x) = one(y) /\ two(x) = two(y) /\ x.security < y.security
  BY DraftOrder
<1> HIDE DEF one, two
<1> QED BY <1>2, <1>3

LEMMA LastDraft ==
  ASSUME NEW S, IsFiniteSet(S), S # {}, \A z \in S : z.security \in Nat,
         \A y, z \in S : y.security = z.security => y = z
  PROVE  \E x \in S : \A y \in S \ {x} : DraftBefore(y, x) /\ ~DraftBefore(x, y)
<1>1. PICK R : R = {e \in S \X S : DraftBefore(e[1], e[2])}
  OBVIOUS
<1>2. \A x, y \in S : <<x, y>> \in R <=> DraftBefore(x, y)
  BY <1>1
<1>3. \E x \in S : \A y \in S : <<x, y>> \notin R
  BY <1>2, DraftsOrdered, LastExists
<1> QED BY <1>2, <1>3, DraftsOrdered

\* What admit_drafts takes out of drafts.
Greedy(b, drafts, A) ==
  \A d \in drafts : d \in A <=> Fits(b, {e \in A : DraftBefore(e, d)}, d)

LEMMA GreedyExists ==
  ASSUME NEW b, NEW drafts, IsFiniteSet(drafts), \A z \in drafts : z.security \in Nat,
         \A y, z \in drafts : y.security = z.security => y = z
  PROVE  \E A \in SUBSET drafts : Greedy(b, drafts, A)
<1> DEFINE Ok(S) == \E A \in SUBSET S : Greedy(b, S, A)
<1>b. PICK Bad : Bad = {n \in Nat : \E S \in SUBSET drafts : Cardinality(S) = n /\ ~Ok(S)}
  OBVIOUS
<1>1. Bad = {}
  <2>1. SUFFICES ASSUME Bad # {} PROVE FALSE
    OBVIOUS
  <2>2. PICK n \in Bad : \A m \in Bad : n <= m
    BY <1>b, <2>1, LeastExists
  <2>3. PICK S \in SUBSET drafts : Cardinality(S) = n /\ ~Ok(S)
    BY <1>b
  <2>4. S # {}
    <3>1. Ok({})
      BY DEF Greedy
    <3> QED BY <2>3, <3>1
  <2>5. IsFiniteSet(S)
    BY FS_Subset
  <2>6. PICK x \in S : \A y \in S \ {x} : DraftBefore(y, x) /\ ~DraftBefore(x, y)
    BY <2>4, <2>5, LastDraft
  <2>7. PICK T : T = S \ {x}
    OBVIOUS
  <2>8. Ok(T)
    <3>1. Cardinality(T) \in Nat /\ ~(n <= Cardinality(T)) /\ T \in SUBSET drafts
      BY <2>3, <2>7, Smaller
    <3> QED BY <1>b, <2>2, <3>1
  <2>9. PICK A \in SUBSET T : Greedy(b, T, A)
    BY <2>8
  <2>10. ~DraftBefore(x, x)
    BY DraftsOrdered
  <2>11. \A d \in T : {e \in A \cup {x} : DraftBefore(e, d)} = {e \in A : DraftBefore(e, d)}
    BY <2>6, <2>7
  <2>12. {e \in A \cup {x} : DraftBefore(e, x)} = A /\ {e \in A : DraftBefore(e, x)} = A
    BY <2>6, <2>7, <2>9, <2>10
  <2>13. CASE Fits(b, A, x)
    <3>0. PICK B : B = A \cup {x}
      OBVIOUS
    <3>1. ASSUME NEW d \in S
          PROVE  d \in B <=> Fits(b, {e \in B : DraftBefore(e, d)}, d)
      <4>1. CASE d = x
        BY <2>12, <2>13, <3>0, <4>1
      <4>2. CASE d # x
        <5>1. d \in T /\ (d \in B <=> d \in A)
          BY <2>7, <3>0, <4>2
        <5>2. {e \in B : DraftBefore(e, d)} = {e \in A : DraftBefore(e, d)}
          BY <2>11, <3>0, <5>1
        <5> QED BY <2>9, <5>1, <5>2 DEF Greedy
      <4> QED BY <4>1, <4>2
    <3>2. B \in SUBSET S
      BY <2>7, <3>0
    <3> QED BY <2>3, <3>1, <3>2 DEF Greedy
  <2>14. CASE ~Fits(b, A, x)
    <3>1. ASSUME NEW d \in S
          PROVE  d \in A <=> Fits(b, {e \in A : DraftBefore(e, d)}, d)
      <4>1. CASE d = x
        BY <2>7, <2>12, <2>14, <4>1
      <4>2. CASE d # x
        <5>1. d \in T
          BY <2>7, <4>2
        <5> QED BY <2>9, <5>1 DEF Greedy
      <4> QED BY <4>1, <4>2
    <3>2. A \in SUBSET S
      BY <2>7
    <3> QED BY <2>3, <3>1, <3>2 DEF Greedy
  <2> QED BY <2>13, <2>14
<1>2. Cardinality(drafts) \in Nat /\ drafts \in SUBSET drafts
  BY FS_CardinalityType
<1> QED BY <1>b, <1>1, <1>2

\* A day's limits, and drafts that may be admitted to it.
LEMMA AdmittedWithin ==
  ASSUME NEW b, NEW drafts, IsFiniteSet(drafts),
         \A z \in drafts : z.security \in Nat /\ z.notional \in Nat,
         \A y, z \in drafts : y.security = z.security => y = z,
         b.count \in Nat, b.notional \in Nat, b.maxCount \in Nat, b.maxNotional \in Nat,
         b.count <= b.maxCount, b.notional <= b.maxNotional,
         b.cash # None => b.cash \in Nat
  PROVE  LET A == Admitted(b, drafts)
         IN  /\ A \in SUBSET drafts
             /\ b.count + Cardinality(A) <= b.maxCount
             /\ b.notional + Spent(A) <= b.maxNotional
             /\ b.cash # None => Spent(Buys(A)) <= b.cash
<1>1. PICK A : A = Admitted(b, drafts)
  OBVIOUS
<1>2. A \in SUBSET drafts /\ \A d \in drafts : d \in A <=> Fits(b, {e \in A : DraftBefore(e, d)}, d)
  BY <1>1, GreedyExists DEF Admitted, Greedy
<1>3. IsFiniteSet(A) /\ Cardinality(A) \in Nat /\ Spent({}) = 0 /\ Cardinality({}) = 0
  BY <1>2, FS_Subset, FS_CardinalityType, FS_EmptySet, SpentLaws
<1>4. /\ b.count + Cardinality(A) <= b.maxCount
      /\ b.notional + Spent(A) <= b.maxNotional
  <2>1. CASE A = {}
    BY <1>3, <2>1
  <2>2. CASE A # {}
    <3>1. PICK x \in A : \A y \in A \ {x} : DraftBefore(y, x) /\ ~DraftBefore(x, y)
      BY <1>2, <1>3, <2>2, LastDraft
    <3>2. ~DraftBefore(x, x)
      BY <1>2, DraftsOrdered
    <3>3. {e \in A : DraftBefore(e, x)} = A \ {x}
      BY <3>1, <3>2
    <3>4. PICK r : r = A \ {x}
      OBVIOUS
    <3>5. Fits(b, r, x)
      BY <1>2, <3>3, <3>4
    <3>6. r \in SUBSET A /\ x \notin r /\ A = r \cup {x} /\ x.notional \in Nat
      BY <1>2, <3>4
    <3>7. Spent(A) = Spent(r) + x.notional /\ Spent(r) \in Nat
      <4>1. r \in SUBSET drafts /\ x \in drafts \ r
        BY <1>2, <3>6
      <4> QED BY <3>6, <4>1, SpentLaws
    <3>8. Cardinality(r) \in Nat /\ Cardinality(r) = Cardinality(A) - 1
      BY <1>3, <3>4, Smaller
    <3>9. /\ b.count + Cardinality(r) + 1 <= b.maxCount
          /\ b.notional + Spent(r) + x.notional <= b.maxNotional
      BY <3>5 DEF Fits
    <3>10. b.count + Cardinality(A) <= b.maxCount
      BY <1>3, <3>8, <3>9
    <3>11. b.notional + Spent(A) <= b.maxNotional
      <4> PICK m, k \in Nat : m = Spent(r) /\ k = x.notional
        BY <3>6, <3>7
      <4> QED BY <3>7, <3>9
    <3> QED BY <3>10, <3>11
  <2> QED BY <2>1, <2>2
<1>5. ASSUME b.cash # None PROVE Spent(Buys(A)) <= b.cash
  <2>1. Buys(A) \in SUBSET drafts /\ IsFiniteSet(Buys(A))
    BY <1>2, <1>3, FS_Subset DEF Buys
  <2>2. CASE Buys(A) = {}
    BY <1>3, <1>5, <2>2
  <2>3. CASE Buys(A) # {}
    <3>1. PICK x \in Buys(A) :
            \A y \in Buys(A) \ {x} : DraftBefore(y, x) /\ ~DraftBefore(x, y)
      BY <2>1, <2>3, LastDraft
    <3>2. ~DraftBefore(x, x) /\ x \in A /\ x \in drafts /\ x.action = "BUY"
      BY <1>2, DraftsOrdered DEF Buys
    <3>4. PICK r : r = Buys(A) \ {x}
      OBVIOUS
    <3>3. Buys({e \in A : DraftBefore(e, x)}) = r
      BY <3>1, <3>2, <3>4 DEF Buys
    <3>5. x.notional <= b.cash - Spent(r)
      BY <1>2, <1>5, <3>2, <3>3 DEF Fits
    <3>6. r \in SUBSET drafts /\ x \in drafts \ r /\ Buys(A) = r \cup {x}
      BY <2>1, <3>1, <3>4
    <3>7. Spent(Buys(A)) = Spent(r) + x.notional /\ Spent(r) \in Nat /\ x.notional \in Nat
      BY <3>6, SpentLaws
    <3> QED BY <1>5, <3>5, <3>7
  <2> QED BY <2>2, <2>3
<1> QED BY <1>1, <1>2, <1>4, <1>5

-----------------------------------------------------------------------------
(* A run leaves the day within its limits.                                 *)

\* The draft of a decision of run id about s at t, if it made one.
Drafts(d, s, t, id) ==
  d.draft = {} \/ \E z : /\ d.draft = {z} /\ d.to # None
                         /\ z.run = id /\ z.security = s /\ z.day = Day(t) /\ z.to = d.to
                         /\ ~d.error => z.notional \in Nat

LEMMA ProposeDrafts ==
  ASSUME NEW s, NEW from, NEW verdict, NEW cause, NEW set, NEW t, NEW snap, NEW now_,
         <<from, verdict.to>> \in Actionable,
         NEW id, now_.run = id, "run" \in DOMAIN now_
  PROVE  Drafts(Propose(s, from, verdict, cause, set, t, snap, now_), s, t, id)
<1> DEFINE stay == Stay(s, from, now_, "PASS", verdict.to)
           z == Size(s, verdict.to, set, snap, t)
<1>1. stay.draft = {} /\ Drafts(stay, s, t, id) /\ stay.obs.run = id
  BY DEF Stay, Drafts
<1>2. ASSUME NEW reason, z.action # None
      PROVE  Drafts(Drafted(s, from, z, reason, cause, stay, t, snap), s, t, id)
  <2>1. z.to \in {"ENTER", "ADD", "TRIM", "EXIT"}
    BY <1>2, SizeKeeps DEF Actionable
  <2>2. z.to # None
    BY <2>1, NoneAssumption DEF States
  <2>3. PICK y : y = [security |-> s, day |-> Day(t), at |-> t, run |-> stay.obs.run,
                      from |-> from, to |-> z.to, action |-> z.action,
                      reason |-> reason, quantity |-> z.quantity,
                      completion |-> z.completion, notional |-> z.notional]
    OBVIOUS
  <2>4. PICK ok : ok = Proposable(z, from, reason, snap.held[s],
                        IF s \in snap.rows THEN snap.sellable[s] ELSE None, Mark)
    OBVIOUS
  <2>5. ok => z.notional \in Nat
    BY <2>4 DEF Proposable, Positive
  <2>6. PICK e : e = Drafted(s, from, z, reason, cause, stay, t, snap)
    OBVIOUS
  <2>7. e.draft = {y} /\ e.to = z.to /\ e.error = ~ok
    BY <1>2, <2>3, <2>4, <2>6 DEF Drafted, Stay
  <2>8. y.run = id /\ y.security = s /\ y.day = Day(t) /\ y.to = z.to
        /\ y.notional = z.notional
    BY <1>1, <2>3
  <2>9. ~e.error => ok
    BY <2>7
  <2> HIDE DEF z
  <2>10. Drafts(e, s, t, id)
    BY <2>2, <2>5, <2>7, <2>8, <2>9 DEF Drafts
  <2> QED BY <2>6, <2>10
<1>3. ASSUME NEW reason, z.action = None
      PROVE  Drafts(Drafted(s, from, z, reason, cause, stay, t, snap), s, t, id)
  BY <1>1, <1>3 DEF Drafted
<1> QED BY <1>1, <1>2, <1>3 DEF Propose

LEMMA DecideDrafts ==
  ASSUME NEW p, NEW s, NEW t, NEW snap, NEW id
  PROVE  Drafts(Decide(p, s, t, snap, id), s, t, id)
<1> DEFINE set == ScoreOf(p, s, t)
           head == Latest(s, t)
           verdict == Eligibility(head.to, Context(s, set, t, snap, snap.held[s] > 0))
           edge == <<head.to, verdict.to>>
           now_ == [security |-> s, run |-> id, at |-> t, status |-> "UNKNOWN",
                    state |-> head.to,
                    score |-> IF set = {} THEN None ELSE <<p, s>>,
                    driven |-> \E z \in set : z.driven,
                    evidence |-> IF set = {} THEN None
                                 ELSE (CHOOSE z \in set : TRUE).evidence]
           passing == [now_ EXCEPT !.status = "PASS", !.state = verdict.to]
           cause == CauseOf(s, edge, verdict, set, head, t, passing)
           acting == IF cause = "VERIFIED_THESIS_BREAK" /\ set = {}
                       THEN [now_ EXCEPT !.score = <<None, s>>] ELSE now_
           d == Decide(p, s, t, snap, id)
<1>0. \A from, o, status, to : Stay(s, from, o, status, to).draft = {}
  BY DEF Stay
<1>1. CASE head.to \in Pending
  <2>1. d = Settle(s, head, set, t, snap, now_)
    BY <1>1, Zenon DEF Decide
  <2>2. Settle(s, head, set, t, snap, now_).draft = {}
    BY DEF Settle, Stay
  <2> QED BY <2>1, <2>2 DEF Drafts
<1>2. CASE head.to \notin Pending /\ verdict.status # "PASS"
  <2>1. d = Stay(s, head.to, now_, verdict.status,
                 IF verdict.to = None THEN head.to ELSE verdict.to)
    BY <1>2, Zenon DEF Decide
  <2>2. PICK to : to = IF verdict.to = None THEN head.to ELSE verdict.to
    OBVIOUS
  <2>3. d = Stay(s, head.to, now_, verdict.status, to)
    BY <2>1, <2>2
  <2>4. d.draft = {}
    BY <1>0, <2>3
  <2> QED BY <2>4 DEF Drafts
<1>3. CASE head.to \notin Pending /\ verdict.status = "PASS" /\ cause = None
  <2>1. d = Stay(s, head.to, now_, "PASS", verdict.to)
    BY <1>3, Zenon DEF Decide
  <2> QED BY <1>0, <2>1 DEF Drafts
<1>4. CASE /\ head.to \notin Pending /\ verdict.status = "PASS" /\ cause # None
           /\ edge \in Actionable
  <2>1. d = Propose(s, head.to, verdict, cause, set, t, snap, acting)
    BY <1>4, Zenon DEF Decide
  <2>2. acting.run = id /\ "run" \in DOMAIN acting
    <3> HIDE DEF cause
    <3> QED OBVIOUS
  <2> QED BY <1>4, <2>1, <2>2, ProposeDrafts
<1>5. CASE /\ head.to \notin Pending /\ verdict.status = "PASS" /\ cause # None
           /\ edge \notin Actionable
  <2>1. d = [Stay(s, head.to, acting, "PASS", verdict.to) EXCEPT
               !.to = verdict.to, !.cause = cause]
    BY <1>5, Zenon DEF Decide
  <2>2. d.draft = {}
    BY <2>1 DEF Stay
  <2> QED BY <2>2 DEF Drafts
<1> QED BY <1>1, <1>2, <1>3, <1>4, <1>5

\* What a complete run admits and writes.
LEMMA RanAdmits ==
  ASSUME NEW id, NEW p, NEW t, NEW snap, NEW D,
         Ran(id, p, t, snap, D).status = "COMPLETE"
  PROVE  LET o == Ran(id, p, t, snap, D)
         IN  /\ o.admitted = Admitted(ActivityBudget(t, snap), UNION {d.draft : d \in D})
             /\ \A d \in D : ~d.error
             /\ \A d \in D : d.to # None /\ d.draft \subseteq o.admitted =>
                  RowOf(d, t, id) \in o.moved
<1> DEFINE drafts == UNION {d.draft : d \in D}
           admitted == Admitted(ActivityBudget(t, snap), drafts)
           written == Written(D, admitted)
<1>1. \A d \in D : ~d.error
  <2>1. SUFFICES ASSUME \E d \in D : d.error PROVE FALSE
    OBVIOUS
  <2>2. Ran(id, p, t, snap, D).status \in {"ERROR", "REUSED"}
    BY <2>1 DEF Ran
  <2> QED BY <2>2
<1>3. PICK rows : rows = {[security |-> d.security, from |-> d.from, to |-> d.to,
                           cause |-> d.cause, at |-> t, run |-> id] : d \in written}
  OBVIOUS
<1>4. \A d \in written : RowOf(d, t, id) \in rows
  BY <1>3 DEF RowOf
<1>5. Ran(id, p, t, snap, D).moved = rows /\ Ran(id, p, t, snap, D).admitted = admitted
  <2>1. \/ Ran(id, p, t, snap, D).status = "ERROR"
        \/ Ran(id, p, t, snap, D).status = "REUSED"
        \/ Ran(id, p, t, snap, D) =
             [status |-> "COMPLETE", run |-> id, observed |-> {d.obs : d \in D},
              admitted |-> admitted, moved |-> rows]
    BY <1>3, Zenon DEF Ran
  <2> HIDE DEF admitted
  <2> QED BY <2>1
<1>6. \A d \in D : d.to # None /\ d.draft \subseteq admitted => d \in written
  BY DEF Written
<1> HIDE DEF written, admitted
<1>7. admitted = Admitted(ActivityBudget(t, snap), UNION {d.draft : d \in D})
  BY DEF admitted
<1> QED BY <1>1, <1>4, <1>5, <1>6, <1>7

\* A snapshot a run may be given.
SnapshotOK(snap) ==
  snap.rows \subseteq Securities /\ (snap.cash # None => snap.cash \in Nat)

\* What the day of t has left for a run that may bind it.
LEMMA DayHasRoom ==
  ASSUME BudgetOK, NEW t \in Times, NEW snap, SnapshotOK(snap), NEW b,
         b = ActivityBudget(t, snap), NEW opening,
         opening = IF days[Day(t)] = Unbound THEN snap.cash ELSE days[Day(t)]
  PROVE  /\ b.count = Cardinality(OnDay(Day(t))) /\ b.notional = Spent(OnDay(Day(t)))
         /\ b.count \in Nat /\ b.notional \in Nat
         /\ b.maxCount = Policy.maxCount /\ b.maxNotional = Policy.maxNotional
         /\ b.maxCount \in Nat /\ b.maxNotional \in Nat
         /\ b.count <= b.maxCount /\ b.notional <= b.maxNotional
         /\ b.cash # None => /\ b.cash \in Nat
                             /\ b.cash = opening - Spent(Buys(OnDay(Day(t))))
         /\ opening # None => b.cash # None /\ opening \in Nat
         /\ Spent(Buys(OnDay(Day(t)))) \in Nat
<1>1. PICK used : used = OnDay(Day(t))
  OBVIOUS
<1>2. /\ IsFiniteSet(used) /\ \A z \in used : z.notional \in Nat
      /\ Day(t) \in Days /\ days[Day(t)] \in Nat \cup {Unbound, None}
      /\ days[Day(t)] = Unbound => used = {}
  BY <1>1 DEF BudgetOK, OnDay, Days
<1>3. Cardinality(used) \in Nat /\ Spent(used) \in Nat
  BY <1>2, FS_CardinalityType, SpentLaws
<1>4. Policy.maxCount \in Nat /\ Policy.maxNotional \in Nat
  BY PolicyAssumption DEF ValidPolicy, BudgetValid, Count
<1>5. Cardinality(used) <= Policy.maxCount /\ Spent(used) <= Policy.maxNotional
  BY <1>1, <1>2 DEF BudgetOK, DayBudgetHolds
<1>6. /\ b.count = Cardinality(used) /\ b.notional = Spent(used)
      /\ b.maxCount = Policy.maxCount /\ b.maxNotional = Policy.maxNotional
      /\ b.cash = IF opening = None THEN None ELSE opening - Spent(Buys(used))
  BY <1>1 DEF ActivityBudget
<1>7. Buys(used) \in SUBSET used
  BY DEF Buys
<1>8. PICK bought \in Nat : bought = Spent(Buys(used))
  BY <1>2, <1>7, SpentLaws
<1>9. None \notin Nat /\ Unbound \notin Nat /\ Unbound # None
  BY NoneAssumption DEF Unbound
<1>10. opening # None => opening \in Nat /\ bought <= opening
  <2>1. CASE days[Day(t)] = Unbound
    <3>1. bought = 0
      BY <1>2, <1>7, <1>8, <2>1, SpentLaws
    <3> QED BY <2>1, <3>1 DEF SnapshotOK
  <2>2. CASE days[Day(t)] # Unbound
    BY <1>1, <1>2, <1>8, <2>2 DEF BudgetOK, DayBudgetHolds
  <2> QED BY <2>1, <2>2
<1>11. opening # None => opening - bought \in Nat
  BY <1>10
<1>12. opening # None => b.cash \in Nat /\ b.cash = opening - bought
  BY <1>6, <1>8, <1>11
<1>13. opening = None => b.cash = None
  BY <1>6
<1> QED BY <1>1, <1>3, <1>4, <1>5, <1>6, <1>8, <1>9, <1>10, <1>12, <1>13

\* A run leaves every day within its limits, and what it proposes moved.
LEMMA CommitKeepsMoney ==
  ASSUME CashOK, BudgetOK, ProposalMovedLedger, IsFiniteSet(runs),
         NEW p, NEW t \in Times, NEW snap, SnapshotOK(snap),
         Commit(p, t, snap, Outcome(p, t, snap))
  PROVE  BudgetOK' /\ ProposalMovedLedger'
<1> DEFINE o == Outcome(p, t, snap)
<1>i. PICK id : id = Cardinality(runs) + 1
  OBVIOUS
<1>d. PICK D : D = {Decide(p, s, t, snap, id) : s \in Candidates(p, t, snap)}
  OBVIOUS
<1>1. CASE o.status # "COMPLETE"
  <2>1. UNCHANGED tables
    BY <1>1 DEF Commit
  <2>2. UNCHANGED <<transitions, proposals, days>>
    BY <2>1 DEF tables
  <2> QED BY <2>2 DEF BudgetOK, DayBudgetHolds, OnDay, ProposalMovedLedger
<1>2. CASE o.status = "COMPLETE"
  <2>0. o = Ran(id, p, t, snap, D)
    BY <1>d, <1>i DEF Outcome
  <2>d. PICK drafts : drafts = UNION {d.draft : d \in D}
    OBVIOUS
  <2>b. PICK b : b = ActivityBudget(t, snap)
    OBVIOUS
  <2>A. PICK A : A = o.admitted
    OBVIOUS
  <2>1. /\ A = Admitted(b, drafts)
        /\ \A d \in D : ~d.error
        /\ \A d \in D : d.to # None /\ d.draft \subseteq A => RowOf(d, t, id) \in o.moved
    BY <1>2, <2>0, <2>d, <2>b, <2>A, RanAdmits
  <2>2. /\ transitions' = transitions \cup o.moved /\ proposals' = proposals \cup A
        /\ days' = [days EXCEPT ![Day(t)] = IF @ = Unbound THEN snap.cash ELSE @]
    BY <1>2, <2>A DEF Commit
  <2>3. Candidates(p, t, snap) \subseteq Securities
    BY DEF Candidates, Pinned, CashOK, SnapshotOK
  <2>4. ASSUME NEW z \in drafts
        PROVE  \E d \in D : /\ d.draft = {z} /\ d = Decide(p, z.security, t, snap, id)
                            /\ d.to = z.to /\ d.to # None /\ z.security \in Securities
                            /\ z.run = id /\ z.day = Day(t) /\ z.notional \in Nat
    <3>1. PICK d \in D : z \in d.draft
      BY <2>d
    <3>2. PICK s \in Candidates(p, t, snap) : d = Decide(p, s, t, snap, id)
      BY <1>d
    <3>3. Drafts(d, s, t, id)
      BY <3>2, DecideDrafts
    <3>4. ~d.error
      BY <2>1
    <3> QED BY <2>3, <3>1, <3>2, <3>3, <3>4 DEF Drafts
  <2>5. \A y, z \in drafts : y.security = z.security => y = z
    BY <2>4
  <2>6. \A z \in drafts : z.security \in Nat /\ z.notional \in Nat
    BY <2>4, SecuritiesAssumption
  <2>7. IsFiniteSet(drafts)
    <3>1. PICK f : f = [z \in drafts |-> z.security]
      OBVIOUS
    <3>2. f \in [drafts -> Securities]
      BY <2>4, <3>1
    <3>3. f \in Injection(drafts, Securities)
      BY <2>5, <3>1, <3>2 DEF Injection, IsInjective
    <3> QED BY <3>3, SecuritiesAssumption, FS_Injection
  <2>8. PICK opening :
          opening = IF days[Day(t)] = Unbound THEN snap.cash ELSE days[Day(t)]
    OBVIOUS
  <2>9. PICK used : used = OnDay(Day(t))
    OBVIOUS
  <2>10. /\ b.count = Cardinality(used) /\ b.notional = Spent(used)
         /\ b.count \in Nat /\ b.notional \in Nat
         /\ b.maxCount = Policy.maxCount /\ b.maxNotional = Policy.maxNotional
         /\ b.maxCount \in Nat /\ b.maxNotional \in Nat
         /\ b.count <= b.maxCount /\ b.notional <= b.maxNotional
         /\ b.cash # None => b.cash \in Nat /\ b.cash = opening - Spent(Buys(used))
         /\ opening # None => b.cash # None /\ opening \in Nat
         /\ Spent(Buys(used)) \in Nat
    BY <2>b, <2>8, <2>9, DayHasRoom
  <2>11. /\ A \in SUBSET drafts
         /\ b.count + Cardinality(A) <= b.maxCount
         /\ b.notional + Spent(A) <= b.maxNotional
         /\ b.cash # None => Spent(Buys(A)) <= b.cash
    BY <2>1, <2>5, <2>6, <2>7, <2>10, AdmittedWithin
  <2>12. ProposalMovedLedger'
    <3>1. ASSUME NEW z \in A
          PROVE  \E x \in o.moved : x.run = z.run /\ x.security = z.security /\ x.to = z.to
      <4>1. PICK d \in D : /\ d.draft = {z} /\ d = Decide(p, z.security, t, snap, id)
                           /\ d.to = z.to /\ d.to # None /\ z.run = id
        BY <2>4, <2>11
      <4>2. RowOf(d, t, id) \in o.moved
        BY <2>1, <4>1
      <4>3. Moves(d, z.security, id)
        BY <4>1, DecideMoves
      <4> QED BY <4>1, <4>2, <4>3 DEF RowOf, Moves
    <3>2. AllMoved(transitions', proposals')
      BY <2>2, <3>1 DEF ProposalMovedLedger, AllMoved
    <3> QED BY <3>2 DEF ProposalMovedLedger
  <2>13. Day(t) \in Days /\ IsFiniteSet(used) /\ IsFiniteSet(A)
    BY <2>7, <2>9, <2>11, FS_Subset DEF BudgetOK, Days
  <2>14. /\ \A z \in proposals' : z.notional \in Nat
         /\ \A z \in A : z.day = Day(t)
    BY <2>2, <2>4, <2>11 DEF BudgetOK
  <2>15. /\ OnDay(Day(t))' = used \cup A
         /\ \A d \in Days \ {Day(t)} : OnDay(d)' = OnDay(d)
    BY <2>2, <2>9, <2>14 DEF OnDay
  <2>16. /\ DOMAIN days' = Days /\ days' = [d \in Days |-> days'[d]]
         /\ days'[Day(t)] = opening
         /\ \A d \in Days \ {Day(t)} : days'[d] = days[d]
    BY <2>2, <2>8, <2>13 DEF BudgetOK
  <2>17. opening \in Nat \cup {None} /\ Unbound \notin Nat \cup {None}
    <3>1. opening = None \/ opening \in Nat
      BY <2>10
    <3> QED BY <3>1, NoneAssumption DEF Unbound
  <2>18. /\ Cardinality(used \cup A) <= Policy.maxCount
         /\ Spent(used \cup A) <= Policy.maxNotional
         /\ opening # None => Spent(Buys(used \cup A)) <= opening
    <3>1. PICK T : T = used \cup A
      OBVIOUS
    <3>2. IsFiniteSet(T) /\ \A z \in T : z.notional \in Nat
      BY <2>2, <2>9, <2>13, <2>14, <3>1, FS_Union DEF OnDay
    <3>3. /\ used \in SUBSET T /\ A \in SUBSET T /\ Buys(used) \in SUBSET T
          /\ Buys(A) \in SUBSET T /\ Buys(T) \in SUBSET T /\ Buys(T) = Buys(used) \cup Buys(A)
      BY <3>1 DEF Buys
    <3>4. /\ Spent(T) <= Spent(used) + Spent(A)
          /\ Spent(Buys(T)) <= Spent(Buys(used)) + Spent(Buys(A))
          /\ Spent(T) \in Nat /\ Spent(A) \in Nat
          /\ Spent(Buys(A)) \in Nat /\ Spent(Buys(T)) \in Nat
      BY <3>1, <3>2, <3>3, SpentLaws
    <3>5. Cardinality(T) <= Cardinality(used) + Cardinality(A)
      <4>1. /\ Cardinality(T) = Cardinality(used) + Cardinality(A) - Cardinality(used \cap A)
            /\ Cardinality(used \cap A) \in Nat
            /\ Cardinality(used) \in Nat /\ Cardinality(A) \in Nat
        BY <2>13, <3>1, FS_Union, FS_Subset, FS_CardinalityType
      <4> QED BY <4>1
    <3>6. Cardinality(T) \in Nat /\ Cardinality(A) \in Nat
      BY <2>13, <3>2, FS_CardinalityType
    <3>7. Cardinality(T) <= Policy.maxCount
      BY <2>10, <2>11, <3>5, <3>6
    <3>8. Spent(T) <= Policy.maxNotional
      BY <2>10, <2>11, <3>4
    <3>9. ASSUME opening # None PROVE Spent(Buys(T)) <= opening
      <4>1. /\ opening \in Nat /\ b.cash = opening - Spent(Buys(used))
            /\ Spent(Buys(A)) <= b.cash /\ Spent(Buys(used)) \in Nat
        BY <2>10, <2>11, <3>9
      <4> QED BY <3>4, <4>1
    <3> QED BY <3>1, <3>7, <3>8, <3>9
  <2>19. DayBudgetHolds'
    <3>1. ASSUME NEW d \in Days
          PROVE  /\ Cardinality(OnDay(d)') <= Policy.maxCount
                 /\ Spent(OnDay(d)') <= Policy.maxNotional
                 /\ days'[d] \notin {Unbound, None} =>
                      Spent(Buys(OnDay(d)')) <= days'[d]
      <4>1. CASE d = Day(t)
        BY <2>15, <2>16, <2>18, <4>1
      <4>2. CASE d # Day(t)
        BY <2>15, <2>16, <4>2 DEF BudgetOK, DayBudgetHolds
      <4> QED BY <4>1, <4>2
    <3> QED BY <3>1 DEF DayBudgetHolds
  <2>20. ASSUME NEW d \in Days
         PROVE  /\ IsFiniteSet(OnDay(d)')
                /\ days'[d] \in Nat \cup {Unbound, None}
                /\ days'[d] = Unbound => OnDay(d)' = {}
    <3>1. CASE d = Day(t)
      <4>1. IsFiniteSet(used \cup A)
        BY <2>13, FS_Union
      <4> QED BY <2>15, <2>16, <2>17, <3>1, <4>1
    <3>2. CASE d # Day(t)
      BY <2>15, <2>16, <3>2 DEF BudgetOK
    <3> QED BY <3>1, <3>2
  <2>21. BudgetOK'
    BY <2>14, <2>16, <2>19, <2>20 DEF BudgetOK
  <2> QED BY <2>12, <2>21
<1> QED BY <1>1, <1>2

LEMMA MoneyKept ==
  ASSUME MoneyOK, UNCHANGED <<transitions, proposals, days>>, CashOK'
  PROVE  MoneyOK'
<1>1. BudgetOK' /\ ProposalMovedLedger'
  BY DEF MoneyOK, BudgetOK, DayBudgetHolds, OnDay, ProposalMovedLedger
<1> QED BY <1>1 DEF MoneyOK

-----------------------------------------------------------------------------
(* An order is earned.                                                     *)

LEMMA DayIsInt ==
  ASSUME NEW t \in Int
  PROVE  Day(t) \in Int
BY BoundsAssumption DEF Day

\* Observations in the order of their moments and runs.
Dated(rows) ==
  /\ IsFiniteSet(rows) /\ \A o \in rows : o.at \in Int /\ o.run \in Int
  /\ \A o, q \in rows : o.at = q.at /\ o.run = q.run => o = q

\* What the cadence keeps of rows.
Spaced(rows, K) ==
  \A o \in rows :
    o \in K <=> \A q \in K : Earlier(q, o) => Day(o.at) - Day(q.at) >= Policy.cadence

\* The cadence has an answer for every set of observations.
LEMMA SpacedExists ==
  ASSUME NEW rows, Dated(rows)
  PROVE  \E K \in SUBSET rows : Spaced(rows, K)
<1> DEFINE Ok(S) == \E K \in SUBSET S : Spaced(S, K)
<1>b. PICK Bad : Bad = {n \in Nat : \E S \in SUBSET rows : Cardinality(S) = n /\ ~Ok(S)}
  OBVIOUS
<1>1. Bad = {}
  <2>1. SUFFICES ASSUME Bad # {} PROVE FALSE
    OBVIOUS
  <2>2. PICK n \in Bad : \A m \in Bad : n <= m
    BY <1>b, <2>1, LeastExists
  <2>3. PICK S \in SUBSET rows : Cardinality(S) = n /\ ~Ok(S)
    BY <1>b
  <2>4. S # {}
    <3>1. Ok({})
      BY DEF Spaced
    <3> QED BY <2>3, <3>1
  <2>5. IsFiniteSet(S)
    BY FS_Subset DEF Dated
  <2>6. PICK x \in S : \A y \in S : ~Earlier(x, y)
    <3>1. PICK R : R = {e \in S \X S : Earlier(e[1], e[2])}
      OBVIOUS
    <3>2. \A y, z \in S : <<y, z>> \in R <=> Earlier(y, z)
      BY <3>1
    <3>3. \A y, z, w \in S : ~Earlier(y, y) /\ (Earlier(y, z) /\ Earlier(z, w) => Earlier(y, w))
      BY DEF Earlier, Dated
    <3>4. \E y \in S : \A z \in S : <<y, z>> \notin R
      BY <2>4, <2>5, <3>2, <3>3, LastExists
    <3> QED BY <3>2, <3>4
  <2>7. PICK T : T = S \ {x}
    OBVIOUS
  <2>8. Ok(T)
    <3>1. Cardinality(T) \in Nat /\ ~(n <= Cardinality(T)) /\ T \in SUBSET rows
      BY <2>3, <2>5, <2>7, Smaller
    <3> QED BY <1>b, <2>2, <3>1
  <2>9. PICK K \in SUBSET T : Spaced(T, K)
    BY <2>8
  <2>10. PICK L : L = IF \A q \in K : Earlier(q, x) => Day(x.at) - Day(q.at) >= Policy.cadence
                      THEN K \cup {x} ELSE K
    OBVIOUS
  <2>11. L \in SUBSET S /\ K \subseteq L /\ L \subseteq K \cup {x}
    BY <2>7, <2>10
  <2>12. ASSUME NEW o \in S
         PROVE  o \in L <=> \A q \in L : Earlier(q, o) => Day(o.at) - Day(q.at) >= Policy.cadence
    <3>1. \A q \in L : Earlier(q, o) => q \in K
      BY <2>6, <2>11
    <3>2. CASE o = x
      BY <2>7, <2>10, <2>11, <3>1, <3>2
    <3>3. CASE o # x
      <4>1. o \in T /\ (o \in L <=> o \in K)
        BY <2>7, <2>11, <3>3
      <4>2. o \in K <=> \A q \in K : Earlier(q, o) => Day(o.at) - Day(q.at) >= Policy.cadence
        BY <2>9, <4>1 DEF Spaced
      <4> QED BY <2>11, <3>1, <4>1, <4>2
    <3> QED BY <3>2, <3>3
  <2> QED BY <2>3, <2>11, <2>12 DEF Spaced
<1>2. Cardinality(rows) \in Nat /\ rows \in SUBSET rows
  BY FS_CardinalityType DEF Dated
<1> QED BY <1>b, <1>1, <1>2

\* What persistence counts is apart in time and differs in evidence.
LEMMA CountedApart ==
  ASSUME NEW rows, Dated(rows), NEW to, NEW O, O = Trailing(Distinct(Cadenced(rows)), to)
  PROVE  /\ O \in SUBSET rows
         /\ \A o \in O : o.status = "PASS" /\ o.state = to
         /\ \A o, q \in O : o # q => /\ o.evidence # q.evidence
                                     /\ Distance(Day(o.at), Day(q.at)) >= Policy.cadence
<1>1. PICK K : K = Cadenced(rows)
  OBVIOUS
<1>2. K \in SUBSET rows /\ Spaced(rows, K)
  <2>1. Cadenced(rows) = CHOOSE L \in SUBSET rows : Spaced(rows, L)
    BY DEF Cadenced, Spaced
  <2> QED BY <1>1, <2>1, SpacedExists
<1>3. O \in SUBSET K /\ O \in SUBSET Distinct(K)
  BY <1>1 DEF Trailing, Distinct
<1>4. \A o \in O : o.status = "PASS" /\ o.state = to
  BY <1>1, <1>3 DEF Trailing
<1>5. Policy.cadence \in Nat
  BY PolicyAssumption DEF ValidPolicy, SettlementValid, Count
<1>6. ASSUME NEW o \in O, NEW q \in O, Earlier(q, o)
      PROVE  /\ o.evidence # q.evidence
             /\ Distance(Day(o.at), Day(q.at)) >= Policy.cadence
             /\ Distance(Day(q.at), Day(o.at)) >= Policy.cadence
  <2>1. o.evidence # q.evidence
    BY <1>3, <1>6 DEF Distinct
  <2>2. Day(o.at) - Day(q.at) >= Policy.cadence
    BY <1>2, <1>3, <1>6 DEF Spaced
  <2>3. Day(o.at) \in Int /\ Day(q.at) \in Int
    BY <1>2, <1>3, DayIsInt DEF Dated
  <2> HIDE DEF Day
  <2> QED BY <1>5, <2>1, <2>2, <2>3 DEF Distance
<1>7. \A o, q \in O : o = q \/ Earlier(o, q) \/ Earlier(q, o)
  BY <1>2, <1>3 DEF Dated, Earlier
<1> QED BY <1>2, <1>3, <1>4, <1>6, <1>7

\* The epoch of a state is no earlier than any entry into it.
LEMMA EpochCovers ==
  ASSUME RowsOK, NEW s, NEW state, NEW t,
         NEW x \in transitions, x.security = s, x.to = state, x.at <= t
  PROVE  Epoch(s, state, t) \in Int /\ x.at <= Epoch(s, state, t)
<1>1. PICK S : S = {Start} \cup {y.at : y \in {z \in transitions :
                                   z.security = s /\ z.to = state /\ z.at <= t}}
  OBVIOUS
<1>2. S \subseteq Int /\ x.at \in S /\ \A n \in S : n <= LastTime
  BY <1>1, BoundsAssumption DEF RowsOK, Start
<1>3. \E m \in S : \A n \in S : m >= n
  <2>1. PICK m \in S : \A n \in S : n <= m
    <3>1. LastTime \in Int /\ S # {}
      BY <1>2, BoundsAssumption
    <3> QED BY <1>2, <3>1, GreatestExists
  <2>2. \A n \in S : m >= n
    BY <1>2, <2>1
  <2> QED BY <2>2
<1>4. Max(S) \in S /\ \A n \in S : Max(S) >= n
  BY <1>3 DEF Max
<1> QED BY <1>1, <1>2, <1>4 DEF Epoch

\* A decision of run id at t that takes its edge for persistence has counted
\* enough observations, its own among them, for the edge it was asked for.
Persisted(d, s, t, id) ==
  \E e \in Asked(d) :
    /\ d.obs.security = s /\ d.obs.at = t /\ d.obs.run = id
    /\ Persistence(s, e[1], e[2], t, d.obs) >= Policy.controls[e].required

LEMMA ProposePersisted ==
  ASSUME NEW s, NEW from, NEW verdict, NEW cause, NEW set, NEW t, NEW snap, NEW now_,
         NEW id, <<from, verdict.to>> \in Actionable, NEW obs,
         obs = [now_ EXCEPT !.status = "PASS", !.state = verdict.to],
         obs.security = s, obs.at = t, obs.run = id,
         Persistence(s, from, verdict.to, t, obs)
           >= Policy.controls[<<from, verdict.to>>].required,
         NEW d, d = Propose(s, from, verdict, cause, set, t, snap, now_), d.to # None
  PROVE  Persisted(d, s, t, id)
<1> DEFINE stay == Stay(s, from, now_, "PASS", verdict.to)
           z == Size(s, verdict.to, set, snap, t)
<1>1. PICK reason : \/ d = stay
                    \/ d = Drafted(s, from, z, reason, cause, stay, t, snap)
  <2>1. \/ d = stay
        \/ d = Drafted(s, from, z, Reason[verdict.trigger], cause, stay, t, snap)
    BY Zenon DEF Propose
  <2> QED BY <2>1
<1>2. d # stay /\ stay.from = from /\ stay.obs = obs
  BY DEF Stay
<1>3. z.action # None /\ d.to = z.to /\ d.from = from /\ d.obs = stay.obs
  <2>1. PICK e : e = Drafted(s, from, z, reason, cause, stay, t, snap)
    OBVIOUS
  <2>2. d = e
    BY <1>1, <1>2, <2>1
  <2>3. z.action # None
    <3>1. z.action = None => e = stay
      BY <2>1 DEF Drafted
    <3> QED BY <1>2, <2>2, <3>1
  <2>4. e.to = z.to /\ e.from = from /\ e.obs = stay.obs
    BY <2>1, <2>3 DEF Drafted, Stay
  <2> HIDE DEF z, stay
  <2> QED BY <2>2, <2>3, <2>4
<1>4. stay.obs = obs
  BY <1>2
<1>5. z.to = verdict.to \/ (verdict.to = "EXIT" /\ z.to = "TRIM")
  BY <1>3, SizeKeeps
<1>6. PICK e : e = <<from, verdict.to>>
  OBVIOUS
<1>7. e \in Asked(d) /\ e[1] = from /\ e[2] = verdict.to
  BY <1>3, <1>5, <1>6 DEF Asked
<1> QED BY <1>3, <1>4, <1>6, <1>7 DEF Persisted

LEMMA ProposeCause ==
  ASSUME NEW s, NEW from, NEW verdict, NEW cause, NEW set, NEW t, NEW snap, NEW now_,
         NEW d, d = Propose(s, from, verdict, cause, set, t, snap, now_), d.to # None
  PROVE  d.cause = cause
<1> DEFINE stay == Stay(s, from, now_, "PASS", verdict.to)
           z == Size(s, verdict.to, set, snap, t)
<1>1. \/ d = stay
      \/ d = Drafted(s, from, z, Reason[verdict.trigger], cause, stay, t, snap)
  BY Zenon DEF Propose
<1>2. d # stay
  BY DEF Stay
<1> QED BY <1>1, <1>2 DEF Drafted, Stay

LEMMA CausePersists ==
  ASSUME NEW s, NEW edge, NEW verdict, NEW set, NEW head, NEW t, NEW now_,
         CauseOf(s, edge, verdict, set, head, t, now_) = "RULE_PERSISTED",
         CauseOf(s, edge, verdict, set, head, t, now_) # None
  PROVE  Persistence(s, edge[1], edge[2], t, now_) >= Policy.controls[edge].required
<1>1. \/ CauseOf(s, edge, verdict, set, head, t, now_) = "VERIFIED_THESIS_BREAK"
      \/ CauseOf(s, edge, verdict, set, head, t, now_) = None
      \/ Persistence(s, edge[1], edge[2], t, now_) >= Policy.controls[edge].required
      \/ CauseOf(s, edge, verdict, set, head, t, now_) = "MATERIAL_CHANGE"
  BY Zenon DEF CauseOf
<1> QED BY <1>1

LEMMA DecidePersisted ==
  ASSUME NEW p, NEW s, NEW t, NEW snap, NEW id, NEW d, d = Decide(p, s, t, snap, id),
         d.cause = "RULE_PERSISTED", d.to # None,
         <<d.from, d.to>> \in Actionable \ {<<"TRIM", "EXIT">>}
  PROVE  Persisted(d, s, t, id)
<1> DEFINE set == ScoreOf(p, s, t)
           head == Latest(s, t)
           verdict == Eligibility(head.to, Context(s, set, t, snap, snap.held[s] > 0))
           edge == <<head.to, verdict.to>>
           now_ == [security |-> s, run |-> id, at |-> t, status |-> "UNKNOWN",
                    state |-> head.to,
                    score |-> IF set = {} THEN None ELSE <<p, s>>,
                    driven |-> \E z \in set : z.driven,
                    evidence |-> IF set = {} THEN None
                                 ELSE (CHOOSE z \in set : TRUE).evidence]
           passing == [now_ EXCEPT !.status = "PASS", !.state = verdict.to]
           cause == CauseOf(s, edge, verdict, set, head, t, passing)
           acting == IF cause = "VERIFIED_THESIS_BREAK" /\ set = {}
                       THEN [now_ EXCEPT !.score = <<None, s>>] ELSE now_
<1>1. CASE head.to \in Pending
  <2>1. d = Settle(s, head, set, t, snap, now_)
    BY <1>1, Zenon DEF Decide
  <2>2. d.from = head.to
    BY <2>1 DEF Settle, Stay
  <2>3. d.from = "TRIM" /\ d.to = "EXIT"
    BY <1>1, <2>2 DEF Pending, Actionable
  <2> QED BY <2>3
<1>2. CASE head.to \notin Pending /\ verdict.status # "PASS"
  <2>1. d = Stay(s, head.to, now_, verdict.status,
                 IF verdict.to = None THEN head.to ELSE verdict.to)
    BY <1>2, Zenon DEF Decide
  <2>2. \A o, x, y : Stay(s, head.to, o, x, y).to = None
    BY DEF Stay
  <2>3. PICK to : to = IF verdict.to = None THEN head.to ELSE verdict.to
    OBVIOUS
  <2>4. d = Stay(s, head.to, now_, verdict.status, to)
    BY <2>1, <2>3
  <2>5. d.to = None
    BY <2>2, <2>4
  <2> QED BY <2>5
<1>3. CASE head.to \notin Pending /\ verdict.status = "PASS" /\ cause = None
  <2>1. d = Stay(s, head.to, now_, "PASS", verdict.to)
    BY <1>3, Zenon DEF Decide
  <2> QED BY <2>1, StayMoves
<1>4. CASE /\ head.to \notin Pending /\ verdict.status = "PASS" /\ cause # None
           /\ edge \in Actionable
  <2>1. d = Propose(s, head.to, verdict, cause, set, t, snap, acting)
    BY <1>4, Zenon DEF Decide
  <2>2. cause = "RULE_PERSISTED"
    <3> HIDE DEF cause, acting
    <3> QED BY <2>1, ProposeCause
  <2>3. acting = now_
    BY <2>2
  <2>4. Persistence(s, head.to, verdict.to, t, passing) >= Policy.controls[edge].required
    BY <1>4, <2>2, CausePersists
  <2>5. passing.security = s /\ passing.at = t /\ passing.run = id
    OBVIOUS
  <2>6. PICK now1 : now1 = now_
    OBVIOUS
  <2>7. PICK obs : obs = [now1 EXCEPT !.status = "PASS", !.state = verdict.to]
    OBVIOUS
  <2>8. obs = passing
    BY <2>6, <2>7
  <2>9. d = Propose(s, head.to, verdict, cause, set, t, snap, now1)
    <3> HIDE DEF cause, acting, now_
    <3> QED BY <2>1, <2>3, <2>6
  <2>10. obs.security = s /\ obs.at = t /\ obs.run = id
    <3> HIDE DEF passing
    <3> QED BY <2>5, <2>8
  <2>11. Persistence(s, head.to, verdict.to, t, obs) >= Policy.controls[edge].required
    <3> HIDE DEF passing
    <3> QED BY <2>4, <2>8
  <2> HIDE DEF cause, acting, passing, now_
  <2> QED BY <1>4, <2>7, <2>9, <2>10, <2>11, ProposePersisted
<1>5. CASE /\ head.to \notin Pending /\ verdict.status = "PASS" /\ cause # None
           /\ edge \notin Actionable
  <2>1. d = [Stay(s, head.to, acting, "PASS", verdict.to) EXCEPT
               !.to = verdict.to, !.cause = cause]
    BY <1>5, Zenon DEF Decide
  <2>2. d.from = head.to /\ d.to = verdict.to
    BY <2>1 DEF Stay
  <2> QED BY <1>5, <2>2
<1> QED BY <1>1, <1>2, <1>3, <1>4, <1>5

LEMMA ProposeObserves ==
  ASSUME NEW s, NEW from, NEW verdict, NEW cause, NEW set, NEW t, NEW snap, NEW now_,
         NEW d, d = Propose(s, from, verdict, cause, set, t, snap, now_)
  PROVE  d.obs = Stay(s, from, now_, "PASS", verdict.to).obs
<1> DEFINE stay == Stay(s, from, now_, "PASS", verdict.to)
           z == Size(s, verdict.to, set, snap, t)
<1>1. PICK reason : \/ d = stay
                    \/ d = Drafted(s, from, z, reason, cause, stay, t, snap)
  <2>1. \/ d = stay
        \/ d = Drafted(s, from, z, Reason[verdict.trigger], cause, stay, t, snap)
    BY Zenon DEF Propose
  <2> QED BY <2>1
<1>2. PICK e : e = Drafted(s, from, z, reason, cause, stay, t, snap)
  OBVIOUS
<1>3. CASE z.action = None
  BY <1>1, <1>3 DEF Drafted
<1>4. CASE z.action # None
  <2>1. e.obs = stay.obs
    BY <1>2, <1>4 DEF Drafted, Stay
  <2> HIDE DEF z
  <2> QED BY <1>1, <1>2, <2>1
<1> QED BY <1>3, <1>4

\* What a decision records of itself.
LEMMA DecideObserves ==
  ASSUME NEW p, NEW s, NEW t, NEW snap, NEW id
  PROVE  LET o == Decide(p, s, t, snap, id).obs
         IN  o.security = s /\ o.at = t /\ o.run = id
<1> DEFINE set == ScoreOf(p, s, t)
           head == Latest(s, t)
           verdict == Eligibility(head.to, Context(s, set, t, snap, snap.held[s] > 0))
           edge == <<head.to, verdict.to>>
           now_ == [security |-> s, run |-> id, at |-> t, status |-> "UNKNOWN",
                    state |-> head.to,
                    score |-> IF set = {} THEN None ELSE <<p, s>>,
                    driven |-> \E z \in set : z.driven,
                    evidence |-> IF set = {} THEN None
                                 ELSE (CHOOSE z \in set : TRUE).evidence]
           passing == [now_ EXCEPT !.status = "PASS", !.state = verdict.to]
           cause == CauseOf(s, edge, verdict, set, head, t, passing)
           acting == IF cause = "VERIFIED_THESIS_BREAK" /\ set = {}
                       THEN [now_ EXCEPT !.score = <<None, s>>] ELSE now_
           d == Decide(p, s, t, snap, id)
           Mine(o) == /\ {"security", "at", "run", "status", "state"} \subseteq DOMAIN o
                      /\ o.security = s /\ o.at = t /\ o.run = id
<1>0. Mine(now_) /\ Mine(acting)
  <2> HIDE DEF cause
  <2> QED OBVIOUS
<1>s. ASSUME NEW from, NEW o, Mine(o), NEW status, NEW to
      PROVE  LET x == Stay(s, from, o, status, to).obs
             IN  x.security = s /\ x.at = t /\ x.run = id
  BY <1>s DEF Stay
<1> HIDE DEF Mine
<1>1. CASE head.to \in Pending
  <2>1. d = Settle(s, head, set, t, snap, now_)
    BY <1>1, Zenon DEF Decide
  <2>2. \E status, to : Settle(s, head, set, t, snap, now_).obs = Stay(s, head.to, now_, status, to).obs
    <3>1. PICK now1 : now1 = now_
      OBVIOUS
    <3>2. \E status, to : Settle(s, head, set, t, snap, now1).obs = Stay(s, head.to, now1, status, to).obs
      BY DEF Settle, Stay
    <3> QED BY <3>1, <3>2
  <2> HIDE DEF set, head, verdict, now_, cause, acting
  <2> QED BY <1>0, <1>s, <2>1, <2>2
<1>2. CASE head.to \notin Pending /\ verdict.status # "PASS"
  <2>1. \E to : d = Stay(s, head.to, now_, verdict.status, to)
    BY <1>2, Zenon DEF Decide
  <2> HIDE DEF set, head, verdict, now_, cause, acting
  <2> QED BY <1>0, <1>s, <2>1
<1>3. CASE head.to \notin Pending /\ verdict.status = "PASS" /\ cause = None
  <2>1. d = Stay(s, head.to, now_, "PASS", verdict.to)
    BY <1>3, Zenon DEF Decide
  <2> HIDE DEF set, head, verdict, now_, cause, acting
  <2> QED BY <1>0, <1>s, <2>1
<1>4. CASE /\ head.to \notin Pending /\ verdict.status = "PASS" /\ cause # None
           /\ edge \in Actionable
  <2>1. d = Propose(s, head.to, verdict, cause, set, t, snap, acting)
    BY <1>4, Zenon DEF Decide
  <2>2. d.obs = Stay(s, head.to, acting, "PASS", verdict.to).obs
    <3> HIDE DEF d, set, head, verdict, edge, now_, passing, cause, acting
    <3> QED BY <2>1, ProposeObserves
  <2> HIDE DEF set, head, verdict, now_, cause, acting
  <2> QED BY <1>0, <1>s, <2>2
<1>5. CASE /\ head.to \notin Pending /\ verdict.status = "PASS" /\ cause # None
           /\ edge \notin Actionable
  <2>1. d = [Stay(s, head.to, acting, "PASS", verdict.to) EXCEPT
               !.to = verdict.to, !.cause = cause]
    BY <1>5, Zenon DEF Decide
  <2>2. d.obs = Stay(s, head.to, acting, "PASS", verdict.to).obs
    <3> HIDE DEF cause, acting
    <3> QED BY <2>1 DEF Stay
  <2> HIDE DEF set, head, verdict, now_, cause, acting
  <2> QED BY <1>0, <1>s, <2>2
<1> QED BY <1>1, <1>2, <1>3, <1>4, <1>5

\* A complete run is a new one, and records every decision.
LEMMA RanObserves ==
  ASSUME NEW id, NEW p, NEW t, NEW snap, NEW D,
         Ran(id, p, t, snap, D).status = "COMPLETE"
  PROVE  /\ Ran(id, p, t, snap, D).observed = {d.obs : d \in D}
         /\ \A r \in runs : r.identity # Identity(p, t, snap)
<1>1. \A r \in runs : r.identity # Identity(p, t, snap)
  <2>1. SUFFICES ASSUME {r \in runs : r.identity = Identity(p, t, snap)} # {} PROVE FALSE
    OBVIOUS
  <2>2. Ran(id, p, t, snap, D).status \in {"ERROR", "REUSED"}
    BY <2>1 DEF Ran
  <2> QED BY <2>2
<1>2. PICK drafts : drafts = UNION {d.draft : d \in D}
  OBVIOUS
<1>3. PICK seen : seen = {d.obs : d \in D}
  OBVIOUS
<1>4. PICK admitted : admitted = Admitted(ActivityBudget(t, snap), drafts)
  OBVIOUS
<1>5. PICK moved : moved = {[security |-> d.security, from |-> d.from, to |-> d.to,
                             cause |-> d.cause, at |-> t, run |-> id] : d \in Written(D, admitted)}
  OBVIOUS
<1>6. \/ Ran(id, p, t, snap, D).status = "ERROR"
      \/ Ran(id, p, t, snap, D).status = "REUSED"
      \/ Ran(id, p, t, snap, D) =
           [status |-> "COMPLETE", run |-> id, observed |-> seen,
            admitted |-> admitted, moved |-> moved]
  BY <1>2, <1>3, <1>4, <1>5, Zenon DEF Ran
<1> QED BY <1>1, <1>3, <1>6

\* A run keeps the observations dated, and what it moves is earned.
LEMMA CommitKeepsEvidence ==
  ASSUME EvidenceOK, LedgerOK, CashOK, NEW p, NEW t \in Times, NEW snap, SnapshotOK(snap),
         Commit(p, t, snap, Outcome(p, t, snap))
  PROVE  EvidenceOK'
<1> DEFINE o == Outcome(p, t, snap)
<1>i. PICK id : id = Cardinality(runs) + 1
  OBVIOUS
<1>d. PICK D : D = {Decide(p, s, t, snap, id) : s \in Candidates(p, t, snap)}
  OBVIOUS
<1>1. CASE o.status # "COMPLETE"
  <2>1. UNCHANGED <<observations, transitions, runs>>
    BY <1>1 DEF Commit, tables
  <2> QED BY <2>1 DEF EvidenceOK, OrdersAreEarned, Support
<1>2. CASE o.status = "COMPLETE"
  <2>0. o = Ran(id, p, t, snap, D)
    BY <1>d, <1>i DEF Outcome
  <2>1. /\ o.observed = {d.obs : d \in D}
        /\ \A r \in runs : r.identity # Identity(p, t, snap)
    BY <1>2, <2>0, RanObserves
  <2>2. PICK seen : seen = {d.obs : d \in D}
    OBVIOUS
  <2>3. /\ observations' = observations \cup seen
        /\ transitions' = transitions \cup o.moved
    BY <1>2, <2>1, <2>2 DEF Commit
  <2>4. IsFiniteSet(runs') /\ Cardinality(runs') = id /\ id \in Int /\ Cardinality(runs) \in Nat
    <3>1. PICK r : r.identity = Identity(p, t, snap) /\ runs' = runs \cup {r}
      <4>1. PICK r : r = [id |-> o.run, identity |-> Identity(p, t, snap),
                          covered |-> {x.score : x \in o.observed} \ {None}]
        OBVIOUS
      <4>2. runs' = runs \cup {r}
        BY <1>2, <4>1 DEF Commit
      <4> QED BY <4>1, <4>2
    <3>2. r \notin runs
      BY <2>1, <3>1
    <3> QED BY <1>i, <3>1, <3>2, FS_AddElement, FS_CardinalityType DEF LedgerOK
  <2>5. t \in Int /\ t <= LastTime
    BY BoundsAssumption DEF Times
  <2>6. Candidates(p, t, snap) \subseteq Securities
    BY DEF Candidates, Pinned, CashOK, SnapshotOK
  <2>7. \A d \in D : /\ d = Decide(p, d.security, t, snap, id)
                     /\ d.obs.security = d.security /\ d.obs.at = t /\ d.obs.run = id
    <3>1. ASSUME NEW d \in D
          PROVE  /\ d = Decide(p, d.security, t, snap, id)
                 /\ d.obs.security = d.security /\ d.obs.at = t /\ d.obs.run = id
      <4>1. PICK s \in Candidates(p, t, snap) : d = Decide(p, s, t, snap, id)
        BY <1>d
      <4>2. Moves(d, s, id)
        BY <4>1, DecideMoves
      <4>3. d.obs.security = s /\ d.obs.at = t /\ d.obs.run = id
        BY <4>1, DecideObserves
      <4> QED BY <4>1, <4>2, <4>3 DEF Moves
    <3> QED BY <3>1
  <2>8. \A x, y \in seen : x.security = y.security => x = y
    BY <2>2, <2>7
  <2>9. /\ \A x \in o.moved : /\ x.at = t /\ Chains(x, t)
                                /\ \E d \in D : x = RowOf(d, t, id) /\ d.to # None
    <3>1. PICK W \in SUBSET D :
           /\ \A d \in W : d.to # None /\ Chains(d, t)
           /\ \A x \in o.moved : \E d \in W : x = RowOf(d, t, id)
      <4>1. Ran(id, p, t, snap, D).status = "COMPLETE"
        BY <1>2, <2>0
      <4>2. \E W \in SUBSET D :
           /\ \A d \in W : /\ d.to # None /\ Chains(d, t)
                          /\ d.draft \subseteq Ran(id, p, t, snap, D).admitted
           /\ \A x \in Ran(id, p, t, snap, D).moved : \E d \in W : x = RowOf(d, t, id)
        BY <4>1, RanMoves
      <4> QED BY <2>0, <4>2
    <3>2. ASSUME NEW x \in o.moved
          PROVE  /\ x.at = t /\ Chains(x, t)
                 /\ \E d \in D : x = RowOf(d, t, id) /\ d.to # None
      <4>1. PICK d \in W : x = RowOf(d, t, id)
        BY <3>1
      <4>2. x.at = t /\ Chains(x, t)
        BY <3>1, <4>1 DEF Chains, RowOf
      <4> QED BY <3>1, <4>1, <4>2
    <3> QED BY <3>2
  <2>10. IsFiniteSet(seen)
    <3>1. \A d \in D : d.security \in Securities
      <4>1. ASSUME NEW d \in D PROVE d.security \in Securities
        <5>1. PICK s \in Candidates(p, t, snap) : d = Decide(p, s, t, snap, id)
          BY <1>d
        <5>2. Moves(d, s, id)
          BY <5>1, DecideMoves
        <5> QED BY <2>6, <5>2 DEF Moves
      <4> QED BY <4>1
    <3>2. PICK f : f = [x \in seen |-> x.security]
      OBVIOUS
    <3>3. f \in [seen -> Securities]
      BY <2>2, <2>7, <3>1, <3>2
    <3>4. f \in Injection(seen, Securities)
      BY <2>8, <3>2, <3>3 DEF Injection, IsInjective
    <3> QED BY <3>4, SecuritiesAssumption, FS_Injection
  <2>11. /\ IsFiniteSet(observations')
         /\ \A x \in observations' : x.at \in Int /\ x.run \in Int /\ x.run <= id
         /\ \A x, y \in observations' : x.security = y.security /\ x.run = y.run => x = y
    <3>1. IsFiniteSet(observations')
      BY <2>3, <2>10, FS_Union DEF EvidenceOK
    <3>2. \A x \in seen : x.at = t /\ x.run = id
      BY <2>2, <2>7
    <3>3. \A x \in observations : x.at \in Int /\ x.run \in Int /\ x.run < id
      BY <1>i, <2>4 DEF EvidenceOK
    <3> QED BY <2>3, <2>4, <2>5, <2>8, <3>1, <3>2, <3>3 DEF EvidenceOK
  <2>12. OrdersAreEarned'
    <3>1. ASSUME NEW x \in transitions', x.cause = "RULE_PERSISTED", x.run >= 1,
                 <<x.from, x.to>> \in Actionable \ {<<"TRIM", "EXIT">>}
          PROVE  \E e \in Asked(x) : \E O \in SUBSET Support(x, e)' :
                   /\ Cardinality(O) >= Policy.controls[e].required
                   /\ \A y, z \in O : y # z =>
                        /\ y.evidence # z.evidence
                        /\ Distance(Day(y.at), Day(z.at)) >= Policy.cadence
      <4>1. CASE x \in transitions
        <5>0. PICK e \in Asked(x) : \E O \in SUBSET Support(x, e) :
                   /\ Cardinality(O) >= Policy.controls[e].required
                   /\ \A y, z \in O : y # z =>
                        /\ y.evidence # z.evidence
                        /\ Distance(Day(y.at), Day(z.at)) >= Policy.cadence
          BY <3>1, <4>1 DEF EvidenceOK, OrdersAreEarned
        <5>1. PICK O \in SUBSET Support(x, e) :
                   /\ Cardinality(O) >= Policy.controls[e].required
                   /\ \A y, z \in O : y # z =>
                        /\ y.evidence # z.evidence
                        /\ Distance(Day(y.at), Day(z.at)) >= Policy.cadence
          BY <5>0
        <5>2. \A y \in o.moved : y.security = x.security => x.at < y.at
          <6>1. ASSUME NEW y \in o.moved, y.security = x.security PROVE x.at < y.at
            <7>1. y.at = t /\ Chains(y, t)
              BY <2>9, <6>1
            <7>2. PICK rows : rows = {z \in transitions : z.security = x.security}
              OBVIOUS
            <7>3. /\ Latest(x.security, LastTime) \in rows
                  /\ \A z \in rows : z.at <= Latest(x.security, LastTime).at
                  /\ Latest(x.security, LastTime).run # None
              BY <4>1, <7>2, NewestRow DEF LedgerOK
            <7>4. x \in rows /\ \A z \in rows : z.at \in Int
              BY <4>1, <7>2 DEF LedgerOK, RowsOK
            <7>5. t > Latest(x.security, LastTime).at
              BY <6>1, <7>1, <7>3 DEF Chains
            <7> QED BY <2>5, <7>1, <7>3, <7>4, <7>5
          <6> QED BY <6>1
        <5>3. \A y \in o.moved : y.security = x.security => ~(y.at < x.at)
          <6>1. x.at \in Int /\ \A y \in o.moved : y.at \in Int
            BY <2>5, <2>9, <4>1 DEF LedgerOK, RowsOK
          <6> QED BY <5>2, <6>1
        <5>4. Support(x, e) \subseteq Support(x, e)'
          BY <2>3, <5>3 DEF Support
        <5> QED BY <5>1, <5>4
      <4>2. CASE x \in o.moved
        <5>1. PICK d \in D : x = RowOf(d, t, id) /\ d.to # None
          BY <2>9, <4>2
        <5>2. PICK s : s = d.security
          OBVIOUS
        <5>3. PICK e \in Asked(d) :
                Persistence(s, e[1], e[2], t, d.obs) >= Policy.controls[e].required
          <6>1. <<d.from, d.to>> = <<x.from, x.to>> /\ d.cause = "RULE_PERSISTED"
            BY <3>1, <5>1 DEF RowOf
          <6>2. d = Decide(p, s, t, snap, id)
            BY <2>7, <5>2
          <6>3. Persisted(d, s, t, id)
            BY <3>1, <5>1, <6>1, <6>2, DecidePersisted
          <6> QED BY <6>3 DEF Persisted
        <5>4. e \in Asked(x) /\ e \in Actionable /\ e[1] = x.from
          BY <5>1, <5>3 DEF Asked, RowOf
        <5>5. PICK n : n = d.obs
          OBVIOUS
        <5>6. n.security = s /\ n.at = t /\ n.run = id /\ n \in seen
          BY <2>2, <2>7, <5>2, <5>5
        <5>7. PICK rows : rows = Counted(s, e[1], t, n)
          OBVIOUS
        <5>8. PICK O : O = Trailing(Distinct(Cadenced(rows)), e[2])
          OBVIOUS
        <5>9. Cardinality(O) >= Policy.controls[e].required
          <6>1. Policy.controls[e].required \in Nat /\ Policy.controls[e].required >= 1
            BY <5>4, PolicyAssumption DEF ValidPolicy, ControlsValid, Count, Edges, Actionable
          <6>2. \/ Persistence(s, e[1], e[2], t, n) = 0
                \/ Persistence(s, e[1], e[2], t, n) = Cardinality(O)
            BY <5>7, <5>8 DEF Persistence
          <6> QED BY <5>3, <5>5, <6>1, <6>2
        <5>10. /\ rows \in SUBSET (observations \cup {n})
               /\ \A y \in rows : y.security = s /\ y.driven /\ y.at <= t
               /\ \A y \in rows : y = n \/ (y.at < t /\ y.at > Epoch(s, e[1], t))
          BY <2>5, <5>6, <5>7 DEF Counted, EvidenceOK
        <5>11. Dated(rows)
          <6>1. IsFiniteSet(observations \cup {n})
            BY FS_AddElement DEF EvidenceOK
          <6>2. IsFiniteSet(rows)
            BY <5>10, <6>1, FS_Subset
          <6> QED BY <2>4, <2>5, <5>6, <5>10, <6>2 DEF Dated, EvidenceOK
        <5>12. /\ O \in SUBSET rows
               /\ \A y \in O : y.status = "PASS" /\ y.state = e[2]
               /\ \A y, z \in O : y # z =>
                    /\ y.evidence # z.evidence
                    /\ Distance(Day(y.at), Day(z.at)) >= Policy.cadence
          BY <5>8, <5>11, CountedApart
        <5>13. x.security = s /\ x.at = t
          BY <5>1, <5>2 DEF RowOf
        <5>14. ASSUME NEW y \in transitions', y.security = s, y.at < t,
                      NEW z \in rows
               PROVE  z.at > y.at
          <6>1. y \in transitions
            BY <2>3, <2>5, <2>9, <5>14
          <6>2. PICK led : led = {w \in transitions : w.security = s}
            OBVIOUS
          <6>3. /\ Latest(s, LastTime) \in led
                /\ \A w \in led : w.at <= Latest(s, LastTime).at
                /\ Latest(s, LastTime).run # None
            BY <5>14, <6>1, <6>2, NewestRow DEF LedgerOK
          <6>4. PICK l \in led : l = Latest(s, LastTime)
            BY <6>3
          <6>5. t > l.at /\ l.to = e[1]
            BY <2>9, <4>2, <5>4, <5>13, <6>3, <6>4 DEF Chains
          <6>6. l.at \in Int /\ y.at \in Int /\ y.at <= l.at
            BY <5>14, <6>1, <6>2, <6>3, <6>4 DEF LedgerOK, RowsOK
          <6>7. Epoch(s, e[1], t) \in Int /\ l.at <= Epoch(s, e[1], t)
            BY <2>5, <6>2, <6>5, <6>6, EpochCovers DEF LedgerOK
          <6>8. z.at \in Int
            BY <5>11 DEF Dated
          <6> QED BY <2>5, <5>6, <5>10, <5>14, <6>5, <6>6, <6>7, <6>8
        <5>15. O \subseteq Support(x, e)'
          BY <2>3, <5>6, <5>10, <5>12, <5>13, <5>14 DEF Support
        <5> QED BY <5>4, <5>9, <5>12, <5>15
      <4> QED BY <2>3, <4>1, <4>2
    <3> QED BY <3>1 DEF OrdersAreEarned
  <2> QED BY <2>4, <2>11, <2>12 DEF EvidenceOK
<1> QED BY <1>1, <1>2

-----------------------------------------------------------------------------
(* The jobs and the moments they decide at.                                *)

LEMMA IdleJob == Shaped(Idle) /\ Idle.pc = "idle" /\ Idle.todo = {}
BY DEF Idle, Shaped

\* A step that changes the locals of one job leaves every job its shape.
LEMMA JobMoves ==
  ASSUME JobsOK, NEW j \in Jobs, NEW q, job' = [job EXCEPT ![j] = q], Shaped(q)
  PROVE  JobsOK' /\ job'[j] = q /\ \A i \in Jobs \ {j} : job'[i] = job[i]
<1>1. job' = [i \in Jobs |-> IF i = j THEN q ELSE job[i]]
  BY DEF JobsOK
<1>2. job'[j] = q /\ \A i \in Jobs \ {j} : job'[i] = job[i]
  BY <1>1
<1>3. \A i \in Jobs : Shaped(job'[i])
  BY <1>2 DEF JobsOK
<1>4. DOMAIN job' = Jobs /\ job' = [i \in Jobs |-> job'[i]]
  BY <1>1
<1> QED BY <1>2, <1>3, <1>4 DEF JobsOK

\* What a call of the engine does to its job.
LEMMA RunMovesJob ==
  ASSUME JobsOK, NEW j \in Jobs, NEW p, NEW t, NEW snap, NEW rest,
         RunAndGo(j, p, t, snap, rest)
  PROVE  /\ JobsOK' /\ proposals \subseteq proposals'
         /\ job'[j].pc \in {"export", rest} /\ job'[j].todo = job[j].todo
         /\ \A i \in Jobs \ {j} : job'[i] = job[i]
<1>1. Shaped(job[j])
  BY DEF JobsOK
<1>4. proposals \subseteq proposals'
  BY DEF RunAndGo, Commit, tables
<1>2. CASE \E r : job' = [job EXCEPT ![j].pc = "export", ![j].run = r, ![j].left = {}]
  <2>1. PICK r : job' = [job EXCEPT ![j].pc = "export", ![j].run = r, ![j].left = {}]
    BY <1>2
  <2>2. PICK q : q = [job[j] EXCEPT !.pc = "export", !.run = r, !.left = {}]
    OBVIOUS
  <2>3. job' = [job EXCEPT ![j] = q]
    BY <2>1, <2>2
  <2>4. q = [pc |-> "export", pipeline |-> job[j].pipeline, todo |-> job[j].todo,
             set |-> job[j].set, run |-> r, left |-> {}, proposal |-> job[j].proposal]
    BY <1>1, <2>2 DEF Shaped
  <2>5. Shaped(q) /\ q.pc = "export" /\ q.todo = job[j].todo
    BY <2>4 DEF Shaped
  <2> QED BY <1>4, <2>3, <2>5, JobMoves
<1>3. CASE job' = [job EXCEPT ![j].pc = rest]
  <2>1. PICK q : q = [job[j] EXCEPT !.pc = rest]
    OBVIOUS
  <2>2. job' = [job EXCEPT ![j] = q]
    BY <1>3, <2>1
  <2>3. q = [pc |-> rest, pipeline |-> job[j].pipeline, todo |-> job[j].todo,
             set |-> job[j].set, run |-> job[j].run, left |-> job[j].left,
             proposal |-> job[j].proposal]
    BY <1>1, <2>1 DEF Shaped
  <2>4. Shaped(q) /\ q.pc = rest /\ q.todo = job[j].todo
    BY <2>3 DEF Shaped
  <2> QED BY <1>4, <2>2, <2>4, JobMoves
<1>5. \/ \E r : job' = [job EXCEPT ![j].pc = "export", ![j].run = r, ![j].left = {}]
      \/ job' = [job EXCEPT ![j].pc = rest]
  BY DEF RunAndGo
<1> QED BY <1>2, <1>3, <1>5

LEMMA RunKeepsLedger ==
  ASSUME LedgerOK, NEW j \in Jobs, NEW p, NEW t \in Times, NEW snap, NEW rest,
         RunAndGo(j, p, t, snap, rest)
  PROVE  LedgerOK'
<1>1. CASE UNCHANGED tables
  BY <1>1 DEF LedgerOK, tables, RowsOK, LedgerIsChain, PendingHasProposal
<1>2. CASE Commit(p, t, snap, Outcome(p, t, snap))
  BY <1>2, CommitChains
<1> QED BY <1>1, <1>2 DEF RunAndGo

\* The newest moment of a score set, and the stable epoch for it, are moments
\* of the model.
LEMMA EpochIsMoment ==
  ASSUME MomentsOK, NEW S, S \subseteq scores, S # {},
         NEW e \in Epochs(Max({z.at : z \in S}))
  PROVE  e[1] \in Times
<1>1. PICK moments : moments = {z.at : z \in S}
  OBVIOUS
<1>2. moments \subseteq Times /\ moments # {}
  BY <1>1 DEF MomentsOK
<1>3. moments \subseteq Int /\ LastTime \in Int /\ \A m \in moments : m <= LastTime
  BY <1>2, BoundsAssumption DEF Times
<1>4. PICK m \in moments : \A n \in moments : n <= m
  BY <1>2, <1>3, GreatestExists
<1>5. \A n \in moments : m >= n
  BY <1>3, <1>4
<1>6. Max(moments) \in moments
  BY <1>5 DEF Max
<1>7. CASE HandoffAt(Max(moments)) # {}
  <2>1. e \in {<<Max(moments), h>> : h \in HandoffAt(Max(moments))}
    BY <1>1, <1>7 DEF Epochs
  <2> QED BY <1>2, <1>6, <2>1
<1>8. CASE HandoffAt(Max(moments)) = {}
  <2>1. PICK later : later = {h \in history : h.at >= Max(moments) /\ Valid(h)}
    OBVIOUS
  <2>2. e \in {<<h.at, h>> : h \in {g \in later : \A f \in later : g.at <= f.at}}
    BY <1>1, <1>8, <2>1 DEF Epochs
  <2>3. PICK h \in later : e = <<h.at, h>>
    BY <2>2
  <2> QED BY <2>1, <2>3 DEF MomentsOK
<1> QED BY <1>7, <1>8

\* The cash of a handoff the callers may use is a number, and not negative.
LEMMA HandoffUsable ==
  ASSUME CashOK, NEW h \in history, Valid(h)
  PROVE  SnapshotOK(h)
<1>1. h.cash \in Int /\ h.rows \subseteq Securities /\ h.cash # None
  BY NoneAssumption DEF CashOK
<1> QED BY <1>1 DEF Valid, SnapshotOK

LEMMA EpochUsable ==
  ASSUME CashOK, NEW ready, NEW e \in Epochs(ready)
  PROVE  SnapshotOK(e[2])
<1>1. PICK h \in history : e[2] = h /\ Valid(h)
  <2>1. CASE HandoffAt(ready) # {}
    <3>1. PICK h \in HandoffAt(ready) : e = <<ready, h>>
      BY <2>1 DEF Epochs
    <3> QED BY <3>1 DEF HandoffAt
  <2>2. CASE HandoffAt(ready) = {}
    <3>1. PICK later : later = {h \in history : h.at >= ready /\ Valid(h)}
      OBVIOUS
    <3>2. e \in {<<h.at, h>> : h \in {g \in later : \A f \in later : g.at <= f.at}}
      BY <2>2, <3>1 DEF Epochs
    <3>3. PICK h \in later : e = <<h.at, h>>
      BY <3>2
    <3> QED BY <3>1, <3>3
  <2> QED BY <2>1, <2>2
<1> QED BY <1>1, HandoffUsable

LEMMA RunKeepsMoney ==
  ASSUME MoneyOK, LedgerOK, NEW j \in Jobs, NEW p, NEW t \in Times, NEW snap,
         SnapshotOK(snap), NEW rest, RunAndGo(j, p, t, snap, rest),
         UNCHANGED <<scores, account, history>>
  PROVE  MoneyOK'
<1>1. CASE UNCHANGED tables
  BY <1>1, MoneyKept DEF tables, MoneyOK, CashOK
<1>2. CASE Commit(p, t, snap, Outcome(p, t, snap))
  <2>1. CashOK'
    BY DEF MoneyOK, CashOK
  <2> QED BY <1>2, <2>1, CommitKeepsMoney DEF MoneyOK, LedgerOK
<1> QED BY <1>1, <1>2 DEF RunAndGo

-----------------------------------------------------------------------------
(* What the parts of the invariant need of a step.                         *)

LEMMA ExportKept ==
  ASSUME ExportOK, authority \subseteq authority', proposals \subseteq proposals',
         inbox' \cup taken' \subseteq inbox \cup taken,
         \A j \in Jobs : job'[j].pc = "envelope" =>
           job[j].pc = "envelope" /\ job'[j].proposal = job[j].proposal
  PROVE  ExportOK'
BY DEF ExportOK, EnvelopeIsAuthorised

LEMMA MomentsKept ==
  ASSUME MomentsOK, UNCHANGED <<scores, now, history, bound>>
  PROVE  MomentsOK'
BY DEF MomentsOK

LEMMA FinalizerKept ==
  ASSUME FinalizerOK, scores \subseteq scores',
         \/ job'["finalizer"] = job["finalizer"]
         \/ /\ job'["finalizer"].todo \subseteq job["finalizer"].todo
            /\ job'["finalizer"].pc # "find"
  PROVE  FinalizerOK'
BY DEF FinalizerOK

LEMMA LedgerKept ==
  ASSUME LedgerOK, UNCHANGED <<transitions, runs>>, proposals \subseteq proposals'
  PROVE  LedgerOK'
<1>1. PendingHasProposal'
  BY DEF LedgerOK, PendingHasProposal, AllProposed
<1> QED BY <1>1 DEF LedgerOK, RowsOK, LedgerIsChain

-----------------------------------------------------------------------------
(* Every action keeps the invariant.                                       *)

LEMMA OutsideKeeps ==
  ASSUME DecisionsInv,
         \/ Clock \/ Reconcile
         \/ \E p \in Pipelines, s \in Securities, k \in bound.kinds : Score(p, s, k)
         \/ \E s \in Securities, b \in BOOLEAN : Verify(s, b)
         \/ \E z \in inbox : Execute(z)
  PROVE  DecisionsInv'
<1>1. UNCHANGED <<transitions, runs, proposals, days, job, authority, bound>>
  BY DEF Clock, Reconcile, Score, Verify, Execute, tables, outside
<1>2. scores \subseteq scores' /\ inbox' \cup taken' \subseteq inbox \cup taken
  BY DEF Clock, Reconcile, Score, Verify, Execute, inputs, outside
<1>3. JobsOK' /\ ExportOK' /\ FinalizerOK' /\ LedgerOK'
  BY <1>1, <1>2, ExportKept, FinalizerKept, LedgerKept DEF DecisionsInv, JobsOK
<1>4. MomentsOK'
  <2>1. CASE Clock
    <3>1. now' \in Times
      BY <2>1, BoundsAssumption DEF Clock, DecisionsInv, MomentsOK, Times
    <3> QED BY <2>1, <3>1 DEF Clock, inputs, outside, DecisionsInv, MomentsOK
  <2>2. CASE Reconcile
    <3>1. Handoff.at = now
      BY DEF Handoff
    <3> QED BY <2>2, <3>1 DEF Reconcile, inputs, outside, DecisionsInv, MomentsOK
  <2>3. ASSUME NEW p \in Pipelines, NEW s \in Securities, NEW k \in bound.kinds,
               Score(p, s, k)
        PROVE  MomentsOK'
    <3>1. PICK z :
            z = [pipeline |-> p, security |-> s, at |-> now, changed |-> now,
                 conviction |-> k.conviction, quality |-> Ppm, agreement |-> Ppm,
                 trajectory |-> k.trajectory, delta |-> k.delta, driven |-> k.driven,
                 evidence |-> IF k.driven THEN p ELSE 0]
      OBVIOUS
    <3>2. scores' = scores \cup {z} /\ z.at = now /\ z.pipeline = p
      BY <2>3, <3>1 DEF Score
    <3> QED BY <2>3, <3>2 DEF Score, outside, DecisionsInv, MomentsOK
  <2>4. ASSUME NEW s \in Securities, NEW b \in BOOLEAN, Verify(s, b) PROVE MomentsOK'
    BY <2>4, MomentsKept DEF Verify, outside, DecisionsInv
  <2>5. ASSUME NEW z \in inbox, Execute(z) PROVE MomentsOK'
    BY <2>5, MomentsKept DEF Execute, inputs, DecisionsInv
  <2> QED BY <2>1, <2>2, <2>3, <2>4, <2>5
<1>5. CashOK'
  <2>0. CashOK
    BY DEF DecisionsInv, MoneyOK
  <2>1. CASE Clock
    BY <2>0, <2>1 DEF Clock, inputs, CashOK
  <2>2. CASE Reconcile
    <3>1. Handoff.cash = account.cash /\ Handoff.rows \subseteq Securities
      BY DEF Handoff
    <3> QED BY <2>0, <2>2, <3>1 DEF Reconcile, inputs, CashOK
  <2>3. ASSUME NEW p \in Pipelines, NEW s \in Securities, NEW k \in bound.kinds,
               Score(p, s, k)
        PROVE  CashOK'
    <3>1. PICK z :
            z = [pipeline |-> p, security |-> s, at |-> now, changed |-> now,
                 conviction |-> k.conviction, quality |-> Ppm, agreement |-> Ppm,
                 trajectory |-> k.trajectory, delta |-> k.delta, driven |-> k.driven,
                 evidence |-> IF k.driven THEN p ELSE 0]
      OBVIOUS
    <3>2. scores' = scores \cup {z} /\ z.security = s
      BY <2>3, <3>1 DEF Score
    <3> QED BY <2>0, <2>3, <3>2 DEF Score, CashOK
  <2>4. ASSUME NEW s \in Securities, NEW b \in BOOLEAN, Verify(s, b) PROVE CashOK'
    BY <2>0, <2>4 DEF Verify, CashOK
  <2>5. ASSUME NEW z \in inbox, Execute(z) PROVE CashOK'
    <3>1. z.notional \in Nat
      BY DEF DecisionsInv, ExportOK, EnvelopeIsAuthorised, MoneyOK, BudgetOK
    <3>2. account'.cash \in {account.cash - z.notional, account.cash + z.notional}
      BY <2>5 DEF Execute
    <3> QED BY <2>0, <2>5, <3>1, <3>2 DEF Execute, inputs, CashOK
  <2> QED BY <2>1, <2>2, <2>3, <2>4, <2>5
<1>6. MoneyOK'
  BY <1>1, <1>5, MoneyKept DEF DecisionsInv
<1> QED BY <1>1, <1>3, <1>4, <1>6 DEF DecisionsInv

LEMMA StartCycleKeeps ==
  ASSUME DecisionsInv, NEW p \in Pipelines, StartCycle(p)
  PROVE  DecisionsInv'
<1>1. PICK h \in HandoffAt(now) : RunAndGo("cycle", p, now, h, "idle")
  BY DEF StartCycle
<1>2. now \in Times /\ UNCHANGED <<scores, now, account, history, outside>>
  BY DEF StartCycle, inputs, DecisionsInv, MomentsOK
<1>3. "cycle" \in Jobs /\ Jobs \ {"cycle"} = {"finalizer"}
  BY DEF Jobs
<1>4. /\ JobsOK' /\ proposals \subseteq proposals'
      /\ job'["cycle"].pc \in {"export", "idle"}
      /\ job'["finalizer"] = job["finalizer"]
  BY <1>1, <1>3, RunMovesJob DEF DecisionsInv
<1>5. LedgerOK'
  BY <1>1, <1>2, <1>3, RunKeepsLedger DEF DecisionsInv
<1>6. ExportOK' /\ MomentsOK' /\ FinalizerOK'
  BY <1>2, <1>3, <1>4, ExportKept, MomentsKept, FinalizerKept
     DEF DecisionsInv, outside, Jobs
<1>7. SnapshotOK(h)
  BY HandoffUsable DEF HandoffAt, DecisionsInv, MoneyOK
<1>8. MoneyOK'
  BY <1>1, <1>2, <1>3, <1>7, RunKeepsMoney DEF DecisionsInv
<1> QED BY <1>4, <1>5, <1>6, <1>8 DEF DecisionsInv

LEMMA OperatorRunKeeps ==
  ASSUME DecisionsInv, NEW p \in Pipelines, NEW t \in Times, NEW v \in Views,
         OperatorRun(p, t, v)
  PROVE  DecisionsInv'
<1>1. PICK snap : snap = OperatorSnapshot(t, v)
  OBVIOUS
<1>2. /\ Valid(snap) /\ Commit(p, t, snap, Outcome(p, t, snap))
      /\ UNCHANGED <<inputs, now, account, history, job, outside>>
  BY <1>1 DEF OperatorRun
<1>3. proposals \subseteq proposals'
  BY <1>2 DEF Commit, tables
<1>4. LedgerOK'
  BY <1>2, CommitChains DEF DecisionsInv
<1>5. JobsOK' /\ ExportOK' /\ MomentsOK' /\ FinalizerOK'
  BY <1>2, <1>3, ExportKept, MomentsKept, FinalizerKept
     DEF DecisionsInv, inputs, outside, JobsOK
<1>6. SnapshotOK(snap)
  <2>1. snap.rows \subseteq Securities /\ snap.cash \in {account.cash, None}
    BY <1>1 DEF OperatorSnapshot
  <2> QED BY <1>2, <2>1 DEF Valid, SnapshotOK, DecisionsInv, MoneyOK, CashOK
<1>7. MoneyOK'
  <2>1. CashOK'
    BY <1>2 DEF DecisionsInv, MoneyOK, CashOK, inputs
  <2> QED BY <1>2, <1>6, <2>1, CommitKeepsMoney DEF DecisionsInv, MoneyOK, LedgerOK
<1> QED BY <1>4, <1>5, <1>7 DEF DecisionsInv

\* A step of one job that writes nothing and does not lead to an envelope.
LEMMA JobOnlyKeeps ==
  ASSUME DecisionsInv, NEW j \in Jobs, NEW q, Shaped(q), job' = [job EXCEPT ![j] = q],
         UNCHANGED <<inputs, tables, now, account, history, outside>>, q.pc # "envelope",
         j = "finalizer" =>
           /\ q.todo \subseteq {z.pipeline : z \in scores}
           /\ q.pc = "find" => q.set \subseteq scores /\ q.set # {}
  PROVE  DecisionsInv'
<1>1. JobsOK' /\ job'[j] = q /\ \A i \in Jobs \ {j} : job'[i] = job[i]
  BY JobMoves DEF DecisionsInv
<1>2. ExportOK' /\ MomentsOK' /\ LedgerOK'
  BY <1>1, ExportKept, MomentsKept, LedgerKept DEF DecisionsInv, inputs, tables, outside
<1>3. FinalizerOK'
  <2>1. CASE j = "finalizer"
    BY <1>1, <2>1 DEF FinalizerOK, inputs
  <2>2. CASE j # "finalizer"
    BY <1>1, <2>2, FinalizerKept DEF DecisionsInv, Jobs, inputs
  <2> QED BY <2>1, <2>2
<1>4. MoneyOK'
  BY MoneyKept DEF DecisionsInv, MoneyOK, CashOK, inputs, tables
<1> QED BY <1>1, <1>2, <1>3, <1>4 DEF DecisionsInv

LEMMA StartTickKeeps ==
  ASSUME DecisionsInv, StartTick
  PROVE  DecisionsInv'
<1>1. PICK q : q = [Idle EXCEPT !.pc = "next", !.todo = {z.pipeline : z \in scores}]
  OBVIOUS
<1>2. Shaped(q) /\ q.pc = "next" /\ q.todo = {z.pipeline : z \in scores}
  BY <1>1 DEF Idle, Shaped
<1>3. job' = [job EXCEPT !["finalizer"] = q]
  BY <1>1 DEF StartTick
<1> QED BY <1>2, <1>3, JobOnlyKeeps DEF StartTick, Jobs

LEMMA NextPipelineKeeps ==
  ASSUME DecisionsInv, NextPipeline
  PROVE  DecisionsInv'
<1> DEFINE f == job["finalizer"]
<1>1. f.todo \subseteq {z.pipeline : z \in scores} /\ Shaped(f) /\ "finalizer" \in Jobs
  BY DEF DecisionsInv, FinalizerOK, JobsOK, Jobs
<1>2. CASE f.todo = {}
  <2>1. job' = [job EXCEPT !["finalizer"] = Idle]
    BY <1>2 DEF NextPipeline
  <2> QED BY <1>1, <2>1, IdleJob, JobOnlyKeeps DEF NextPipeline
<1>3. CASE f.todo # {}
  <2>1. PICK todo : todo = f.todo
    OBVIOUS
  <2>2. todo \subseteq Nat /\ todo # {}
    BY <1>1, <1>3, <2>1, PipelinesAssumption DEF DecisionsInv, MomentsOK
  <2>3. Min(todo) \in todo
    BY <2>2, LeastExists DEF Min
  <2>4. PICK p : p = Min(todo)
    OBVIOUS
  <2>5. PICK set : set = Pinned(p, LastTime)
    OBVIOUS
  <2>6. set \subseteq scores /\ set # {}
    <3>1. PICK z \in scores : z.pipeline = p
      BY <1>1, <2>1, <2>3, <2>4
    <3>2. z.at <= LastTime
      BY <3>1, BoundsAssumption DEF DecisionsInv, MomentsOK, Times
    <3> QED BY <2>5, <3>1, <3>2 DEF Pinned
  <2>7. PICK q : q = [f EXCEPT !.pc = "find", !.pipeline = p, !.todo = @ \ {p}, !.set = set]
    OBVIOUS
  <2>8. q = [pc |-> "find", pipeline |-> p, todo |-> f.todo \ {p}, set |-> set,
             run |-> f.run, left |-> f.left, proposal |-> f.proposal]
    BY <1>1, <2>7 DEF Shaped
  <2>9. Shaped(q) /\ q.pc = "find" /\ q.todo \subseteq f.todo /\ q.set = set
    BY <2>8 DEF Shaped
  <2>10. job' = [job EXCEPT !["finalizer"] = q]
    BY <1>3, <2>1, <2>4, <2>5, <2>7 DEF NextPipeline
  <2> QED BY <1>1, <2>6, <2>9, <2>10, JobOnlyKeeps DEF NextPipeline
<1> QED BY <1>2, <1>3

LEMMA FinalizeKeeps ==
  ASSUME DecisionsInv, Finalize
  PROVE  DecisionsInv'
<1> DEFINE f == job["finalizer"]
           p == f.pipeline
           done == Finalized(p, f.set)
           ready == Max({z.at : z \in f.set})
<1>1. f.todo \subseteq {z.pipeline : z \in scores} /\ Shaped(f) /\ "finalizer" \in Jobs
  BY DEF DecisionsInv, FinalizerOK, JobsOK, Jobs
<1>2. CASE \E r : /\ job' = [job EXCEPT !["finalizer"] =
                              [f EXCEPT !.pc = "export", !.left = {}, !.run = r]]
                  /\ UNCHANGED tables
  <2>1. PICK r : job' = [job EXCEPT !["finalizer"] =
                           [f EXCEPT !.pc = "export", !.left = {}, !.run = r]]
    BY <1>2
  <2>2. PICK q : q = [f EXCEPT !.pc = "export", !.left = {}, !.run = r]
    OBVIOUS
  <2>3. q = [pc |-> "export", pipeline |-> f.pipeline, todo |-> f.todo, set |-> f.set,
             run |-> r, left |-> {}, proposal |-> f.proposal]
    BY <1>1, <2>2 DEF Shaped
  <2>4. Shaped(q) /\ q.pc = "export" /\ q.todo = f.todo
    BY <2>3 DEF Shaped
  <2>5. job' = [job EXCEPT !["finalizer"] = q]
    BY <2>1, <2>2
  <2> QED BY <1>1, <1>2, <2>4, <2>5, JobOnlyKeeps DEF Finalize
<1>3. CASE job' = [job EXCEPT !["finalizer"].pc = "next"] /\ UNCHANGED tables
  <2>2. PICK q : q = [f EXCEPT !.pc = "next"]
    OBVIOUS
  <2>3. q = [pc |-> "next", pipeline |-> f.pipeline, todo |-> f.todo, set |-> f.set,
             run |-> f.run, left |-> f.left, proposal |-> f.proposal]
    BY <1>1, <2>2 DEF Shaped
  <2>4. Shaped(q) /\ q.pc = "next" /\ q.todo = f.todo
    BY <2>3 DEF Shaped
  <2>5. job' = [job EXCEPT !["finalizer"] = q]
    BY <1>3, <2>2
  <2> QED BY <1>1, <1>3, <2>4, <2>5, JobOnlyKeeps DEF Finalize
<1>4. CASE \E e \in Epochs(ready) : RunAndGo("finalizer", p, e[1], e[2], "next")
  <2>1. PICK e \in Epochs(ready) : RunAndGo("finalizer", p, e[1], e[2], "next")
    BY <1>4
  <2>2. e[1] \in Times
    BY <2>1, EpochIsMoment DEF DecisionsInv, FinalizerOK, Finalize
  <2>3. LedgerOK'
    BY <1>1, <2>1, <2>2, RunKeepsLedger DEF DecisionsInv
  <2>4. /\ JobsOK' /\ proposals \subseteq proposals'
        /\ job'["finalizer"].pc \in {"export", "next"}
        /\ job'["finalizer"].todo = f.todo
        /\ \A i \in Jobs \ {"finalizer"} : job'[i] = job[i]
    BY <1>1, <2>1, RunMovesJob DEF DecisionsInv
  <2>5. ExportOK' /\ MomentsOK' /\ FinalizerOK'
    BY <2>4, ExportKept, MomentsKept, FinalizerKept
       DEF DecisionsInv, Finalize, inputs, outside
  <2>6. SnapshotOK(e[2])
    BY EpochUsable DEF DecisionsInv, MoneyOK
  <2>7. MoneyOK'
    BY <1>1, <2>1, <2>2, <2>6, RunKeepsMoney DEF DecisionsInv, Finalize, inputs
  <2> QED BY <2>3, <2>4, <2>5, <2>7 DEF DecisionsInv
<1>5. \/ \E r : /\ job' = [job EXCEPT !["finalizer"] =
                            [f EXCEPT !.pc = "export", !.left = {}, !.run = r]]
                /\ UNCHANGED tables
      \/ job' = [job EXCEPT !["finalizer"].pc = "next"] /\ UNCHANGED tables
      \/ \E e \in Epochs(ready) : RunAndGo("finalizer", p, e[1], e[2], "next")
  BY Zenon DEF Finalize
<1> QED BY <1>2, <1>3, <1>4, <1>5

\* The authority record comes first: the proposal of an envelope has one.
LEMMA PublishKeeps ==
  ASSUME DecisionsInv, NEW j \in Jobs, NEW z \in proposals, Publish(j, z)
  PROVE  DecisionsInv'
<1>0. Shaped(job[j])
  BY DEF DecisionsInv, JobsOK
<1>1. PICK q : q = [job[j] EXCEPT !.pc = "envelope", !.proposal = z]
  OBVIOUS
<1>2. q = [pc |-> "envelope", pipeline |-> job[j].pipeline, todo |-> job[j].todo,
           set |-> job[j].set, run |-> job[j].run, left |-> job[j].left, proposal |-> z]
  BY <1>0, <1>1 DEF Shaped
<1>3. Shaped(q) /\ q.pc = "envelope" /\ q.proposal = z /\ q.todo = job[j].todo
  BY <1>2 DEF Shaped
<1>4. job' = [job EXCEPT ![j] = q]
  BY <1>1 DEF Publish
<1>5. JobsOK' /\ job'[j] = q /\ \A i \in Jobs \ {j} : job'[i] = job[i]
  BY <1>3, <1>4, JobMoves DEF DecisionsInv
<1>6. /\ UNCHANGED <<scores, transitions, runs, proposals, days, now, account,
                       history, inbox, taken, bound>>
      /\ authority' = authority \cup {z}
  BY DEF Publish, inputs, tables
<1>7. ExportOK'
  BY <1>3, <1>5, <1>6 DEF DecisionsInv, ExportOK, EnvelopeIsAuthorised
<1>8. MomentsOK' /\ FinalizerOK' /\ LedgerOK'
  <2>1. \/ job'["finalizer"] = job["finalizer"]
        \/ /\ job'["finalizer"].todo \subseteq job["finalizer"].todo
           /\ job'["finalizer"].pc # "find"
    BY <1>3, <1>5 DEF Jobs
  <2> QED BY <1>6, <2>1, MomentsKept, FinalizerKept, LedgerKept DEF DecisionsInv
<1>9. MoneyOK'
  BY <1>6, MoneyKept DEF DecisionsInv, MoneyOK, CashOK
<1> QED BY <1>5, <1>7, <1>8, <1>9 DEF DecisionsInv

LEMMA DropKeeps ==
  ASSUME DecisionsInv, NEW j \in Jobs, Drop(j)
  PROVE  DecisionsInv'
<1>0. Shaped(job[j])
  BY DEF DecisionsInv, JobsOK
<1>1. PICK q : q = [job[j] EXCEPT !.pc = "export", !.left = @ \cup {job[j].proposal}]
  OBVIOUS
<1>2. q = [pc |-> "export", pipeline |-> job[j].pipeline, todo |-> job[j].todo,
           set |-> job[j].set, run |-> job[j].run,
           left |-> job[j].left \cup {job[j].proposal}, proposal |-> job[j].proposal]
  BY <1>0, <1>1 DEF Shaped
<1>3. Shaped(q) /\ q.pc = "export" /\ q.todo = job[j].todo
  BY <1>2 DEF Shaped
<1>4. job' = [job EXCEPT ![j] = q]
  BY <1>1 DEF Drop
<1>5. JobsOK' /\ job'[j] = q /\ \A i \in Jobs \ {j} : job'[i] = job[i]
  BY <1>3, <1>4, JobMoves DEF DecisionsInv
<1>6. /\ UNCHANGED <<scores, transitions, runs, proposals, days, now, account,
                       history, authority, taken, bound>>
      /\ inbox' = inbox \cup {job[j].proposal} /\ job[j].pc = "envelope"
  BY DEF Drop, inputs, tables
<1>7. ExportOK'
  BY <1>3, <1>5, <1>6 DEF DecisionsInv, ExportOK, EnvelopeIsAuthorised
<1>8. MomentsOK' /\ FinalizerOK' /\ LedgerOK'
  <2>1. \/ job'["finalizer"] = job["finalizer"]
        \/ /\ job'["finalizer"].todo \subseteq job["finalizer"].todo
           /\ job'["finalizer"].pc # "find"
    BY <1>3, <1>5 DEF Jobs
  <2> QED BY <1>6, <2>1, MomentsKept, FinalizerKept, LedgerKept DEF DecisionsInv
<1>9. MoneyOK'
  BY <1>6, MoneyKept DEF DecisionsInv, MoneyOK, CashOK
<1> QED BY <1>5, <1>7, <1>8, <1>9 DEF DecisionsInv

LEMMA ExportedKeeps ==
  ASSUME DecisionsInv, NEW j \in Jobs, Exported(j)
  PROVE  DecisionsInv'
<1>0. Shaped(job[j])
  BY DEF DecisionsInv, JobsOK
<1>1. PICK q : q = [job[j] EXCEPT !.pc = After(j)]
  OBVIOUS
<1>2. q = [pc |-> After(j), pipeline |-> job[j].pipeline, todo |-> job[j].todo,
           set |-> job[j].set, run |-> job[j].run, left |-> job[j].left,
           proposal |-> job[j].proposal]
  BY <1>0, <1>1 DEF Shaped
<1>3. Shaped(q) /\ q.pc \in {"next", "idle"} /\ q.todo = job[j].todo
  BY <1>2 DEF Shaped, After
<1>4. job' = [job EXCEPT ![j] = q]
  BY <1>1 DEF Exported
<1>5. j = "finalizer" => q.todo \subseteq {z.pipeline : z \in scores}
  BY <1>3 DEF DecisionsInv, FinalizerOK
<1> QED BY <1>3, <1>4, <1>5, JobOnlyKeeps DEF Exported

LEMMA DieKeeps ==
  ASSUME DecisionsInv, NEW j \in Jobs, Die(j)
  PROVE  DecisionsInv'
<1>1. job' = [job EXCEPT ![j] = Idle]
  BY DEF Die
<1> QED BY <1>1, IdleJob, JobOnlyKeeps DEF Die

-----------------------------------------------------------------------------
(* Every action keeps the evidence.                                        *)

LEMMA EvidenceKept ==
  ASSUME EvidenceOK, UNCHANGED <<observations, transitions, runs>>
  PROVE  EvidenceOK'
BY DEF EvidenceOK, OrdersAreEarned, Support

LEMMA RunKeepsEvidence ==
  ASSUME EvidenceOK, LedgerOK, CashOK, NEW j \in Jobs, NEW p, NEW t \in Times, NEW snap,
         SnapshotOK(snap), NEW rest, RunAndGo(j, p, t, snap, rest)
  PROVE  EvidenceOK'
<1>1. CASE UNCHANGED tables
  BY <1>1, EvidenceKept DEF tables
<1>2. CASE Commit(p, t, snap, Outcome(p, t, snap))
  BY <1>2, CommitKeepsEvidence
<1> QED BY <1>1, <1>2 DEF RunAndGo

LEMMA NextKeepsEvidence ==
  ASSUME DecisionsInv, EvidenceOK, [Next]_vars
  PROVE  EvidenceOK'
<1>0. LedgerOK /\ CashOK /\ MomentsOK /\ FinalizerOK
  BY DEF DecisionsInv, MoneyOK
<1>1. CASE \/ Clock \/ Reconcile \/ StartTick \/ NextPipeline \/ UNCHANGED vars
           \/ \E p \in Pipelines, s \in Securities, k \in bound.kinds : Score(p, s, k)
           \/ \E s \in Securities, b \in BOOLEAN : Verify(s, b)
           \/ \E z \in inbox : Execute(z)
           \/ \E j \in Jobs : \/ \E z \in proposals : Publish(j, z)
                              \/ Drop(j) \/ Exported(j) \/ Die(j)
  <2>1. UNCHANGED tables
    BY <1>1 DEF Clock, Reconcile, StartTick, NextPipeline, Score, Verify, Execute,
                Publish, Drop, Exported, Die, vars
  <2> QED BY <2>1, EvidenceKept DEF tables
<1>2. ASSUME NEW p \in Pipelines, StartCycle(p) PROVE EvidenceOK'
  <2>1. PICK h \in HandoffAt(now) : RunAndGo("cycle", p, now, h, "idle")
    BY <1>2 DEF StartCycle
  <2>2. now \in Times /\ "cycle" \in Jobs
    BY <1>0 DEF MomentsOK, Jobs
  <2>3. SnapshotOK(h)
    BY <1>0, HandoffUsable DEF HandoffAt
  <2> QED BY <1>0, <2>1, <2>2, <2>3, RunKeepsEvidence
<1>3. ASSUME NEW p \in Pipelines, NEW t \in Times, NEW v \in Views, OperatorRun(p, t, v)
      PROVE  EvidenceOK'
  <2>1. PICK snap : snap = OperatorSnapshot(t, v)
    OBVIOUS
  <2>2. Valid(snap) /\ Commit(p, t, snap, Outcome(p, t, snap))
    BY <1>3, <2>1 DEF OperatorRun
  <2>3. SnapshotOK(snap)
    <3>1. snap.rows \subseteq Securities /\ snap.cash \in {account.cash, None}
      BY <2>1 DEF OperatorSnapshot
    <3> QED BY <1>0, <2>2, <3>1 DEF Valid, SnapshotOK, CashOK
  <2> QED BY <1>0, <2>2, <2>3, CommitKeepsEvidence
<1>4. CASE Finalize
  <2> DEFINE f == job["finalizer"]
             ready == Max({z.at : z \in f.set})
  <2>1. CASE UNCHANGED tables
    BY <2>1, EvidenceKept DEF tables
  <2>2. CASE \E e \in Epochs(ready) : RunAndGo("finalizer", f.pipeline, e[1], e[2], "next")
    <3>1. PICK e \in Epochs(ready) : RunAndGo("finalizer", f.pipeline, e[1], e[2], "next")
      BY <2>2
    <3>2. e[1] \in Times
      BY <1>0, <1>4, <3>1, EpochIsMoment DEF FinalizerOK, Finalize
    <3>3. SnapshotOK(e[2])
      BY <1>0, EpochUsable
    <3>4. "finalizer" \in Jobs
      BY DEF Jobs
    <3> QED BY <1>0, <3>1, <3>2, <3>3, <3>4, RunKeepsEvidence
  <2>3. \/ UNCHANGED tables
        \/ \E e \in Epochs(ready) : RunAndGo("finalizer", f.pipeline, e[1], e[2], "next")
    BY <1>4, Zenon DEF Finalize
  <2> QED BY <2>1, <2>2, <2>3
<1> QED BY <1>1, <1>2, <1>3, <1>4 DEF Next

LEMMA InitEvidence == Init => EvidenceOK
<1> SUFFICES ASSUME Init PROVE EvidenceOK
  OBVIOUS
<1>1. IsFiniteSet(observations)
  BY FS_EmptySet DEF Init
<1>2. \A x \in transitions : ~(x.run >= 1)
  BY SeedAssumption DEF Init
<1>3. OrdersAreEarned
  BY <1>2 DEF OrdersAreEarned
<1> QED BY <1>1, <1>3 DEF Init, EvidenceOK

-----------------------------------------------------------------------------
(* The theorems.                                                           *)

LEMMA InitHolds ==
  ASSUME Init
  PROVE  DecisionsInv
<1>1. PICK seed \in Seeds :
        /\ transitions = seed.transitions /\ proposals = seed.proposals
        /\ bound = seed.bound /\ authority = seed.proposals /\ taken = seed.proposals
        /\ account = seed.account
  BY DEF Init
<1>2. scores = {} /\ runs = {} /\ inbox = {} /\ history = {} /\ now = 1
        /\ job = [j \in Jobs |-> Idle]
  BY DEF Init
<1>3. JobsOK /\ \A j \in Jobs : job[j] = Idle
  BY <1>2, IdleJob DEF JobsOK
<1>4. ExportOK
  BY <1>1, <1>2, <1>3, IdleJob DEF ExportOK, EnvelopeIsAuthorised
<1>5. MomentsOK
  BY <1>1, <1>2, SeedAssumption, BoundsAssumption DEF MomentsOK, Times
<1>6. FinalizerOK
  BY <1>3, IdleJob DEF FinalizerOK, Jobs
<1>7. LedgerOK
  <2>1. RowsOK
    <3>1. ASSUME NEW x \in transitions
          PROVE  x.at \in Int /\ x.at <= LastTime /\ x.run \in Int
      <4>1. x.at \in Int /\ x.at < 1 /\ x.run \in Int
        BY <1>1, SeedAssumption
      <4> QED BY <4>1, BoundsAssumption
    <3> QED BY <3>1 DEF RowsOK
  <2>2. LedgerIsChain
    BY <1>1, SeedAssumption DEF LedgerIsChain
  <2>3. PendingHasProposal
    BY <1>1, SeedAssumption DEF PendingHasProposal
  <2> QED BY <1>2, <2>1, <2>2, <2>3, FS_EmptySet DEF LedgerOK
<1>8. MoneyOK
  <2>1. CashOK
    BY <1>1, <1>2, SeedAssumption DEF CashOK
  <2>2. ProposalMovedLedger
    BY <1>1, SeedAssumption DEF ProposalMovedLedger
  <2>3. \A z \in proposals : z.notional \in Nat /\ z.day \notin Days
    BY <1>1, SeedAssumption
  <2>4. \A d \in Days : OnDay(d) = {}
    BY <2>3 DEF OnDay
  <2>5. days = [d \in Days |-> Unbound] /\ \A d \in Days : days[d] = Unbound
    BY DEF Init
  <2>6. Policy.maxCount \in Nat /\ Policy.maxNotional \in Nat
    BY PolicyAssumption DEF ValidPolicy, BudgetValid, Count
  <2>7. IsFiniteSet({}) /\ Cardinality({}) = 0 /\ Spent({}) = 0
    BY FS_EmptySet, SpentLaws
  <2>8. DayBudgetHolds
    BY <2>4, <2>5, <2>6, <2>7 DEF DayBudgetHolds
  <2>9. BudgetOK
    BY <2>3, <2>4, <2>5, <2>7, <2>8 DEF BudgetOK
  <2> QED BY <2>1, <2>2, <2>9 DEF MoneyOK
<1> QED BY <1>3, <1>4, <1>5, <1>6, <1>7, <1>8 DEF DecisionsInv

LEMMA NextKeeps ==
  ASSUME DecisionsInv, [Next]_vars
  PROVE  DecisionsInv'
<1>1. CASE UNCHANGED vars
  BY <1>1, ExportKept, MomentsKept, FinalizerKept, LedgerKept, MoneyKept
     DEF vars, inputs, tables, outside, DecisionsInv, JobsOK, MoneyOK, CashOK
<1>2. CASE Next
  BY <1>2, OutsideKeeps, StartCycleKeeps, OperatorRunKeeps, StartTickKeeps,
     NextPipelineKeeps, FinalizeKeeps, PublishKeeps, DropKeeps, ExportedKeeps,
     DieKeeps DEF Next
<1> QED BY <1>1, <1>2

\* engine.py and decision_pipeline.py, in any order of callers and moments: the
\* parts of DecisionsInv hold together.
THEOREM DecisionsHold == Spec => []DecisionsInv
<1>1. Init => DecisionsInv
  BY InitHolds
<1>2. DecisionsInv /\ [Next]_vars => DecisionsInv'
  BY NextKeeps
<1> QED BY <1>1, <1>2, PTL DEF Spec

\* state.py, engine.py _write_transition: the transitions of every security form
\* one chain of canonical edges strictly advancing in time, for any number of
\* runs, callers, policies and orders of decision moments.
THEOREM OneChain == Spec => []LedgerIsChain
<1>1. DecisionsInv => LedgerIsChain
  BY DEF DecisionsInv, LedgerOK
<1> QED BY <1>1, DecisionsHold, PTL

\* engine.py Phase C: a security that waits for a fill waits for a proposal of
\* the same run; of a draft the day's budget refused no transition is left.
THEOREM WaitsForProposal == Spec => []PendingHasProposal
<1>1. DecisionsInv => PendingHasProposal
  BY DEF DecisionsInv, LedgerOK
<1> QED BY <1>1, DecisionsHold, PTL

\* decision_pipeline.py export_eligible_proposals: whatever dies and whoever
\* exports, an envelope the autonomy runner can see, or executed, has its
\* authority record and its proposal.
THEOREM AuthorisedEnvelopes == Spec => []EnvelopeIsAuthorised
<1>1. DecisionsInv => EnvelopeIsAuthorised
  BY DEF DecisionsInv, ExportOK
<1> QED BY <1>1, DecisionsHold, PTL

\* budget.py: whoever runs the engine in whatever order, the proposals of a day
\* stay within its count, its notional and, for purchases, the cash it was bound
\* to, for any policy that validates and any number of runs.
THEOREM DayStaysInBudget == Spec => []DayBudgetHolds
<1>1. DecisionsInv => DayBudgetHolds
  BY DEF DecisionsInv, MoneyOK, BudgetOK
<1> QED BY <1>1, DecisionsHold, PTL

\* engine.py Phase C: a proposal, which may become an order, has the transition
\* of its run; no proposal is left for a state the ledger did not take.
THEOREM ProposalsMoved == Spec => []ProposalMovedLedger
<1>1. DecisionsInv => ProposalMovedLedger
  BY DEF DecisionsInv, MoneyOK
<1> QED BY <1>1, DecisionsHold, PTL

\* Both at once: of a run that stops between two of its writes nothing is left.
THEOREM LedgerMatches == Spec => []LedgerMatchesProposals
<1>1. PendingHasProposal /\ ProposalMovedLedger => LedgerMatchesProposals
  BY DEF LedgerMatchesProposals
<1> QED BY <1>1, WaitsForProposal, ProposalsMoved, PTL

\* engine.py and state.py persistence_count, in any order of callers and moments:
\* an order taken for persistence was spoken for by as many observations as its
\* edge requires, of distinct evidence, each a cadence from the next, all made
\* since the security entered the state the order leaves: neither a rerun, nor the
\* evidence of an earlier stay, nor a moment decided out of order counts.
THEOREM EarnedOrders == Spec => []OrdersAreEarned
<1>1. EvidenceOK => OrdersAreEarned
  BY DEF EvidenceOK
<1>2. DecisionsInv /\ EvidenceOK /\ [Next]_vars => EvidenceOK'
  BY NextKeepsEvidence
<1> QED BY <1>1, <1>2, InitEvidence, DecisionsHold, PTL DEF Spec
=============================================================================
