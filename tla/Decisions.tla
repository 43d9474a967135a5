------------------------------ MODULE Decisions ------------------------------
(***************************************************************************)
(* The decision pipeline of ops/decision_pipeline.py around the engine:    *)
(* committee scores arrive while the reconciliation job hands over the     *)
(* PAPER account, and three callers run the engine. The research cycle     *)
(* decides at the present moment; the finalizer, on a timer, decides every *)
(* score set not decided yet at a stable epoch and exports again what was; *)
(* the operator's command decides at any moment with a snapshot of his own *)
(* and exports nothing. The first two may die between any two steps.       *)
(***************************************************************************)
EXTENDS PortfolioEngine

CONSTANTS
  Views,      \* what an operator's snapshot file may say
  Seeds,      \* the ledgers, accounts and signals to start with; each sets the
              \* bounds of its behaviours: which jobs run, which scores are given,
              \* and how many moments, engine runs, scores, break verifications
              \* and handoffs there are
  HandoffAge  \* _MAX_AGE_SECONDS, in moments

\* Rows that form one chain of canonical edges, strictly advancing in time.
IsChain(rows) ==
  \A x \in rows :
    /\ <<x.from, x.to>> \in Edges
    /\ \A y \in rows \ {x} : x.at # y.at
    /\ \A y \in rows : (/\ y.at < x.at
                        /\ ~\E w \in rows : y.at < w.at /\ w.at < x.at)
                       => y.to = x.from

\* Every row that waits for a fill has the proposal it waits for.
AllProposed(rows, orders) ==
  \A x \in rows : x.to \in {"ENTER", "ADD", "TRIM"} =>
    \E z \in orders : z.run = x.run /\ z.security = x.security /\ z.to = x.to

\* Every proposal has moved the ledger of its security.
AllMoved(rows, orders) ==
  \A z \in orders :
    \E x \in rows : x.run = z.run /\ x.security = z.security /\ x.to = z.to

\* A seed's ledger was written by earlier runs, before the first moment and on
\* earlier days.
ASSUME SeedAssumption ==
  \A seed \in Seeds :
    /\ seed.bound.moments \in Times
    /\ \A x \in seed.transitions : x.at \in Int /\ x.at < 1 /\ x.run \in Int /\ x.run < 1
    /\ \A s \in Securities : IsChain({x \in seed.transitions : x.security = s})
    /\ AllProposed(seed.transitions, seed.proposals)
    /\ AllMoved(seed.transitions, seed.proposals)
    /\ \A z \in seed.proposals : z.notional \in Nat /\ z.day \notin Days
    /\ seed.account.cash \in Int

Jobs == {"finalizer", "cycle"}

VARIABLES
  now,       \* the present moment
  account,   \* the PAPER account: cash and held; the broker's
  history,   \* handoff snapshots of portfolio-history.jsonl
  job,       \* job |-> its program point and locals
  authority, \* proposals with an authority record
  inbox,     \* proposals with an envelope waiting in the inbox
  taken,     \* proposals the autonomy runner executed
  bound      \* the bounds of this behaviour; it never changes

outside == <<authority, inbox, taken, bound>>
vars == <<inputs, tables, now, account, history, job, outside>>

Idle == [pc |-> "idle", pipeline |-> None, todo |-> {}, set |-> {}, run |-> None,
         left |-> {}, proposal |-> None]

\* The handoff lists the broker's positions, prices only those, and reports an
\* average dollar volume of nothing as known.
Handoff ==
  LET listed == {s \in Securities : account.held[s] > 0} IN
  [at |-> now, cash |-> account.cash, held |-> account.held,
   sellable |-> account.held, rows |-> listed, priced |-> listed,
   price |-> "KNOWN", adv |-> 0]

Init ==
  /\ \E seed \in Seeds :
       /\ transitions = seed.transitions /\ proposals = seed.proposals
       /\ account = seed.account /\ signal = seed.signal /\ bound = seed.bound
       /\ authority = seed.proposals /\ taken = seed.proposals
  /\ scores = {} /\ breaks = {} /\ observations = {} /\ runs = {} /\ inbox = {}
  /\ days = [d \in Days |-> Unbound]
  /\ now = 1 /\ history = {}
  /\ job = [j \in Jobs |-> Idle]

-----------------------------------------------------------------------------
(* What happens around the pipeline.                                       *)

Clock ==
  /\ now < bound.moments /\ now' = now + 1
  /\ UNCHANGED <<inputs, tables, account, history, job, outside>>

\* A committee's score for one security of one cycle, dated when it is written.
Score(p, s, k) ==
  /\ Cardinality(scores) < bound.scores
  /\ ~\E z \in scores : z.pipeline = p /\ z.security = s
  /\ scores' = scores \cup
       {[pipeline |-> p, security |-> s, at |-> now, changed |-> now,
         conviction |-> k.conviction, quality |-> Ppm, agreement |-> Ppm,
         trajectory |-> k.trajectory, delta |-> k.delta, driven |-> k.driven,
         evidence |-> IF k.driven THEN p ELSE 0]}
  /\ UNCHANGED <<signal, breaks, tables, now, account, history, job, outside>>

\* A verification of a thesis break is recorded.
Verify(s, verified) ==
  /\ Cardinality(breaks) < bound.breaks
  /\ ~\E b \in breaks : b.security = s /\ b.at = now
  /\ breaks' = breaks \cup {[security |-> s, at |-> now, verified |-> verified,
                             method |-> "OWNER_ATTESTED"]}
  /\ UNCHANGED <<scores, signal, tables, now, account, history, job, outside>>

\* reconcile appends the handoff after the live file; a death before the append
\* leaves the history as it was.
Reconcile ==
  /\ Cardinality(history) < bound.handoffs
  /\ history' = history \cup {Handoff}
  /\ UNCHANGED <<inputs, tables, now, account, job, outside>>

\* The autonomy runner executes an envelope in full: what the broker holds moves.
Execute(z) ==
  /\ z \in inbox \ taken
  /\ z.action = "SELL" => z.quantity <= account.held[z.security]
  /\ inbox' = inbox \ {z} /\ taken' = taken \cup {z}
  /\ account' = IF z.action = "BUY"
       THEN [cash |-> account.cash - z.notional,
             held |-> [account.held EXCEPT ![z.security] = @ + z.quantity]]
       ELSE [cash |-> account.cash + z.notional,
             held |-> [account.held EXCEPT ![z.security] = @ - z.quantity]]
  /\ UNCHANGED <<inputs, tables, now, history, job, authority, bound>>

-----------------------------------------------------------------------------
(* The callers of the engine.                                              *)

\* load_sanitized_paper_snapshot: the newest handoff known at t, if it is valid
\* and not stale.
HandoffAt(t) ==
  LET known == {h \in history : h.at <= t}
      newest == {h \in known : \A g \in known : g.at <= h.at}
  IN {h \in newest : t - h.at <= HandoffAge /\ Valid(h)}

\* resolve_decision_epoch: the moment the scores were ready, if a handoff was
\* known then, else that of the earliest later handoff that is valid.
Epochs(ready) ==
  LET later == {h \in history : h.at >= ready /\ Valid(h)} IN
  IF HandoffAt(ready) # {} THEN {<<ready, h>> : h \in HandoffAt(ready)}
  ELSE {<<h.at, h>> : h \in {g \in later : \A f \in later : g.at <= f.at}}

\* The two-clock contract: no persisted score may be newer than the decision.
NoFutureScore(p, t) == Pinned(p, t) = Pinned(p, LastTime)

\* run_portfolio_decision: on success the job goes on to export the run.
RunAndGo(j, p, t, snap, rest) ==
  \E o \in {Outcome(p, t, snap)} :
    IF NoFutureScore(p, t) /\ Pinned(p, t) # {} /\ o.status # "ERROR"
    THEN /\ Commit(p, t, snap, o)
         /\ job' = [job EXCEPT ![j].pc = "export", ![j].run = o.run, ![j].left = {}]
    ELSE /\ UNCHANGED tables
         /\ job' = [job EXCEPT ![j].pc = rest]

\* The research cycle decides its own pipeline now.
StartCycle(p) ==
  /\ "cycle" \in bound.jobs /\ job["cycle"].pc = "idle" /\ Cardinality(runs) < bound.runs
  /\ HandoffAt(now) # {}
  /\ \E h \in HandoffAt(now) : RunAndGo("cycle", p, now, h, "idle")
  /\ UNCHANGED <<inputs, now, account, history, outside>>

\* The finalizer's tick takes the pipelines that have scores, in order of id.
StartTick ==
  /\ "finalizer" \in bound.jobs /\ job["finalizer"].pc = "idle" /\ scores # {}
  /\ job' = [job EXCEPT !["finalizer"] =
               [Idle EXCEPT !.pc = "next", !.todo = {z.pipeline : z \in scores}]]
  /\ UNCHANGED <<inputs, tables, now, account, history, outside>>

\* current_score_set for the next pipeline, and the end of the tick.
NextPipeline ==
  /\ job["finalizer"].pc = "next"
  /\ LET f == job["finalizer"] p == Min(f.todo) IN
     job' = [job EXCEPT !["finalizer"] =
       IF f.todo = {} THEN Idle
       ELSE [f EXCEPT !.pc = "find", !.pipeline = p, !.todo = @ \ {p},
                      !.set = Pinned(p, LastTime)]]
  /\ UNCHANGED <<inputs, tables, now, account, history, outside>>

\* find_finalized_decision: the first run whose observations cover exactly the
\* score set that was read.
Finalized(p, set) ==
  {r \in runs : /\ r.identity.pipeline = p
                /\ r.covered = {<<p, z.security>> : z \in set}}

\* Decided before: export that run again. Else decide at the stable epoch.
Finalize ==
  /\ job["finalizer"].pc = "find"
  /\ LET f == job["finalizer"]
         p == f.pipeline
         done == Finalized(p, f.set)
         ready == Max({z.at : z \in f.set})
     IN IF done # {}
        THEN /\ job' = [job EXCEPT !["finalizer"] =
                          [f EXCEPT !.pc = "export", !.left = {},
                                    !.run = Min({r.id : r \in done})]]
             /\ UNCHANGED tables
        ELSE IF Epochs(ready) = {}
        THEN job' = [job EXCEPT !["finalizer"].pc = "next"] /\ UNCHANGED tables
        ELSE /\ Cardinality(runs) < bound.runs
             /\ \E e \in Epochs(ready) :
                  RunAndGo("finalizer", p, e[1], e[2], "next")
  /\ UNCHANGED <<inputs, now, account, history, outside>>

\* The operator's snapshot: the account with measured liquidity for every
\* security, with or without its cash and rows for what is not held.
OperatorSnapshot(t, v) ==
  [at |-> t, cash |-> IF v.cash THEN account.cash ELSE None, held |-> account.held,
   sellable |-> account.held,
   rows |-> IF v.zeros THEN Securities ELSE {s \in Securities : account.held[s] > 0},
   priced |-> Securities, price |-> v.price, adv |-> v.adv]

\* The operator's portfolio-run: any moment, his own snapshot, no export.
OperatorRun(p, t, v) ==
  /\ Cardinality(runs) < bound.runs /\ t <= now
  /\ LET snap == OperatorSnapshot(t, v) IN
       Valid(snap) /\ Commit(p, t, snap, Outcome(p, t, snap))
  /\ UNCHANGED <<inputs, now, account, history, job, outside>>

-----------------------------------------------------------------------------
(* Export: every proposal of the run, its authority before its envelope.   *)

OfRun(r) == {z \in proposals : z.run = r}
After(j) == IF j = "finalizer" THEN "next" ELSE "idle"

\* Mutant: the envelope is written with the authority still to come.
PublishEnvelopeFirst(j, z) ==
  /\ job[j].pc = "export" /\ z \in OfRun(job[j].run) \ job[j].left
  /\ inbox' = inbox \cup {z}
  /\ job' = [job EXCEPT ![j].pc = "envelope", ![j].proposal = z]
  /\ UNCHANGED <<inputs, tables, now, account, history, authority, taken, bound>>

\* _publish_authority.
Publish(j, z) ==
  /\ job[j].pc = "export" /\ z \in OfRun(job[j].run) \ job[j].left
  /\ authority' = authority \cup {z}
  /\ job' = [job EXCEPT ![j].pc = "envelope", ![j].proposal = z]
  /\ UNCHANGED <<inputs, tables, now, account, history, inbox, taken, bound>>

\* An envelope the inbox lacks is written again, also after it was executed.
Drop(j) ==
  /\ job[j].pc = "envelope"
  /\ inbox' = inbox \cup {job[j].proposal}
  /\ job' = [job EXCEPT ![j].pc = "export", ![j].left = @ \cup {job[j].proposal}]
  /\ UNCHANGED <<inputs, tables, now, account, history, authority, taken, bound>>

Exported(j) ==
  /\ job[j].pc = "export" /\ OfRun(job[j].run) \subseteq job[j].left
  /\ job' = [job EXCEPT ![j].pc = After(j)]
  /\ UNCHANGED <<inputs, tables, now, account, history, outside>>

\* The process dies; its locals are gone.
Die(j) ==
  /\ job[j].pc # "idle" /\ job' = [job EXCEPT ![j] = Idle]
  /\ UNCHANGED <<inputs, tables, now, account, history, outside>>

-----------------------------------------------------------------------------

Next ==
  \/ Clock \/ Reconcile \/ StartTick \/ NextPipeline \/ Finalize
  \/ \E p \in Pipelines, s \in Securities, k \in bound.kinds : Score(p, s, k)
  \/ \E s \in Securities, b \in BOOLEAN : Verify(s, b)
  \/ \E z \in inbox : Execute(z)
  \/ \E p \in Pipelines : StartCycle(p)
  \/ \E p \in Pipelines, t \in Times, v \in Views : OperatorRun(p, t, v)
  \/ \E j \in Jobs : \/ \E z \in proposals : Publish(j, z)
                     \/ Drop(j) \/ Exported(j) \/ Die(j)

Spec == Init /\ [][Next]_vars

-----------------------------------------------------------------------------
(* Properties.                                                             *)

\* budget.py: whatever the order, the moments and the callers of a day's runs,
\* its proposals never exceed the day's count and notional, nor its purchases
\* the cash the first run bound the day to.
DayBudgetHolds ==
  \A d \in Days :
    /\ Cardinality(OnDay(d)) <= Policy.maxCount
    /\ Spent(OnDay(d)) <= Policy.maxNotional
    /\ days[d] \notin {Unbound, None} =>
         Spent(Buys(OnDay(d))) <= days[d]

\* _write_transition: the transitions of a security form one chain of canonical
\* edges that strictly advances in time, whatever order the runs came in.
LedgerIsChain == \A s \in Securities : IsChain({x \in transitions : x.security = s})

\* What the engine asked of a row's security: the row's edge, or an exit that could
\* not sell everything and so became a trim.
Asked(x) ==
  {e \in Actionable : e[1] = x.from /\ (e[2] = x.to \/ (e[2] = "EXIT" /\ x.to = "TRIM"))}

\* The observations that spoke for edge e, since x's security entered its state.
Support(x, e) ==
  {o \in observations :
    /\ o.security = x.security /\ o.driven /\ o.status = "PASS" /\ o.state = e[2]
    /\ o.at <= x.at
    /\ \A y \in transitions : y.security = x.security /\ y.at < x.at => o.at > y.at}

\* engine.py: an order is earned by evidence, not by reruns: an edge with an order
\* taken for persistence has as many observations as the policy requires, of
\* distinct evidence, a cadence apart, since the state it leaves was entered. (A
\* trim that settles into an exit makes no order.)
OrdersAreEarned ==
  \A x \in transitions :
    (/\ x.cause = "RULE_PERSISTED" /\ x.run >= 1
     /\ <<x.from, x.to>> \in Actionable \ {<<"TRIM", "EXIT">>}) =>
      \E e \in Asked(x) : \E O \in SUBSET Support(x, e) :
        /\ Cardinality(O) >= Policy.controls[e].required
        /\ \A o, q \in O : o # q => /\ o.evidence # q.evidence
                                    /\ Distance(Day(o.at), Day(q.at)) >= Policy.cadence

\* Phase C of run: what waits for a fill has the proposal it waits for: of one
\* the budget refused no transition is left.
PendingHasProposal == AllProposed(transitions, proposals)

\* Phase C of run: a proposal, which may become an order, has moved the ledger.
ProposalMovedLedger == AllMoved(transitions, proposals)

\* The ledger and the proposals of a run are written together or not at all.
LedgerMatchesProposals == PendingHasProposal /\ ProposalMovedLedger

\* export_eligible_proposals: whatever dies and whoever exports, what the
\* autonomy runner can see was proposed and has its authority record.
EnvelopeIsAuthorised == inbox \cup taken \subseteq authority \cap proposals
=============================================================================
