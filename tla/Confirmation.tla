---------------------------- MODULE Confirmation ----------------------------
(***************************************************************************)
(* The execution service's confirmation tokens: the confirmations table    *)
(* of tradehub/audit.py and the HTTP handlers of tradehub/app.py that move *)
(* a row through it (preview, submit, reconcile, manual resolution), with  *)
(* the broker on the other side of the network.                            *)
(*                                                                         *)
(* Every AuditStore method is one SQLite transaction, hence one action.    *)
(* Between two transactions a handler (a Worker) holds only what it read;  *)
(* it may lose its lease, wait for the broker for any time, or die.        *)
(*                                                                         *)
(* Time is abstracted to what the guards compare: a claim is "fresh" until *)
(* STALE_CLAIM_SECONDS pass and "stale" afterwards; a token is or is not   *)
(* past expires_at.                                                        *)
(***************************************************************************)
EXTENDS FiniteSets

States == {"absent", "READY", "SUBMITTING", "INDETERMINATE", "RECONCILING",
           "SUBMITTED"}

CONSTANTS
  Tokens,       \* confirmation tokens
  Workers,      \* handler executions that may be in progress together
  Leases,       \* random lease ids (secrets.token_hex)
  Orders,       \* the broker's account-specific order numbers
  LegacyOrder,  \* an order of the time before reserved ids were stored
  None,         \* SQL NULL
  DryRunModes   \* the values settings.dry_run takes over the restarts

ASSUME NoneAssumption ==
  /\ None \notin Tokens \cup Leases \cup Orders \cup States \cup {LegacyOrder}
  /\ LegacyOrder \notin Orders
ASSUME DryRunAssumption == DryRunModes \subseteq BOOLEAN

VARIABLES
  row,      \* token |-> row of the confirmations table
  job,      \* worker |-> program point and locals of the handler it runs
  sent,     \* place_order requests that left the service
  arrived   \* those of them the broker has accepted

vars == <<row, job, sent, arrived>>

Claims == {"none", "fresh", "stale"}   \* claimed_at: NULL, recent, older

Row == [state : States, claim : Claims, expired : BOOLEAN,
        submit : Leases \cup {None}, reconcile : Leases \cup {None},
        source : States \cup {None}, reserved : Orders \cup {None},
        order : Orders \cup {LegacyOrder, None}]

SubmitPoints == {"claimed", "read", "create", "record", "mark", "send",
                 "waiting", "finalize", "indeterminate", "release"}
ReconcilePoints == {"lookup", "settle", "abandon", "preserve", "retry"}

Job == [pc : {"idle"} \cup SubmitPoints \cup ReconcilePoints,
        tok : Tokens \cup {None}, lease : Leases \cup {None},
        id : Orders \cup {None}, prior : States \cup {None}]

Request == [tok : Tokens, id : Orders]

Idle == [pc |-> "idle", tok |-> None, lease |-> None, id |-> None,
         prior |-> None]

-----------------------------------------------------------------------------
(* Rows.                                                                   *)

NewRow(state, claim) ==
  [state |-> state, claim |-> claim, expired |-> FALSE, submit |-> None,
   reconcile |-> None, source |-> None, reserved |-> None, order |-> None]

AbsentRow == NewRow("absent", "none")

\* What _init_db leaves of a row written before submission_state existed:
\* a claimed one has an unknown outcome, an unclaimed one is ready.
Migrated ==
  {NewRow("READY", "none"), NewRow("INDETERMINATE", "stale"),
   [NewRow("SUBMITTED", "none") EXCEPT !.order = LegacyOrder]}

Coalesce(old, new) == IF old = None THEN new ELSE old
CoalesceClaim(claim) == IF claim = "none" THEN "fresh" ELSE claim

Unsubmitted(r) == r.state \notin {"absent", "SUBMITTED"}

Claimable(r) == /\ r.state = "READY"
                /\ r.claim \in {"none", "stale"}
                /\ ~r.expired

\* Mutants of Reconcilable: everything but READY without a recent claim, as if
\* submitted_at were not tested; no stealing from a reconciler that died.
ReconcilableUnlessReady(r) ==
  /\ r.state \notin {"absent", "READY"}
  /\ r.state = "INDETERMINATE" \/ r.claim \in {"none", "stale"}
ReconcilableNeverStolen(r) == r.state = "INDETERMINATE"

Reconcilable(r) == \/ r.state = "INDETERMINATE"
                   \/ /\ r.state \in {"SUBMITTING", "RECONCILING"}
                      /\ r.claim \in {"none", "stale"}

\* Mutants: the lease column is tested for NULL only, not compared.
HoldsAnySubmit(r, l) == Unsubmitted(r) /\ l # None /\ r.submit # None
HoldsAnyReconcile(r, l) == r.state = "RECONCILING" /\ l # None

HoldsSubmit(r, l) == Unsubmitted(r) /\ l # None /\ r.submit = l
HoldsReconcile(r, l) ==
  r.state = "RECONCILING" /\ l # None /\ r.reconcile = l

\* finalize_confirmation accepts the submitter's or the reconciler's lease.
CanFinalize(r, j) ==
  /\ Unsubmitted(r) /\ r.claim # "none"
  /\ \/ /\ j.pc \in SubmitPoints
        /\ HoldsSubmit(r, j.lease) /\ r.reconcile = None
        /\ r.state \in {"READY", "SUBMITTING", "INDETERMINATE"}
     \/ j.pc \in ReconcilePoints /\ HoldsReconcile(r, j.lease)

Finalized(r, order) ==
  [r EXCEPT !.state = "SUBMITTED", !.claim = "none", !.order = order,
            !.submit = None, !.reconcile = None, !.source = None]

\* Ids that no row, handler or request uses: what a random generator, or the
\* broker's numbering, returns.
FreshLease(l) == /\ \A t \in Tokens : l \notin {row[t].submit, row[t].reconcile}
                 /\ \A w \in Workers : job[w].lease # l
FreshOrder(o) == /\ \A t \in Tokens : row[t].reserved # o
                 /\ \A w \in Workers : job[w].id # o
                 /\ \A r \in sent : r.id # o

-----------------------------------------------------------------------------
(* Handlers. At(w, p): worker w is about to execute point p. A step either *)
(* goes on to the next point or ends the request (Idle).                   *)

At(w, p) == job[w].pc = p
Mine(w) == row[job[w].tok]
Goto(w, p) == job' = [job EXCEPT ![w].pc = p]
End(w) == job' = [job EXCEPT ![w] = Idle]
SetMine(w, r) == row' = [row EXCEPT ![job[w].tok] = r]

\* An accepted preview mints a READY token.
CreateConfirmation(t) ==
  /\ row[t].state = "absent"
  /\ row' = [row EXCEPT ![t] = NewRow("READY", "none")]
  /\ UNCHANGED <<job, sent, arrived>>

SubmitClaim(w, t) ==
  /\ At(w, "idle") /\ Claimable(row[t])
  /\ \E l \in Leases :
       /\ FreshLease(l)
       /\ row' = [row EXCEPT ![t].claim = "fresh", ![t].submit = l]
       /\ job' = [job EXCEPT ![w] = [Idle EXCEPT !.pc = "claimed", !.tok = t,
                                                 !.lease = l]]
  /\ UNCHANGED <<sent, arrived>>

\* validate_order_intent runs again on the claimed intent.
PolicyAllows(w) ==
  /\ At(w, "claimed") /\ FALSE \in DryRunModes
  /\ Goto(w, "read") /\ UNCHANGED <<row, sent, arrived>>

PolicyRefuses(w) ==
  /\ At(w, "claimed")
  /\ Goto(w, "release") /\ UNCHANGED <<row, sent, arrived>>

DryRunFinalize(w) ==
  /\ At(w, "claimed") /\ TRUE \in DryRunModes
  /\ IF CanFinalize(Mine(w), job[w])
       THEN SetMine(w, Finalized(Mine(w), None))
       ELSE UNCHANGED row
  /\ End(w) /\ UNCHANGED <<sent, arrived>>

ReleaseConfirmation(w) ==
  /\ At(w, "release")
  /\ IF Mine(w).state = "READY" /\ HoldsSubmit(Mine(w), job[w].lease)
       THEN SetMine(w, [Mine(w) EXCEPT !.claim = "none", !.submit = None])
       ELSE UNCHANGED row
  /\ End(w) /\ UNCHANGED <<sent, arrived>>

GetConfirmation(w) ==
  /\ At(w, "read")
  /\ job' = [job EXCEPT ![w].pc = "create", ![w].id = Mine(w).reserved]
  /\ UNCHANGED <<row, sent, arrived>>

\* create_order draws a fresh number at the broker; a number reserved by an
\* earlier attempt replaces it. get_order_id may find none in the object.
CreateOrder(w) ==
  /\ At(w, "create")
  /\ \/ /\ job[w].id # None
        /\ Goto(w, "record")
     \/ /\ job[w].id = None
        /\ \E o \in Orders :
             /\ FreshOrder(o)
             /\ job' = [job EXCEPT ![w].pc = "record", ![w].id = o]
     \/ job[w].id = None /\ Goto(w, "record")
  /\ UNCHANGED <<row, sent, arrived>>

\* An exception of the store or of the broker inside the try block: before
\* create_order returned nothing can be at the broker, afterwards it may.
AttemptFails(w) ==
  /\ \/ At(w, "read") \/ At(w, "create")
  /\ Goto(w, "release") /\ UNCHANGED <<row, sent, arrived>>

AttemptIsUncertain(w) ==
  /\ \E p \in {"record", "mark", "send", "waiting"} : At(w, p)
  /\ Goto(w, "indeterminate") /\ UNCHANGED <<row, sent, arrived>>

RecordReservedOrderId(w) ==
  /\ At(w, "record")
  /\ \/ /\ job[w].id = None
        /\ Goto(w, "mark") /\ UNCHANGED row
     \/ /\ job[w].id # None /\ HoldsSubmit(Mine(w), job[w].lease)
        /\ SetMine(w, [Mine(w) EXCEPT !.reserved = Coalesce(@, job[w].id)])
        /\ Goto(w, "mark")
     \/ /\ job[w].id # None /\ ~HoldsSubmit(Mine(w), job[w].lease)
        /\ Goto(w, "indeterminate") /\ UNCHANGED row
  /\ UNCHANGED <<sent, arrived>>

CanMarkInProgress(w) ==
  /\ job[w].id # None
  /\ Mine(w).state = "READY" /\ HoldsSubmit(Mine(w), job[w].lease)

MarkSubmissionInProgress(w) ==
  /\ At(w, "mark")
  /\ \/ /\ CanMarkInProgress(w)
        /\ SetMine(w, [Mine(w) EXCEPT !.state = "SUBMITTING",
                                      !.claim = CoalesceClaim(@),
                                      !.reserved = Coalesce(@, job[w].id)])
        /\ Goto(w, "send")
     \/ /\ ~CanMarkInProgress(w)
        /\ Goto(w, "indeterminate") /\ UNCHANGED row
  /\ UNCHANGED <<sent, arrived>>

\* place_order: the request leaves; the broker accepts it now, later or never.
\* The call returns the order's id, or raises (AttemptIsUncertain) whatever the
\* broker does with the request.
PlaceOrder(w) ==
  /\ At(w, "send")
  /\ sent' = sent \cup {[tok |-> job[w].tok, id |-> job[w].id]}
  /\ Goto(w, "waiting") /\ UNCHANGED <<row, arrived>>

PlaceReturns(w) ==
  /\ At(w, "waiting")
  /\ [tok |-> job[w].tok, id |-> job[w].id] \in arrived
  /\ Goto(w, "finalize") /\ UNCHANGED <<row, sent, arrived>>

MarkSubmissionIndeterminate(w) ==
  /\ At(w, "indeterminate")
  /\ IF /\ HoldsSubmit(Mine(w), job[w].lease)
        /\ Mine(w).state \in {"READY", "SUBMITTING", "INDETERMINATE"}
       THEN SetMine(w, [Mine(w) EXCEPT !.state = "INDETERMINATE",
                                       !.claim = CoalesceClaim(@),
                                       !.reserved = Coalesce(@, job[w].id)])
       ELSE UNCHANGED row
  /\ End(w) /\ UNCHANGED <<sent, arrived>>

FinalizeConfirmation(w) ==
  /\ At(w, "finalize")
  /\ IF CanFinalize(Mine(w), job[w])
       THEN SetMine(w, Finalized(Mine(w), job[w].id))
       ELSE UNCHANGED row
  /\ End(w) /\ UNCHANGED <<sent, arrived>>

-----------------------------------------------------------------------------
(* POST /orders/submit/reconcile.                                          *)

\* Mutants: the submitter's lease is left in the row; the lease parameter is
\* bound to the source column too.
ReconcileRowSharing(r, l) ==
  [r EXCEPT !.state = "RECONCILING", !.claim = "fresh", !.reconcile = l,
            !.source = IF r.state = "RECONCILING" THEN @ ELSE r.state]
ReconcileRowMisbound(r, l) ==
  [r EXCEPT !.state = "RECONCILING", !.claim = "fresh", !.submit = None,
            !.reconcile = l, !.source = l]

\* The row claimed for reconciliation. A stolen reconciliation keeps the state
\* the first one started from.
ReconcileRow(r, l) ==
  [r EXCEPT !.state = "RECONCILING", !.claim = "fresh", !.submit = None,
            !.reconcile = l,
            !.source = IF r.state = "RECONCILING" THEN @ ELSE r.state]

ReconcileClaim(w, t) ==
  /\ At(w, "idle") /\ Reconcilable(row[t])
  /\ \E l \in Leases :
       LET new == ReconcileRow(row[t], l) IN
       /\ FreshLease(l)
       /\ row' = [row EXCEPT ![t] = new]
       /\ job' = [job EXCEPT ![w] =
            [pc |-> IF new.reserved = None THEN "abandon" ELSE "lookup",
             tok |-> t, lease |-> l, id |-> new.reserved,
             prior |-> new.source]]
  /\ UNCHANGED <<sent, arrived>>

\* get_order_with_retries. Acceptance is permanent, so its last read decides.
AtBroker(w) == [tok |-> job[w].tok, id |-> job[w].id] \in arrived

LookupAnswers(w) ==
  /\ At(w, "lookup")
  /\ \/ AtBroker(w) /\ Goto(w, "settle")
     \/ ~AtBroker(w) /\ job[w].prior = "SUBMITTING" /\ Goto(w, "preserve")
     \/ ~AtBroker(w) /\ job[w].prior # "SUBMITTING" /\ Goto(w, "retry")
  /\ UNCHANGED <<row, sent, arrived>>

\* The broker fails, or its answer has no global order id.
LookupFails(w) ==
  /\ At(w, "lookup")
  /\ Goto(w, "abandon") /\ UNCHANGED <<row, sent, arrived>>

SettleReconciled(w) ==
  /\ At(w, "settle")
  /\ IF CanFinalize(Mine(w), job[w])
       THEN SetMine(w, Finalized(Mine(w), job[w].id))
       ELSE UNCHANGED row
  /\ End(w) /\ UNCHANGED <<sent, arrived>>

\* Mutant: a retry starts from a clean row.
BackToClean(state, r) ==
  [r EXCEPT !.state = state, !.reconcile = None, !.source = None,
            !.reserved = None]

BackTo(state, r) ==
  [r EXCEPT !.state = state, !.reconcile = None, !.source = None]

\* abandon_reconciliation and preserve_stolen_submission write the same row.
AbandonReconciliation(w) ==
  /\ At(w, "abandon") \/ At(w, "preserve")
  /\ IF HoldsReconcile(Mine(w), job[w].lease)
       THEN SetMine(w, BackTo("INDETERMINATE", Mine(w)))
       ELSE UNCHANGED row
  /\ End(w) /\ UNCHANGED <<sent, arrived>>

MarkReadyForRetry(w) ==
  /\ At(w, "retry")
  /\ IF HoldsReconcile(Mine(w), job[w].lease)
       THEN SetMine(w, [BackTo("READY", Mine(w)) EXCEPT !.claim = "none"])
       ELSE UNCHANGED row
  /\ End(w) /\ UNCHANGED <<sent, arrived>>

-----------------------------------------------------------------------------
(* The operator, the clock, the broker and failures.                       *)

\* POST /orders/submit/resolve. The operator reports what the broker shows at
\* that moment; the code checks only that the row is INDETERMINATE.
ResolveSubmitted(t) ==
  /\ row[t].state = "INDETERMINATE"
  /\ \E o \in Orders \cup {LegacyOrder} :
       /\ \/ [tok |-> t, id |-> o] \in arrived
          \/ o = LegacyOrder /\ row[t].reserved = None
       /\ row' = [row EXCEPT ![t] = Finalized(row[t], o)]
  /\ UNCHANGED <<job, sent, arrived>>

ResolveNoSubmission(t) ==
  /\ row[t].state = "INDETERMINATE"
  /\ \A r \in arrived : r.tok # t
  /\ row' = [row EXCEPT ![t] = [Finalized(row[t], None) EXCEPT !.state = "READY"]]
  /\ UNCHANGED <<job, sent, arrived>>

ClaimAges(t) ==
  /\ row[t].claim = "fresh"
  /\ row' = [row EXCEPT ![t].claim = "stale"]
  /\ UNCHANGED <<job, sent, arrived>>

Expire(t) ==
  /\ row[t].state # "absent" /\ ~row[t].expired
  /\ row' = [row EXCEPT ![t].expired = TRUE]
  /\ UNCHANGED <<job, sent, arrived>>

\* Several requests for one order number make one order at the broker.
BrokerAccepts(r) ==
  /\ r \in sent \ arrived
  /\ arrived' = arrived \cup {r}
  /\ UNCHANGED <<row, job, sent>>

\* The process is killed, or the handler dies of an exception no branch of
\* it catches (a locked database).
HandlerDies(w) ==
  /\ ~At(w, "idle")
  /\ End(w) /\ UNCHANGED <<row, sent, arrived>>

-----------------------------------------------------------------------------
Init == /\ row \in [Tokens -> {AbsentRow} \cup Migrated]
        /\ job = [w \in Workers |-> Idle]
        /\ sent = {} /\ arrived = {}

SubmitStep(w) ==
  \/ PolicyAllows(w) \/ PolicyRefuses(w) \/ DryRunFinalize(w)
  \/ ReleaseConfirmation(w) \/ GetConfirmation(w) \/ CreateOrder(w)
  \/ AttemptFails(w) \/ RecordReservedOrderId(w)
  \/ MarkSubmissionInProgress(w) \/ PlaceOrder(w) \/ PlaceReturns(w)
  \/ AttemptIsUncertain(w) \/ MarkSubmissionIndeterminate(w)
  \/ FinalizeConfirmation(w)

ReconcileStep(w) ==
  \/ LookupAnswers(w) \/ LookupFails(w) \/ SettleReconciled(w)
  \/ AbandonReconciliation(w) \/ MarkReadyForRetry(w)

Next ==
  \/ \E w \in Workers :
       \/ \E t \in Tokens : SubmitClaim(w, t) \/ ReconcileClaim(w, t)
       \/ SubmitStep(w) \/ ReconcileStep(w) \/ HandlerDies(w)
  \/ \E t \in Tokens :
       \/ CreateConfirmation(t) \/ ResolveSubmitted(t)
       \/ ResolveNoSubmission(t) \/ ClaimAges(t) \/ Expire(t)
  \/ \E r \in sent : BrokerAccepts(r)

Spec == Init /\ [][Next]_vars

(***************************************************************************)
(* Fairness, for liveness only. A handler thread runs on, and the HTTP     *)
(* clients' timeouts end its broker calls; the clock advances. Assumptions *)
(* on the environment: the caller asks again for a reconciliation (the     *)
(* autonomy runner and the Phase 4 runtime do, and an operator can), the   *)
(* broker answers some of the lookups, and some of the reconciliations     *)
(* live to write their result - of those that still hold their lease.      *)
(***************************************************************************)
ReconciliationConcludes(w) ==
  /\ \/ SettleReconciled(w) \/ MarkReadyForRetry(w)
     \/ At(w, "preserve") /\ AbandonReconciliation(w)

Fairness ==
  /\ \A w \in Workers : WF_vars(SubmitStep(w) \/ ReconcileStep(w))
  /\ \A t \in Tokens :
       /\ WF_vars(ClaimAges(t))
       /\ SF_vars(\E w \in Workers : ReconcileClaim(w, t))
       /\ SF_vars(\E w \in Workers :
                    HoldsReconcile(row[t], job[w].lease) /\ LookupAnswers(w))
       /\ SF_vars(\E w \in Workers :
                    HoldsReconcile(row[t], job[w].lease)
                    /\ ReconciliationConcludes(w))

FairSpec == Spec /\ Fairness

-----------------------------------------------------------------------------
(* Properties.                                                             *)

\* Every variable keeps its type.
TypeOK == /\ row \in [Tokens -> Row]
          /\ job \in [Workers -> Job]
          /\ sent \subseteq Request
          /\ arrived \subseteq sent

\* A row has at most one authority: a submit lease or a reconcile lease and
\* never both, a reconcile lease exactly while RECONCILING, and no lease once
\* the token is submitted.
OneAuthority ==
  \A t \in Tokens :
    /\ row[t].submit = None \/ row[t].reconcile = None
    /\ row[t].state = "RECONCILING" <=> row[t].reconcile # None
    /\ row[t].submit # None =>
         /\ row[t].state \in {"READY", "SUBMITTING", "INDETERMINATE"}
         /\ row[t].claim # "none"

\* No request leaves before its order number is durable in the token's row:
\* whatever crashes afterwards, reconciliation can look the order up.
ReservedBeforeSent == \A r \in sent : row[r.tok].reserved = r.id

\* All submissions of one token, retries and stolen handlers included, name the
\* same order number, and no two tokens share one.
OneOrderIdentity == \A r, q \in sent : r.tok = q.tok <=> r.id = q.id

\* A token is recorded as submitted with an order only if the broker holds that
\* order under the number the token reserved.
SubmittedOrderIsAtBroker ==
  \A t \in Tokens : row[t].order \in Orders =>
    /\ row[t].state = "SUBMITTED"
    /\ row[t].reserved = row[t].order
    /\ [tok |-> t, id |-> row[t].order] \in arrived

\* A number is in the table before it is with the broker, it stands for one token
\* and is the token's only one, and the order a submitted token names is there.
OrdersAreBacked ==
  ReservedBeforeSent /\ OneOrderIdentity /\ SubmittedOrderIsAtBroker

\* A submitted token never changes again (but for the passing of its expiry):
\* no late handler, reconciliation or resolution reopens or rewrites it.
SubmittedIsFinal ==
  [][\A t \in Tokens : row[t].state = "SUBMITTED" =>
       row'[t] = [row[t] EXCEPT !.expired = row'[t].expired]]_vars

\* A handler's step writes a row only under a lease the row still carries: once
\* a handler's claim was stolen, everything it does later leaves the row alone.
StolenHandlerIsFenced ==
  [][\A w \in Workers : ~At(w, "idle") /\ job'[w] # job[w]
       /\ job[w].lease \notin {Mine(w).submit, Mine(w).reconcile}
       => row' = row]_vars

\* What app.py says where it preserves a stolen submission, and the test
\* test_transitive_reconcile_steal_keeps_live_submit_non_retryable: while a
\* submitting handler may still be inside place_order, its token is not
\* retryable.
StolenSubmissionNotRetryable ==
  \A w \in Workers : At(w, "send") \/ At(w, "waiting") =>
    Mine(w).state # "READY"

\* A token whose outcome is unknown does not stay so: it ends up submitted, or
\* ready for another attempt, whatever handler died holding it.
UncertainIsDecided ==
  \A t \in Tokens :
    row[t].state \in {"SUBMITTING", "INDETERMINATE", "RECONCILING"}
      /\ row[t].reserved # None ~> row[t].state \in {"SUBMITTED", "READY"}

\* The table is an order authority (OrderAuthority.tla).
Authority == INSTANCE OrderAuthority WITH
  identity <- [t \in Tokens |-> row[t].reserved],
  closed <- [t \in Tokens |-> row[t].state = "SUBMITTED"],
  recorded <- [t \in Tokens |-> row[t].order],
  requests <- sent, accepted <- arrived

\* The refinement: every step of the handlers is a step of the authority or
\* leaves it unchanged.
ImplementsAuthority == Authority!Spec
=============================================================================
