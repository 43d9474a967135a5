-------------------------------- MODULE Phase4 --------------------------------
(***************************************************************************)
(* The approved-proposal path of tradehub/phase4_runtime.py: one persisted *)
(* proposal is previewed, rendered and affirmed by a person, submitted,    *)
(* and its fills are reconciled into the owned quantity. The module keeps  *)
(* the row of phase4_execution_link for that proposal; the raw token stays *)
(* in the execution service (Confirmation.tla) and is found again by       *)
(* client_request_id.                                                      *)
(*                                                                         *)
(* A call (an MCP tool call) is a sequence of research transactions, audit *)
(* reads and HTTP requests, one action each. Every MCP client starts a     *)
(* server process of its own and a preview awaits its HTTP call, so calls  *)
(* overlap; a process may stop in the middle of one. render_approval only  *)
(* reads, and affirm_approval derives the same text again, so it is no     *)
(* action here.                                                            *)
(***************************************************************************)
EXTENDS Integers, FiniteSetsExt

CONSTANTS
  Calls,    \* tool calls that may be in progress together
  Tokens,   \* confirmation tokens the previews may mint; an order is named
            \* by its token, which Confirmation!OneOrderIdentity allows
  Side,     \* the proposal's action, BUY or SELL
  Quantity, \* the requested quantity
  Held,     \* quantity of the security in the decision's snapshot
  Null

ASSUME SideAssumption == Side \in {"BUY", "SELL"}
ASSUME QuantityAssumption == Quantity \in Nat \ {0} /\ Held \in Nat

VARIABLES
  conf,     \* token |-> its confirmation in the execution service
  broker,   \* token |-> the order at the broker, or Null
  link,     \* the row of phase4_execution_link
  call      \* call |-> program point and locals

phase4Vars == <<conf, broker, link, call>>

\* CLOSED stands for CANCELLED, EXPIRED and REJECTED, which are treated alike.
SettlementStates == {"INDETERMINATE", "OPEN", "PARTIALLY_FILLED", "FILLED",
                     "CLOSED"}
LinkStates == {"absent", "PREVIEWED", "SUBMITTED"} \cup SettlementStates
ActiveStates == {"PREVIEWED", "APPROVED", "SUBMITTED", "PARTIALLY_FILLED"}
ReconcilableStates == {"SUBMITTED", "FILLED", "PARTIALLY_FILLED"}
                        \cup ActiveStates

Confirmation == [state : {"absent", "READY", "UNCERTAIN", "SUBMITTED"},
                 expired : BOOLEAN]
Order == [live : BOOLEAN, filled : 0..Quantity]

ASSUME NullAssumption == Null \notin Tokens \cup Order

\* A NULL applied fill reads as 0, a NULL owned quantity as the holding of the
\* snapshot, so the columns start there.
Link == [state : LinkStates, approval : Tokens \cup {Null},
         ref : Tokens \cup {Null}, applied : 0..Quantity, owned : Nat]

NoLink == [state |-> "absent", approval |-> Null, ref |-> Null, applied |-> 0,
           owned |-> Held]

CallPoints == {"idle", "mint", "save", "recover", "submit", "persist", "mark",
           "locate", "list", "settle"}
Call == [pc : CallPoints, snap : Link, tok : Tokens \cup {Null},
         seen : Order \cup {Null}]
Idle == [pc |-> "idle", snap |-> NoLink, tok |-> Null, seen |-> Null]

CallAt(c, p) == call[c].pc = p
CallGoto(c, p) == call' = [call EXCEPT ![c].pc = p]
Return(c) == call' = [call EXCEPT ![c] = Idle]

-----------------------------------------------------------------------------
(* preview_proposal.                                                       *)

PreviewProposal(c) ==
  /\ CallAt(c, "idle") /\ link.state \notin ActiveStates
  /\ CallGoto(c, "mint")
  /\ UNCHANGED <<conf, broker, link>>

\* POST /orders/preview makes a new confirmation for the proposal every time.
PreviewOrder(c, t) ==
  /\ CallAt(c, "mint") /\ conf[t].state = "absent"
  /\ conf' = [conf EXCEPT ![t].state = "READY"]
  /\ call' = [call EXCEPT ![c].pc = "save", ![c].tok = t]
  /\ UNCHANGED <<broker, link>>

\* The upsert: what earlier executions recorded in the row stays.
SaveLink(c) ==
  /\ CallAt(c, "save")
  /\ link' = [link EXCEPT !.state = "PREVIEWED", !.approval = call[c].tok]
  /\ Return(c)
  /\ UNCHANGED <<conf, broker>>

-----------------------------------------------------------------------------
(* Finding the authority again, for affirm_approval and reconcile_proposal *)

Candidates ==
  {t \in Tokens : \/ conf[t].state = "SUBMITTED"
                  \/ conf[t].state # "absent" /\ ~conf[t].expired}

\* Mutant: other confirmations of the proposal do not matter.
RecoversAmong(c) == call[c].snap.approval \in Candidates

\* One confirmation of this proposal, and the one whose hash the row holds.
Recovers(c) == Candidates = {call[c].snap.approval}

AffirmApproval(c) ==
  /\ CallAt(c, "idle") /\ link.state = "PREVIEWED"
  /\ call' = [call EXCEPT ![c].pc = "recover", ![c].snap = link]
  /\ UNCHANGED <<conf, broker, link>>

\* The context is equal by construction; prove_paper may fail.
RecoverToSubmit(c) ==
  /\ CallAt(c, "recover")
  /\ \/ /\ Recovers(c)
        /\ call' = [call EXCEPT ![c].pc = "submit",
                                ![c].tok = call[c].snap.approval]
     \/ Return(c)
  /\ UNCHANGED <<conf, broker, link>>

-----------------------------------------------------------------------------
(* POST /orders/submit as the caller sees it.                              *)

Submittable(t) == conf[t].state = "READY" /\ ~conf[t].expired

Accepted(t) == IF broker[t] = Null THEN [live |-> TRUE, filled |-> 0]
                                   ELSE broker[t]

SubmitSucceeds(c) ==
  LET t == call[c].tok IN
  /\ CallAt(c, "submit") /\ Submittable(t)
  /\ conf' = [conf EXCEPT ![t].state = "SUBMITTED"]
  /\ broker' = [broker EXCEPT ![t] = Accepted(t)]
  /\ CallGoto(c, "persist")
  /\ UNCHANGED link

\* A dry run consumes the token and returns no order id: an error here.
SubmitDryRun(c) ==
  /\ CallAt(c, "submit") /\ Submittable(call[c].tok)
  /\ conf' = [conf EXCEPT ![call[c].tok].state = "SUBMITTED"]
  /\ Return(c)
  /\ UNCHANGED <<broker, link>>

\* The broker call fails: the order may have been accepted all the same.
SubmitUncertain(c) ==
  LET t == call[c].tok IN
  /\ CallAt(c, "submit") /\ Submittable(t)
  /\ conf' = [conf EXCEPT ![t].state = "UNCERTAIN"]
  /\ \/ broker' = [broker EXCEPT ![t] = Accepted(t)]
     \/ UNCHANGED broker
  /\ Return(c)
  /\ UNCHANGED link

\* Expired, in use, submitted before, or refused by policy or kill switch.
SubmitRefused(c) ==
  /\ CallAt(c, "submit")
  /\ Return(c)
  /\ UNCHANGED <<conf, broker, link>>

\* The boundary persists the order id, affirm_approval the state afterwards.
PersistOrderRef(c) ==
  /\ CallAt(c, "persist")
  /\ link' = [link EXCEPT !.ref = call[c].tok]
  /\ CallGoto(c, "mark")
  /\ UNCHANGED <<conf, broker>>

MarkSubmitted(c) ==
  /\ CallAt(c, "mark")
  /\ link' = [link EXCEPT !.state = "SUBMITTED"]
  /\ Return(c)
  /\ UNCHANGED <<conf, broker>>

-----------------------------------------------------------------------------
(* reconcile_proposal.                                                     *)

ReconcileProposal(c) ==
  /\ CallAt(c, "idle") /\ link.state \in ReconcilableStates
  /\ call' = [call EXCEPT ![c].pc = "locate", ![c].snap = link]
  /\ UNCHANGED <<conf, broker, link>>

RecoverToList(c) ==
  /\ CallAt(c, "locate")
  /\ IF Recovers(c) /\ call[c].snap.ref # Null THEN CallGoto(c, "list")
                                               ELSE Return(c)
  /\ UNCHANGED <<conf, broker, link>>

\* GET /account/orders: the last 100 orders, ours among them or not any more.
ListOrders(c) ==
  /\ CallAt(c, "list")
  /\ \E o \in {broker[call[c].snap.ref], Null} :
       call' = [call EXCEPT ![c].pc = "settle", ![c].seen = o]
  /\ UNCHANGED <<conf, broker, link>>

Settlement(o) ==
  CASE o = Null -> "INDETERMINATE"
    [] o # Null /\ ~o.live /\ o.filled < Quantity -> "CLOSED"
    [] o # Null /\ o.filled = Quantity -> "FILLED"
    [] o # Null /\ o.live /\ o.filled \in 1..(Quantity - 1)
         -> "PARTIALLY_FILLED"
    [] o # Null /\ o.live /\ o.filled = 0 -> "OPEN"

\* Mutant: an order that is not listed any more is taken to be unfilled.
AppliedAfterForgetful(snap, o) ==
  IF o = Null THEN 0 ELSE Max({snap.applied, o.filled})

\* Fills are cumulative: only what is new moves the owned quantity.
AppliedAfter(snap, o) ==
  IF o = Null THEN snap.applied ELSE Max({snap.applied, o.filled})

Owns(owned, delta) ==
  IF Side = "BUY" THEN owned + delta ELSE owned - Min({owned, delta})

\* Mutant: the owned quantity is read again, the applied fill is not.
SettleRereading(c) ==
  LET applied == AppliedAfter(call[c].snap, call[c].seen) IN
  /\ CallAt(c, "settle")
  /\ link' = [link EXCEPT
       !.state = Settlement(call[c].seen),
       !.applied = applied,
       !.owned = Owns(link.owned, applied - call[c].snap.applied)]
  /\ Return(c)
  /\ UNCHANGED <<conf, broker>>

\* One UPDATE from what was read when the call began.
Settle(c) ==
  LET applied == AppliedAfter(call[c].snap, call[c].seen) IN
  /\ CallAt(c, "settle")
  /\ link' = [link EXCEPT
       !.state = Settlement(call[c].seen),
       !.applied = applied,
       !.owned = Owns(call[c].snap.owned, applied - call[c].snap.applied)]
  /\ Return(c)
  /\ UNCHANGED <<conf, broker>>

\* The process stops, or an HTTP call fails.
CallFails(c) ==
  /\ ~CallAt(c, "idle")
  /\ Return(c)
  /\ UNCHANGED <<conf, broker, link>>

-----------------------------------------------------------------------------
(* The execution service and the broker.                                   *)

Expire(t) ==
  /\ conf[t].state # "absent" /\ ~conf[t].expired
  /\ conf' = [conf EXCEPT ![t].expired = TRUE]
  /\ UNCHANGED <<broker, link, call>>

\* /orders/submit/reconcile finds out what became of an uncertain submission.
DecideUncertain(t) ==
  /\ conf[t].state = "UNCERTAIN"
  /\ conf' = [conf EXCEPT ![t].state = IF broker[t] = Null THEN "READY"
                                                           ELSE "SUBMITTED"]
  /\ UNCHANGED <<broker, link, call>>

Fill(t) ==
  /\ broker[t] # Null /\ broker[t].live /\ broker[t].filled < Quantity
  /\ broker' = [broker EXCEPT ![t].filled = @ + 1,
                              ![t].live = broker[t].filled + 1 < Quantity]
  /\ UNCHANGED <<conf, link, call>>

Close(t) ==
  /\ broker[t] # Null /\ broker[t].live
  /\ broker' = [broker EXCEPT ![t].live = FALSE]
  /\ UNCHANGED <<conf, link, call>>

Phase4Init == /\ conf = [t \in Tokens |-> [state |-> "absent", expired |-> FALSE]]
        /\ broker = [t \in Tokens |-> Null]
        /\ link = NoLink
        /\ call = [c \in Calls |-> Idle]

CallStep(c) ==
  \/ PreviewProposal(c) \/ SaveLink(c) \/ AffirmApproval(c)
  \/ RecoverToSubmit(c) \/ SubmitSucceeds(c) \/ SubmitDryRun(c)
  \/ SubmitUncertain(c) \/ SubmitRefused(c) \/ PersistOrderRef(c)
  \/ MarkSubmitted(c) \/ ReconcileProposal(c) \/ RecoverToList(c)
  \/ ListOrders(c) \/ Settle(c) \/ CallFails(c)
  \/ \E t \in Tokens : PreviewOrder(c, t)

Phase4Next ==
  \/ \E c \in Calls : CallStep(c)
  \/ \E t \in Tokens : Expire(t) \/ DecideUncertain(t) \/ Fill(t) \/ Close(t)

Phase4Spec == Phase4Init /\ [][Phase4Next]_phase4Vars

-----------------------------------------------------------------------------
(* Properties.                                                             *)

\* Every variable keeps its type.
Phase4TypeOK == /\ conf \in [Tokens -> Confirmation]
          /\ broker \in [Tokens -> Order \cup {Null}]
          /\ link \in Link
          /\ call \in [Calls -> Call]

\* The owned quantity is the snapshot's holding moved by exactly the applied
\* fill, whichever of two overlapping reconciliations wrote the row last.
OwnedFollowsApplied == link.owned = Owns(Held, link.applied)

\* A fill is applied only if the recorded order has it at the broker: nothing
\* is counted twice, and nothing that belongs to another order.
AppliedWasFilled ==
  link.applied > 0 => /\ link.ref # Null /\ broker[link.ref] # Null
                      /\ link.applied <= broker[link.ref].filled

\* A row past its preview, or with an order id, names an order the broker has
\* and a token the service consumed: a dry run or a failure leaves no trace.
RefIsReal ==
  /\ link.ref # Null => /\ broker[link.ref] # Null
                        /\ conf[link.ref].state = "SUBMITTED"
  /\ link.state \notin {"absent", "PREVIEWED"} => link.ref # Null

\* What the link says was bought or sold, was: of an order that exists, by a token
\* that was consumed, no more than was filled, and it is what the owner holds.
LinkIsReal == OwnedFollowsApplied /\ AppliedWasFilled /\ RefIsReal

\* ACTIVE_STATES "block a second preview of the same proposal
\* (single-proposal lifecycle)": one proposal makes one order.
OneOrderPerApproval ==
  \A t, u \in Tokens : broker[t] # Null /\ broker[u] # Null => t = u

\* Reconciling again never takes an applied fill back.
AppliedNeverShrinks == [][link'.applied >= link.applied]_phase4Vars

\* "Safe to call repeatedly": an order that can still be filled can still be
\* reconciled, and cannot be previewed again.
LiveOrderStaysReconcilable ==
  link.ref # Null /\ broker[link.ref].live =>
    link.state \in ReconcilableStates
=============================================================================
