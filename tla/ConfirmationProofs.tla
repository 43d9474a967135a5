------------------------- MODULE ConfirmationProofs -------------------------
(***************************************************************************)
(* Theorems about Confirmation.tla, for any number of tokens, handlers,    *)
(* leases and order numbers.                                               *)
(***************************************************************************)
EXTENDS Confirmation, TLAPS

-----------------------------------------------------------------------------
(* How the rows and the handlers' locals are updated.                      *)

OrderValues == Orders \cup {LegacyOrder, None}

LEMMA NewRowType ==
  ASSUME NEW s \in States, NEW c \in Claims
  PROVE  NewRow(s, c) \in Row
BY NoneAssumption DEF NewRow, Row

LEMMA FinalizedType ==
  ASSUME NEW r \in Row, NEW o \in OrderValues
  PROVE  /\ Finalized(r, o) \in Row
         /\ [Finalized(r, o) EXCEPT !.state = "READY"] \in Row
BY NoneAssumption DEF Finalized, Row, States, Claims, OrderValues

LEMMA ReconcileRowType ==
  ASSUME NEW r \in Row, NEW l \in Leases
  PROVE  ReconcileRow(r, l) \in Row
BY NoneAssumption DEF ReconcileRow, Row, States, Claims

LEMMA BackToType ==
  ASSUME NEW r \in Row, NEW s \in States
  PROVE  /\ BackTo(s, r) \in Row
         /\ [BackTo(s, r) EXCEPT !.claim = "none"] \in Row
BY NoneAssumption DEF BackTo, Row, Claims

\* The row a handler's step writes.
LEMMA SetMineEffect ==
  ASSUME row \in [Tokens -> Row], NEW w \in Workers, job[w].tok \in Tokens,
         NEW r \in Row, SetMine(w, r)
  PROVE  /\ row' \in [Tokens -> Row]
         /\ row'[job[w].tok] = r
         /\ \A t \in Tokens : t # job[w].tok => row'[t] = row[t]
BY DEF SetMine

\* A handler that goes on keeps its locals, and the others theirs.
LEMMA GotoEffect ==
  ASSUME job \in [Workers -> Job], NEW w \in Workers,
         NEW p \in SubmitPoints \cup ReconcilePoints, Goto(w, p)
  PROVE  /\ job' \in [Workers -> Job]
         /\ job'[w].pc = p /\ job'[w].tok = job[w].tok
         /\ job'[w].lease = job[w].lease /\ job'[w].id = job[w].id
         /\ job'[w].prior = job[w].prior
         /\ \A v \in Workers : v # w => job'[v] = job[v]
BY DEF Goto, Job

LEMMA EndEffect ==
  ASSUME job \in [Workers -> Job], NEW w \in Workers, End(w)
  PROVE  /\ job' \in [Workers -> Job]
         /\ job'[w] = Idle
         /\ \A v \in Workers : v # w => job'[v] = job[v]
BY DEF End, Job, Idle

-----------------------------------------------------------------------------
(* Types.                                                                  *)

\* A handler in progress works on a token and under a lease, and one that is
\* about to place an order has its number.
Busy == \A w \in Workers : job[w].pc # "idle" =>
          /\ job[w].tok \in Tokens
          /\ job[w].lease \in Leases
          /\ job[w].pc = "send" => job[w].id # None

TypeInv == TypeOK /\ Busy

LEMMA TypeInit == Init => TypeInv
<1> SUFFICES ASSUME Init PROVE TypeInv
  OBVIOUS
<1>1. {AbsentRow} \cup Migrated \subseteq Row
  <2>1. NewRow("SUBMITTED", "none") \in Row
    BY NewRowType DEF States, Claims
  <2>2. [NewRow("SUBMITTED", "none") EXCEPT !.order = LegacyOrder] \in Row
    BY <2>1 DEF Row
  <2> QED
    BY <2>2, NewRowType DEF AbsentRow, Migrated, States, Claims
<1>2. Idle \in Job /\ Idle.pc = "idle"
  BY DEF Idle, Job
<1> QED
  BY <1>1, <1>2 DEF Init, TypeInv, TypeOK, Busy

\* A step after which the rows are typed, and one handler ended or went on.
LEMMA TypeFrame ==
  ASSUME TypeInv, NEW w \in Workers, job[w].pc # "idle",
         row' \in [Tokens -> Row], sent' \subseteq Request,
         arrived' \subseteq sent',
         \/ End(w)
         \/ \E p \in SubmitPoints \cup ReconcilePoints :
              Goto(w, p) /\ (p = "send" => job[w].id # None)
  PROVE  TypeInv'
<1>1. CASE End(w)
  BY <1>1, EndEffect DEF TypeInv, TypeOK, Busy, Idle
<1>2. ASSUME NEW p \in SubmitPoints \cup ReconcilePoints, Goto(w, p),
             p = "send" => job[w].id # None
      PROVE  TypeInv'
  BY <1>2, GotoEffect DEF TypeInv, TypeOK, Busy
<1> QED
  BY <1>1, <1>2

\* A handler that goes on with another order number.
LEMMA Renumbered ==
  ASSUME TypeInv, NEW w \in Workers, NEW pc \in SubmitPoints, NEW id \in Orders \cup {None},
         job' = [job EXCEPT ![w].pc = pc, ![w].id = id]
  PROVE  /\ job' \in [Workers -> Job]
         /\ job'[w].pc = pc /\ job'[w].id = id
         /\ job'[w].tok = job[w].tok /\ job'[w].lease = job[w].lease
         /\ \A v \in Workers \ {w} : job'[v] = job[v]
<1>1. PICK o \in Job : o = job[w]
  BY DEF TypeInv, TypeOK
<1>2. PICK j : j = [o EXCEPT !.pc = pc, !.id = id]
  OBVIOUS
<1>3. j \in Job /\ j.pc = pc /\ j.id = id /\ j.tok = o.tok /\ j.lease = o.lease
  BY <1>2 DEF Job
<1>4. job' = [job EXCEPT ![w] = j]
  <2>1. job' = [[job EXCEPT ![w].pc = pc] EXCEPT ![w].id = id]
    OBVIOUS
  <2> QED BY <1>1, <1>2, <2>1 DEF TypeInv, TypeOK
<1> QED
  BY <1>1, <1>3, <1>4 DEF TypeInv, TypeOK

LEMMA RewrittenRow ==
  ASSUME NEW r \in Row, NEW id \in Orders \cup {None}, NEW state \in States
  PROVE  [r EXCEPT !.state = state, !.claim = CoalesceClaim(@), !.reserved = Coalesce(@, id)] \in Row
<1>1. PICK c \in Claims : c = CoalesceClaim(r.claim)
  BY DEF CoalesceClaim, Claims, Row
<1>2. PICK n \in Orders \cup {None} : n = Coalesce(r.reserved, id)
  BY DEF Coalesce, Row
<1>3. [r EXCEPT !.state = state, !.claim = c, !.reserved = n] \in Row
  BY DEF Row
<1> QED
  BY <1>1, <1>2, <1>3

LEMMA TypeSubmit ==
  ASSUME TypeInv, NEW w \in Workers, SubmitStep(w)
  PROVE  TypeInv'
<1> USE DEF TypeInv, TypeOK, At
<1>a. /\ job[w].pc # "idle" =>
           job[w].tok \in Tokens /\ job[w].lease \in Leases /\ Mine(w) \in Row
      /\ job[w] \in Job /\ job[w].id \in Orders \cup {None}
  BY DEF Busy, Mine, Job
<1>b. \A p \in SubmitPoints : p \in SubmitPoints \cup ReconcilePoints
  OBVIOUS
<1>1. CASE PolicyAllows(w) \/ PolicyRefuses(w) \/ AttemptFails(w)
           \/ AttemptIsUncertain(w) \/ PlaceReturns(w)
  <2>1. /\ job[w].pc # "idle"
        /\ UNCHANGED <<row, sent, arrived>>
        /\ \E p \in {"read", "release", "indeterminate", "finalize"} : Goto(w, p)
    BY <1>1 DEF PolicyAllows, PolicyRefuses, AttemptFails, AttemptIsUncertain,
       PlaceReturns
  <2> QED
    BY <2>1, TypeFrame DEF SubmitPoints
<1>2. CASE DryRunFinalize(w) \/ FinalizeConfirmation(w)
  <2>1. Finalized(Mine(w), None) \in Row /\ Finalized(Mine(w), job[w].id) \in Row
    BY <1>2, <1>a, FinalizedType DEF DryRunFinalize, FinalizeConfirmation,
       OrderValues
  <2>2. row' \in [Tokens -> Row]
    BY <1>2, <1>a, <2>1, SetMineEffect DEF DryRunFinalize, FinalizeConfirmation
  <2> QED
    BY <1>2, <2>2, TypeFrame DEF DryRunFinalize, FinalizeConfirmation
<1>3. CASE ReleaseConfirmation(w)
  <2>1. [Mine(w) EXCEPT !.claim = "none", !.submit = None] \in Row
    BY <1>3, <1>a DEF ReleaseConfirmation, Row, Claims
  <2>2. row' \in [Tokens -> Row]
    BY <1>3, <1>a, <2>1, SetMineEffect DEF ReleaseConfirmation
  <2> QED
    BY <1>3, <2>2, TypeFrame DEF ReleaseConfirmation
<1>4. CASE GetConfirmation(w)
  <2>1. /\ job[w].pc = "read"
        /\ job' = [job EXCEPT ![w].pc = "create", ![w].id = Mine(w).reserved]
        /\ Mine(w).reserved \in Orders \cup {None}
    BY <1>4, <1>a DEF GetConfirmation, Row
  <2>2. "create" \in SubmitPoints
    BY DEF SubmitPoints
  <2>3. PICK id \in Orders \cup {None} : job' = [job EXCEPT ![w].pc = "create", ![w].id = id]
    BY <2>1
  <2>4. /\ job' \in [Workers -> Job] /\ job'[w].pc = "create"
        /\ job'[w].tok = job[w].tok /\ job'[w].lease = job[w].lease
        /\ \A v \in Workers \ {w} : job'[v] = job[v]
    BY <2>2, <2>3, Renumbered
  <2>5. Busy'
    BY <2>1, <2>4, <1>a DEF Busy
  <2> QED
    BY <1>4, <2>4, <2>5 DEF GetConfirmation
<1>5. CASE CreateOrder(w)
  <2>1. CASE Goto(w, "record")
    BY <1>5, <2>1, TypeFrame DEF CreateOrder, SubmitPoints
  <2>2. ASSUME NEW o \in Orders,
               job' = [job EXCEPT ![w].pc = "record", ![w].id = o]
        PROVE  TypeInv'
    <3>1. "record" \in SubmitPoints
      BY DEF SubmitPoints
    <3>2. /\ job' \in [Workers -> Job] /\ job'[w].pc = "record"
          /\ job'[w].tok = job[w].tok /\ job'[w].lease = job[w].lease
          /\ \A v \in Workers \ {w} : job'[v] = job[v]
      BY <2>2, <3>1, Renumbered
    <3>3. Busy'
      BY <1>5, <3>2, <1>a DEF Busy, CreateOrder
    <3> QED
      BY <1>5, <3>2, <3>3 DEF CreateOrder
  <2> QED
    BY <1>5, <2>1, <2>2 DEF CreateOrder
<1>6. CASE RecordReservedOrderId(w)
  <2>1. job[w].id # None =>
          [Mine(w) EXCEPT !.reserved = Coalesce(@, job[w].id)] \in Row
    BY <1>6, <1>a DEF RecordReservedOrderId, Row, Coalesce
  <2>2. row' \in [Tokens -> Row]
    BY <1>6, <1>a, <2>1, SetMineEffect DEF RecordReservedOrderId
  <2> QED
    BY <1>6, <2>2, TypeFrame DEF RecordReservedOrderId, SubmitPoints
<1>7. CASE MarkSubmissionInProgress(w)
  <2>1. [Mine(w) EXCEPT !.state = "SUBMITTING", !.claim = CoalesceClaim(@),
                        !.reserved = Coalesce(@, job[w].id)] \in Row
    BY <1>7, <1>a, RewrittenRow DEF MarkSubmissionInProgress, States
  <2>2. row' \in [Tokens -> Row]
    BY <1>7, <1>a, <2>1, SetMineEffect DEF MarkSubmissionInProgress
  <2> QED
    BY <1>7, <2>2, TypeFrame DEF MarkSubmissionInProgress, CanMarkInProgress,
       SubmitPoints
<1>8. CASE PlaceOrder(w)
  <2>1. sent' \subseteq Request
    BY <1>8, <1>a DEF PlaceOrder, Request, Busy
  <2> QED
    BY <1>8, <2>1, TypeFrame DEF PlaceOrder, SubmitPoints
<1>9. CASE MarkSubmissionIndeterminate(w)
  <2>1. [Mine(w) EXCEPT !.state = "INDETERMINATE", !.claim = CoalesceClaim(@),
                        !.reserved = Coalesce(@, job[w].id)] \in Row
    BY <1>9, <1>a, RewrittenRow DEF MarkSubmissionIndeterminate, States
  <2>2. row' \in [Tokens -> Row]
    BY <1>9, <1>a, <2>1, SetMineEffect DEF MarkSubmissionIndeterminate
  <2> QED
    BY <1>9, <2>2, TypeFrame DEF MarkSubmissionIndeterminate
<1> QED
  BY <1>1, <1>2, <1>3, <1>4, <1>5, <1>6, <1>7, <1>8, <1>9 DEF SubmitStep

LEMMA TypeReconcile ==
  ASSUME TypeInv, NEW w \in Workers, ReconcileStep(w) \/ HandlerDies(w)
  PROVE  TypeInv'
<1> USE DEF TypeInv, TypeOK, At
<1>a. job[w].pc # "idle" => job[w].tok \in Tokens /\ Mine(w) \in Row
  BY DEF Busy, Mine
<1>1. CASE LookupAnswers(w) \/ LookupFails(w)
  BY <1>1, TypeFrame DEF LookupAnswers, LookupFails, ReconcilePoints
<1>2. CASE SettleReconciled(w)
  <2>1. Finalized(Mine(w), job[w].id) \in Row
    BY <1>2, <1>a, FinalizedType DEF SettleReconciled, OrderValues, Job
  <2>2. row' \in [Tokens -> Row]
    BY <1>2, <1>a, <2>1, SetMineEffect DEF SettleReconciled
  <2> QED
    BY <1>2, <2>2, TypeFrame DEF SettleReconciled
<1>3. CASE AbandonReconciliation(w)
  <2>1. row' \in [Tokens -> Row]
    BY <1>3, <1>a, BackToType, SetMineEffect DEF AbandonReconciliation, States
  <2> QED
    BY <1>3, <2>1, TypeFrame DEF AbandonReconciliation
<1>4. CASE MarkReadyForRetry(w)
  <2>1. row' \in [Tokens -> Row]
    BY <1>4, <1>a, BackToType, SetMineEffect DEF MarkReadyForRetry, States
  <2> QED
    BY <1>4, <2>1, TypeFrame DEF MarkReadyForRetry
<1>5. CASE HandlerDies(w)
  BY <1>5, TypeFrame DEF HandlerDies
<1> QED
  BY <1>1, <1>2, <1>3, <1>4, <1>5 DEF ReconcileStep

LEMMA TypeClaims ==
  ASSUME TypeInv, NEW w \in Workers, NEW t \in Tokens,
         SubmitClaim(w, t) \/ ReconcileClaim(w, t)
  PROVE  TypeInv'
<1> USE DEF TypeInv, TypeOK
<1>1. CASE SubmitClaim(w, t)
  <2> PICK l \in Leases :
        /\ row' = [row EXCEPT ![t].claim = "fresh", ![t].submit = l]
        /\ job' = [job EXCEPT ![w] = [Idle EXCEPT !.pc = "claimed", !.tok = t,
                                                  !.lease = l]]
    BY <1>1 DEF SubmitClaim
  <2>1. row' \in [Tokens -> Row]
    <3> DEFINE r == [row[t] EXCEPT !.claim = "fresh", !.submit = l]
    <3>1. r \in Row
      BY DEF Row, Claims
    <3>2. row' = [row EXCEPT ![t] = r]
      OBVIOUS
    <3> HIDE DEF r
    <3> QED
      BY <3>1, <3>2
  <2>2. job' \in [Workers -> Job] /\ Busy'
    <3> DEFINE j == [Idle EXCEPT !.pc = "claimed", !.tok = t, !.lease = l]
    <3>1. /\ j \in Job /\ j.pc = "claimed" /\ j.tok \in Tokens
          /\ j.lease \in Leases
      BY DEF Job, Idle, SubmitPoints
    <3>2. job' = [job EXCEPT ![w] = j]
      OBVIOUS
    <3> HIDE DEF j
    <3> QED
      BY <3>1, <3>2 DEF Busy
  <2> QED
    BY <1>1, <2>1, <2>2 DEF SubmitClaim
<1>2. CASE ReconcileClaim(w, t)
  <2> PICK l \in Leases :
        /\ row' = [row EXCEPT ![t] = ReconcileRow(row[t], l)]
        /\ job' = [job EXCEPT ![w] =
             [pc |-> IF ReconcileRow(row[t], l).reserved = None
                       THEN "abandon" ELSE "lookup",
              tok |-> t, lease |-> l,
              id |-> ReconcileRow(row[t], l).reserved,
              prior |-> ReconcileRow(row[t], l).source]]
    BY <1>2 DEF ReconcileClaim
  <2>1. ReconcileRow(row[t], l) \in Row
    BY ReconcileRowType
  <2>2. row' \in [Tokens -> Row]
    BY <2>1
  <2>3. job' \in [Workers -> Job] /\ Busy'
    BY <2>1 DEF Job, Row, ReconcilePoints, Busy
  <2> QED
    BY <1>2, <2>2, <2>3 DEF ReconcileClaim
<1> QED
  BY <1>1, <1>2

LEMMA TypeEnvironment ==
  ASSUME TypeInv, NEW t \in Tokens,
         \/ CreateConfirmation(t) \/ ResolveSubmitted(t)
         \/ ResolveNoSubmission(t) \/ ClaimAges(t) \/ Expire(t)
  PROVE  TypeInv'
<1> USE DEF TypeInv, TypeOK
<1>1. CASE CreateConfirmation(t)
  <2>1. NewRow("READY", "none") \in Row
    BY NewRowType DEF States, Claims
  <2> QED
    BY <1>1, <2>1 DEF CreateConfirmation, Busy
<1>2. CASE ResolveSubmitted(t)
  <2> PICK o \in OrderValues : row' = [row EXCEPT ![t] = Finalized(row[t], o)]
    BY <1>2 DEF ResolveSubmitted, OrderValues
  <2>1. Finalized(row[t], o) \in Row
    BY FinalizedType
  <2> QED
    BY <1>2, <2>1 DEF ResolveSubmitted, Busy
<1>3. CASE ResolveNoSubmission(t)
  BY <1>3, FinalizedType DEF ResolveNoSubmission, OrderValues, Busy
<1>4. CASE ClaimAges(t) \/ Expire(t)
  <2>1. [row[t] EXCEPT !.claim = "stale"] \in Row
    BY DEF Row, Claims
  <2>2. [row[t] EXCEPT !.expired = TRUE] \in Row
    BY DEF Row
  <2>3. row' = [row EXCEPT ![t] = [row[t] EXCEPT !.claim = "stale"]]
        \/ row' = [row EXCEPT ![t] = [row[t] EXCEPT !.expired = TRUE]]
    BY <1>4 DEF ClaimAges, Expire
  <2> QED
    BY <1>4, <2>1, <2>2, <2>3 DEF ClaimAges, Expire, Busy
<1> QED
  BY <1>1, <1>2, <1>3, <1>4

LEMMA TypeNext == TypeInv /\ [Next]_vars => TypeInv'
<1> SUFFICES ASSUME TypeInv, [Next]_vars
             PROVE  TypeInv'
  OBVIOUS
<1>1. ASSUME NEW r \in sent, BrokerAccepts(r)
      PROVE  TypeInv'
  BY <1>1 DEF BrokerAccepts, TypeInv, TypeOK, Busy
<1>2. CASE UNCHANGED vars
  BY <1>2 DEF vars, TypeInv, TypeOK, Busy
<1> QED
  BY <1>1, <1>2, TypeSubmit, TypeReconcile, TypeClaims, TypeEnvironment DEF Next

\* Type correctness of the confirmations table and of the handlers' locals.
THEOREM TypeCorrect == Spec => []TypeOK
<1>1. Spec => []TypeInv
  BY TypeInit, TypeNext, PTL DEF Spec
<1> QED
  BY <1>1, PTL DEF TypeInv

-----------------------------------------------------------------------------
(***************************************************************************)
(* The inductive invariant. ReservedBeforeSent alone is not inductive: it  *)
(* holds because a handler that may place an order knows, from its lease,  *)
(* that the number it holds is the one in the row, because no later        *)
(* handler can change it, and because a number drawn for one token is held *)
(* by no other. That is what the named parts below say.                    *)
(***************************************************************************)

\* What the columns of the row r of token t have to do with each other, when
\* the broker holds the orders of a.
RowOK(t, r, a) ==
  /\ r.reconcile # None <=> r.state = "RECONCILING"
  /\ r.submit # None =>
       /\ r.state \in {"READY", "SUBMITTING", "INDETERMINATE"}
       /\ r.claim # "none"
  /\ r.state = "absent" => r.reserved = None
  /\ r.state \in {"absent", "SUBMITTED"} => r.claim = "none"
  /\ r.order # None => r.state = "SUBMITTED"
  /\ r.order \in Orders =>
       r.reserved = r.order /\ [tok |-> t, id |-> r.order] \in a

RowsOK == \A t \in Tokens : RowOK(t, row[t], arrived)

\* The points at which a handler's number is certainly the row's.
NamedPoints == {"send", "waiting", "finalize", "lookup", "settle", "preserve",
                "retry"}

\* What a handler with locals j knows of its row r.
Knows(j, r) ==
  /\ r.state # "absent"
  /\ j.pc \in {"claimed", "read"} => j.id = None
  /\ j.pc = "create" =>
       /\ j.id # None => r.reserved = j.id
       /\ j.id = None /\ r.submit = j.lease => r.reserved = None
  /\ j.pc \in {"record", "indeterminate"} /\ j.id # None /\ r.submit = j.lease
       => r.reserved \in {None, j.id}
  /\ j.pc = "mark" /\ j.id # None /\ r.submit = j.lease => r.reserved = j.id
  /\ j.pc \in NamedPoints => j.id # None /\ r.reserved = j.id

HandlersKnow ==
  \A w \in Workers : ~At(w, "idle") => Knows(job[w], row[job[w].tok])

IdleIsIdle == \A w \in Workers : At(w, "idle") => job[w] = Idle

Answered ==
  \A w \in Workers : At(w, "finalize") \/ At(w, "settle") =>
    [tok |-> job[w].tok, id |-> job[w].id] \in arrived

LeasesDiffer ==
  \A v, w \in Workers : v # w /\ ~At(v, "idle") /\ ~At(w, "idle") =>
    job[v].lease # job[w].lease

\* A number belongs to one token, wherever it is held.
NumbersDiffer ==
  /\ \A t, u \in Tokens : row[t].reserved = row[u].reserved =>
       t = u \/ row[t].reserved = None
  /\ \A w \in Workers, t \in Tokens : job[w].id = row[t].reserved =>
       job[w].tok = t \/ job[w].id = None
  /\ \A v, w \in Workers : job[v].id = job[w].id =>
       job[v].tok = job[w].tok \/ job[v].id = None

\* What relates the handlers to the rows and to each other.
Handlers == /\ HandlersKnow /\ IdleIsIdle /\ Answered /\ LeasesDiffer
            /\ NumbersDiffer /\ ReservedBeforeSent

Inv == TypeInv /\ RowsOK /\ Handlers

LEMMA InvInit == Init => Inv
<1> SUFFICES ASSUME Init PROVE Inv
  OBVIOUS
<1>1. TypeInv
  BY TypeInit
<1>2. ASSUME NEW t \in Tokens
      PROVE  RowOK(t, row[t], arrived) /\ row[t].reserved = None
  <2>1. row[t] \in {AbsentRow} \cup Migrated
    BY DEF Init
  <2> QED
    BY <2>1, NoneAssumption DEF AbsentRow, Migrated, NewRow, RowOK
<1>3. \A w \in Workers : job[w] = Idle /\ job[w].pc = "idle"
  BY DEF Init, Idle
<1>4. Handlers
  BY <1>2, <1>3 DEF Handlers, HandlersKnow, IdleIsIdle, Answered, LeasesDiffer,
     NumbersDiffer, ReservedBeforeSent, At, Init, Idle
<1> QED
  BY <1>1, <1>2, <1>4 DEF Inv, RowsOK

\* What a handler knows survives every change of its row that keeps the number
\* and hands its lease to nobody.
LEMMA KnowsFrame ==
  ASSUME NEW j, NEW r, NEW s, Knows(j, r), s.state # "absent",
         r.reserved # None => s.reserved = r.reserved,
         s.submit = j.lease => r.submit = j.lease /\ s.reserved = r.reserved
  PROVE  Knows(j, s)
BY DEF Knows

\* A change of the rows that no handler notices.
Gentle ==
  \A t \in Tokens :
    /\ row[t].state # "absent" => row'[t].state # "absent"
    /\ row'[t].reserved = row[t].reserved
    /\ row'[t].submit \in {row[t].submit, None}

LEMMA GentleKnows ==
  ASSUME Inv, Gentle, NEW w \in Workers, ~At(w, "idle")
  PROVE  Knows(job[w], row'[job[w].tok])
<1>1. job[w].tok \in Tokens /\ job[w].lease \in Leases
      /\ Knows(job[w], row[job[w].tok])
  BY DEF Inv, TypeInv, Busy, Handlers, HandlersKnow, At
<1>2. row[job[w].tok].state # "absent"
  BY <1>1 DEF Knows
<1> QED
  BY <1>1, <1>2, KnowsFrame, NoneAssumption DEF Gentle

\* The three kinds of step that change the rows gently: of the environment, of
\* a handler that ends, of a handler that goes on.
LEMMA GentleEnvironment ==
  ASSUME Inv, Gentle, job' = job, sent' = sent, arrived \subseteq arrived'
  PROVE  Handlers'
<1>1. HandlersKnow'
  BY GentleKnows DEF HandlersKnow, At
<1>2. ReservedBeforeSent'
  BY DEF Inv, Handlers, ReservedBeforeSent, Gentle, TypeInv, TypeOK, Request
<1>3. IdleIsIdle' /\ Answered' /\ LeasesDiffer'
  BY DEF Inv, Handlers, IdleIsIdle, Answered, LeasesDiffer, At
<1>4. NumbersDiffer'
  BY DEF Inv, Handlers, NumbersDiffer, Gentle
<1> QED
  BY <1>1, <1>2, <1>3, <1>4 DEF Handlers

LEMMA GentleEnd ==
  ASSUME Inv, Gentle, NEW w \in Workers, End(w), sent' = sent,
         arrived' = arrived
  PROVE  Handlers'
<1>a. /\ job'[w] = Idle
      /\ \A v \in Workers : v # w => job'[v] = job[v]
  BY EndEffect DEF Inv, TypeInv, TypeOK
<1>b. Idle.pc = "idle" /\ Idle.id = None
  BY DEF Idle
<1>1. HandlersKnow'
  BY <1>a, <1>b, GentleKnows DEF HandlersKnow, At
<1>2. ReservedBeforeSent'
  BY DEF Inv, Handlers, ReservedBeforeSent, Gentle, TypeInv, TypeOK, Request
<1>3. IdleIsIdle' /\ Answered' /\ LeasesDiffer'
  BY <1>a, <1>b DEF Inv, Handlers, IdleIsIdle, Answered, LeasesDiffer, At
<1>4. NumbersDiffer'
  BY <1>a, <1>b DEF Inv, Handlers, NumbersDiffer, Gentle
<1> QED
  BY <1>1, <1>2, <1>3, <1>4 DEF Handlers

LEMMA GentleGoto ==
  ASSUME Inv, Gentle, NEW w \in Workers, ~At(w, "idle"),
         NEW p \in SubmitPoints \cup ReconcilePoints, Goto(w, p),
         Knows(job'[w], row'[job[w].tok]),
         p \in {"finalize", "settle"} =>
           [tok |-> job[w].tok, id |-> job[w].id] \in arrived,
         sent' = sent, arrived' = arrived
  PROVE  Handlers'
<1>a. /\ job'[w].pc = p /\ job'[w].tok = job[w].tok
      /\ job'[w].lease = job[w].lease /\ job'[w].id = job[w].id
      /\ \A v \in Workers : v # w => job'[v] = job[v]
  BY GotoEffect DEF Inv, TypeInv, TypeOK
<1>b. p # "idle"
  BY DEF SubmitPoints, ReconcilePoints
<1>1. HandlersKnow'
  BY <1>a, <1>b, GentleKnows DEF HandlersKnow, At
<1>2. ReservedBeforeSent'
  BY DEF Inv, Handlers, ReservedBeforeSent, Gentle, TypeInv, TypeOK, Request
<1>3. IdleIsIdle' /\ Answered' /\ LeasesDiffer'
  BY <1>a, <1>b DEF Inv, Handlers, IdleIsIdle, Answered, LeasesDiffer, At
<1>4. NumbersDiffer'
  BY <1>a, <1>b DEF Inv, Handlers, NumbersDiffer, Gentle
<1> QED
  BY <1>1, <1>2, <1>3, <1>4 DEF Handlers

-----------------------------------------------------------------------------
(* The handlers' own steps.                                                *)

LEMMA SameRows ==
  ASSUME Inv, row' = row, arrived \subseteq arrived'
  PROVE  RowsOK' /\ Gentle
BY DEF Inv, RowsOK, RowOK, Gentle

\* A step that writes one row, of a token that exists, gently.
LEMMA OneRow ==
  ASSUME Inv, NEW t \in Tokens, NEW r \in Row, RowOK(t, r, arrived'),
         row' = [row EXCEPT ![t] = r],
         row[t].state # "absent" => r.state # "absent",
         r.reserved = row[t].reserved, r.submit \in {row[t].submit, None},
         arrived' = arrived
  PROVE  RowsOK' /\ Gentle
BY DEF Inv, TypeInv, TypeOK, RowsOK, Gentle

\* What is known of a handler that is about to take a step.
LEMMA BusyFacts ==
  ASSUME Inv, NEW w \in Workers, ~At(w, "idle")
  PROVE  /\ job[w].tok \in Tokens /\ job[w].lease \in Leases
         /\ job[w].lease # None /\ job[w].id \in Orders \cup {None}
         /\ Mine(w) \in Row /\ Knows(job[w], Mine(w))
         /\ RowOK(job[w].tok, Mine(w), arrived)
         /\ Mine(w).state # "absent"
         /\ job \in [Workers -> Job] /\ row \in [Tokens -> Row]
BY NoneAssumption DEF Inv, TypeInv, TypeOK, Busy, At, Mine, Handlers,
   HandlersKnow, RowsOK, Job, Knows

\* Closing a row, as either finalizer does: nothing else if the lease is gone.
LEMMA FinalizeStep ==
  ASSUME Inv, NEW w \in Workers, ~At(w, "idle"), NEW o \in Orders \cup {None},
         o \in Orders => /\ Mine(w).reserved = o
                         /\ [tok |-> job[w].tok, id |-> o] \in arrived,
         IF CanFinalize(Mine(w), job[w]) THEN SetMine(w, Finalized(Mine(w), o))
                                         ELSE UNCHANGED row,
         End(w), sent' = sent, arrived' = arrived
  PROVE  RowsOK' /\ Handlers'
<1>1. CASE CanFinalize(Mine(w), job[w])
  <2>1. Finalized(Mine(w), o) \in Row
    BY BusyFacts, FinalizedType DEF OrderValues
  <2>2. /\ RowOK(job[w].tok, Finalized(Mine(w), o), arrived)
        /\ Finalized(Mine(w), o).state # "absent"
        /\ Finalized(Mine(w), o).reserved = Mine(w).reserved
        /\ Finalized(Mine(w), o).submit = None
    BY BusyFacts DEF Finalized, RowOK, Row
  <2>3. row' = [row EXCEPT ![job[w].tok] = Finalized(Mine(w), o)]
    BY <1>1 DEF SetMine
  <2>4. RowsOK' /\ Gentle
    BY <2>1, <2>2, <2>3, BusyFacts, OneRow DEF Mine
  <2> QED
    BY <2>4, GentleEnd
<1>2. CASE ~CanFinalize(Mine(w), job[w])
  BY <1>2, SameRows, GentleEnd
<1> QED
  BY <1>1, <1>2

LEMMA GoOnStep ==
  ASSUME Inv, NEW w \in Workers,
         \/ PolicyAllows(w) \/ PolicyRefuses(w) \/ AttemptFails(w)
         \/ AttemptIsUncertain(w) \/ PlaceReturns(w)
         \/ LookupAnswers(w) \/ LookupFails(w)
  PROVE  RowsOK' /\ Handlers'
<1>1. /\ ~At(w, "idle") /\ UNCHANGED <<row, sent, arrived>>
      /\ RowsOK' /\ Gentle
  BY SameRows DEF PolicyAllows, PolicyRefuses, AttemptFails, AttemptIsUncertain,
     PlaceReturns, LookupAnswers, LookupFails, At
<1>2. PICK p \in SubmitPoints \cup ReconcilePoints :
        /\ Goto(w, p)
        /\ \/ job[w].pc = "claimed" /\ p \in {"read", "release"}
           \/ job[w].pc \in {"read", "create"} /\ p = "release"
           \/ /\ job[w].pc \in {"record", "mark", "send", "waiting"}
              /\ p = "indeterminate"
           \/ /\ job[w].pc \in {"waiting", "lookup"}
              /\ p \in {"finalize", "settle"}
              /\ [tok |-> job[w].tok, id |-> job[w].id] \in arrived
           \/ job[w].pc = "lookup" /\ p \in {"abandon", "preserve", "retry"}
  BY DEF PolicyAllows, PolicyRefuses, AttemptFails, AttemptIsUncertain,
     PlaceReturns, LookupAnswers, LookupFails, At, AtBroker, SubmitPoints,
     ReconcilePoints
<1>3. Knows(job'[w], row'[job[w].tok])
  <2>1. /\ Knows(job[w], Mine(w)) /\ row'[job[w].tok] = Mine(w)
        /\ job'[w].pc = p /\ job'[w].id = job[w].id
        /\ job'[w].lease = job[w].lease
    BY <1>1, <1>2, BusyFacts, GotoEffect DEF Mine
  <2> QED
    BY <1>2, <2>1 DEF Knows, NamedPoints
<1>4. p \in {"finalize", "settle"} =>
        [tok |-> job[w].tok, id |-> job[w].id] \in arrived
  BY <1>2
<1> QED
  BY <1>1, <1>2, <1>3, <1>4, GentleGoto

\* Writing the number of a handler that holds the row's lease into the row.
LEMMA ReserveStep ==
  ASSUME Inv, NEW w \in Workers, ~At(w, "idle"), job[w].id # None,
         Mine(w).submit = job[w].lease,
         Mine(w).reserved \in {None, job[w].id},
         NEW r \in Row, r.reserved = job[w].id, r.submit = job[w].lease,
         r.state \notin {"absent", "RECONCILING", "SUBMITTED"},
         r.reconcile = None, r.claim # "none", r.order = None,
         r.state \in {"READY", "SUBMITTING", "INDETERMINATE"},
         row' = [row EXCEPT ![job[w].tok] = r],
         \/ End(w)
         \/ \E p \in {"mark", "send"} : Goto(w, p),
         sent' = sent, arrived' = arrived
  PROVE  RowsOK' /\ Handlers'
<1>a. /\ \A v \in Workers : v # w => job'[v] = job[v]
      /\ \/ job'[w] = Idle /\ job'[w].pc = "idle" /\ job'[w].id = None
         \/ /\ job'[w].pc \in {"mark", "send"} /\ job'[w].tok = job[w].tok
            /\ job'[w].lease = job[w].lease /\ job'[w].id = job[w].id
  <2>1. Idle.pc = "idle" /\ Idle.id = None
    BY DEF Idle
  <2> QED
    BY <2>1, EndEffect, GotoEffect, BusyFacts DEF SubmitPoints
<1>b. /\ row'[job[w].tok] = r
      /\ \A t \in Tokens : t # job[w].tok => row'[t] = row[t]
  BY BusyFacts
<1>1. RowsOK'
  <2>1. RowOK(job[w].tok, r, arrived)
    BY NoneAssumption, BusyFacts DEF RowOK
  <2> QED
    BY <1>b, <2>1 DEF Inv, RowsOK
<1>2. HandlersKnow'
  <2> SUFFICES ASSUME NEW v \in Workers, job'[v].pc # "idle"
               PROVE  Knows(job'[v], row'[job'[v].tok])
    BY DEF HandlersKnow, At
  <2>1. CASE v = w
    BY <1>a, <1>b, <2>1, BusyFacts DEF Knows, NamedPoints
  <2>2. CASE v # w /\ job[v].tok # job[w].tok
    BY <1>a, <1>b, <2>2, BusyFacts DEF At, Mine
  <2>3. CASE v # w /\ job[v].tok = job[w].tok
    <3>1. job[v].lease # job[w].lease /\ Knows(job[v], Mine(w))
      BY <1>a, <2>3, BusyFacts DEF Inv, Handlers, LeasesDiffer, At, Mine
    <3>2. Mine(w).reserved # None => r.reserved = Mine(w).reserved
      OBVIOUS
    <3>3. Knows(job[v], r)
      BY <3>1, <3>2, KnowsFrame
    <3> QED
      BY <1>a, <1>b, <2>3, <3>3
  <2> QED
    BY <2>1, <2>2, <2>3
<1>3. IdleIsIdle' /\ Answered' /\ LeasesDiffer'
  BY <1>a DEF Inv, Handlers, IdleIsIdle, Answered, LeasesDiffer, At
<1>4. NumbersDiffer'
  BY <1>a, <1>b, BusyFacts DEF Inv, Handlers, NumbersDiffer
<1>5. ReservedBeforeSent'
  <2> SUFFICES ASSUME NEW q \in sent
               PROVE  row'[q.tok].reserved = q.id
    BY DEF ReservedBeforeSent
  <2>1. q.tok \in Tokens /\ q.id \in Orders /\ row[q.tok].reserved = q.id
    BY DEF Inv, Handlers, ReservedBeforeSent, TypeInv, TypeOK, Request
  <2> QED
    BY <1>b, <2>1, NoneAssumption DEF Mine
<1> QED
  BY <1>1, <1>2, <1>3, <1>4, <1>5 DEF Handlers

\* A handler that takes up a number for its token: the row's, or a fresh one.
LEMMA TakeNumberStep ==
  ASSUME Inv, NEW w \in Workers, GetConfirmation(w) \/ CreateOrder(w)
  PROVE  RowsOK' /\ Handlers'
<1>1. /\ ~At(w, "idle") /\ UNCHANGED <<row, sent, arrived>>
      /\ RowsOK' /\ Gentle
  BY SameRows DEF GetConfirmation, CreateOrder, At
<1>2. CASE CreateOrder(w) /\ Goto(w, "record")
  <2>1. Knows(job'[w], row'[job[w].tok])
    BY <1>1, <1>2, BusyFacts, GotoEffect
       DEF Knows, Mine, CreateOrder, At, SubmitPoints, NamedPoints
  <2> QED
    BY <1>1, <1>2, <2>1, GentleGoto DEF CreateOrder, SubmitPoints
<1>3. ASSUME NEW p \in {"create", "record"}, NEW o \in Orders \cup {None},
             job' = [job EXCEPT ![w].pc = p, ![w].id = o],
             p = "create" => job[w].pc = "read" /\ o = Mine(w).reserved,
             p = "record" => job[w].pc = "create" /\ job[w].id = None
                             /\ FreshOrder(o)
      PROVE  RowsOK' /\ Handlers'
  <2>a. /\ job'[w].pc = p /\ job'[w].id = o /\ job'[w].tok = job[w].tok
        /\ job'[w].lease = job[w].lease
        /\ \A v \in Workers : v # w => job'[v] = job[v]
    BY <1>1, <1>3, BusyFacts DEF Job
  <2>1. HandlersKnow'
    <3>1. Knows(job'[w], row'[job[w].tok])
      BY <1>1, <1>3, <2>a, BusyFacts DEF Knows, NamedPoints, Mine
    <3> QED
      BY <2>a, <3>1, GentleKnows, <1>1 DEF HandlersKnow, At
  <2>2. IdleIsIdle' /\ Answered' /\ LeasesDiffer'
    BY <1>1, <2>a DEF Inv, Handlers, IdleIsIdle, Answered, LeasesDiffer, At
  <2>3. NumbersDiffer'
    BY <1>1, <1>3, <2>a, BusyFacts
       DEF Inv, Handlers, NumbersDiffer, FreshOrder, Mine
  <2>4. ReservedBeforeSent'
    BY <1>1 DEF Inv, Handlers, ReservedBeforeSent
  <2> QED
    BY <1>1, <2>1, <2>2, <2>3, <2>4 DEF Handlers
<1>4. CASE GetConfirmation(w)
  <2>1. Mine(w).reserved \in Orders \cup {None}
    BY <1>1, BusyFacts DEF Row
  <2> QED
    BY <1>3, <1>4, <2>1 DEF GetConfirmation, At
<1>5. CASE CreateOrder(w) /\ ~Goto(w, "record")
  <2>1. /\ job[w].pc = "create" /\ job[w].id = None
        /\ \E o \in Orders :
             /\ FreshOrder(o)
             /\ job' = [job EXCEPT ![w].pc = "record", ![w].id = o]
    BY <1>5 DEF CreateOrder, At
  <2> QED
    BY <1>3, <2>1
<1> QED
  BY <1>2, <1>4, <1>5

LEMMA RecordStep ==
  ASSUME Inv, NEW w \in Workers, RecordReservedOrderId(w)
  PROVE  RowsOK' /\ Handlers'
<1>a. ~At(w, "idle") /\ job[w].pc = "record" /\ UNCHANGED <<sent, arrived>>
  BY DEF RecordReservedOrderId, At
<1>1. CASE /\ job[w].id # None /\ HoldsSubmit(Mine(w), job[w].lease)
           /\ SetMine(w, [Mine(w) EXCEPT !.reserved = Coalesce(@, job[w].id)])
           /\ Goto(w, "mark")
  <2> DEFINE r == [Mine(w) EXCEPT !.reserved = Coalesce(@, job[w].id)]
  <2>1. Mine(w).reserved \in {None, job[w].id} /\ Mine(w).submit = job[w].lease
    BY <1>a, <1>1, BusyFacts DEF Knows, HoldsSubmit
  <2>2. /\ r \in Row /\ r.reserved = job[w].id /\ r.submit = job[w].lease
        /\ r.state = Mine(w).state /\ r.reconcile = Mine(w).reconcile
        /\ r.claim = Mine(w).claim /\ r.order = Mine(w).order
    BY <1>a, <1>1, <2>1, BusyFacts DEF Row, Coalesce
  <2>3. /\ r.state \in {"READY", "SUBMITTING", "INDETERMINATE"}
        /\ r.reconcile = None /\ r.claim # "none" /\ r.order = None
    BY <1>a, <2>1, <2>2, BusyFacts DEF RowOK
  <2>4. row' = [row EXCEPT ![job[w].tok] = r]
    BY <1>1 DEF SetMine
  <2> QED
    BY <1>a, <1>1, <2>1, <2>2, <2>3, <2>4, ReserveStep
<1>2. CASE /\ UNCHANGED row
           /\ \/ job[w].id = None /\ Goto(w, "mark")
              \/ Goto(w, "indeterminate")
  <2>1. RowsOK' /\ Gentle
    BY <1>a, <1>2, SameRows
  <2>2. Knows(job'[w], row'[job[w].tok])
    BY <1>a, <1>2, BusyFacts, GotoEffect
       DEF Knows, Mine, SubmitPoints, NamedPoints
  <2> QED
    BY <1>a, <1>2, <2>1, <2>2, GentleGoto DEF SubmitPoints
<1> QED
  BY <1>1, <1>2 DEF RecordReservedOrderId

LEMMA MarkStep ==
  ASSUME Inv, NEW w \in Workers, MarkSubmissionInProgress(w)
  PROVE  RowsOK' /\ Handlers'
<1>a. ~At(w, "idle") /\ job[w].pc = "mark" /\ UNCHANGED <<sent, arrived>>
  BY DEF MarkSubmissionInProgress, At
<1>1. CASE CanMarkInProgress(w)
  <2> DEFINE r == [Mine(w) EXCEPT !.state = "SUBMITTING",
                                  !.claim = CoalesceClaim(@),
                                  !.reserved = Coalesce(@, job[w].id)]
  <2>1. /\ job[w].id # None /\ Mine(w).submit = job[w].lease
        /\ Mine(w).reserved = job[w].id /\ Mine(w).claim # "none"
        /\ Mine(w).reconcile = None /\ Mine(w).order = None
    BY <1>a, <1>1, BusyFacts DEF CanMarkInProgress, Knows, HoldsSubmit, RowOK
  <2>2. /\ r \in Row /\ r.reserved = job[w].id /\ r.submit = job[w].lease
        /\ r.state = "SUBMITTING" /\ r.reconcile = None /\ r.claim # "none"
        /\ r.order = None
    BY <1>a, <2>1, BusyFacts DEF Row, Coalesce, CoalesceClaim, States, Claims
  <2>3. row' = [row EXCEPT ![job[w].tok] = r] /\ Goto(w, "send")
    BY <1>1 DEF MarkSubmissionInProgress, SetMine
  <2> QED
    BY <1>a, <2>1, <2>2, <2>3, ReserveStep
<1>2. CASE ~CanMarkInProgress(w)
  <2>1. UNCHANGED row /\ Goto(w, "indeterminate")
    BY <1>2 DEF MarkSubmissionInProgress
  <2>2. RowsOK' /\ Gentle
    BY <1>a, <2>1, SameRows
  <2>3. Knows(job'[w], row'[job[w].tok])
    BY <1>a, <2>1, BusyFacts, GotoEffect
       DEF Knows, Mine, SubmitPoints, NamedPoints
  <2> QED
    BY <1>a, <2>1, <2>2, <2>3, GentleGoto DEF SubmitPoints
<1> QED
  BY <1>1, <1>2

LEMMA MarkIndeterminateStep ==
  ASSUME Inv, NEW w \in Workers, MarkSubmissionIndeterminate(w)
  PROVE  RowsOK' /\ Handlers'
<1>a. /\ ~At(w, "idle") /\ job[w].pc = "indeterminate" /\ End(w)
      /\ UNCHANGED <<sent, arrived>>
  BY DEF MarkSubmissionIndeterminate, At
<1>1. CASE row' = row
  BY <1>a, <1>1, SameRows, GentleEnd
<1>2. CASE row' # row
  <2> DEFINE r == [Mine(w) EXCEPT !.state = "INDETERMINATE",
                                  !.claim = CoalesceClaim(@),
                                  !.reserved = Coalesce(@, job[w].id)]
  <2>1. /\ Mine(w).submit = job[w].lease
        /\ Mine(w).state \in {"READY", "SUBMITTING", "INDETERMINATE"}
        /\ row' = [row EXCEPT ![job[w].tok] = r]
    BY <1>2 DEF MarkSubmissionIndeterminate, HoldsSubmit, SetMine
  <2>a. /\ Mine(w) \in Row /\ Mine(w).reconcile = None
        /\ Mine(w).order = None /\ job[w].id \in Orders \cup {None}
    BY <1>a, <2>1, BusyFacts DEF RowOK
  <2>2. /\ r \in Row /\ r.submit = job[w].lease /\ r.state = "INDETERMINATE"
        /\ r.reserved = Coalesce(Mine(w).reserved, job[w].id)
        /\ r.reconcile = None /\ r.claim # "none" /\ r.order = None
    <3>1. /\ Coalesce(Mine(w).reserved, job[w].id) \in Orders \cup {None}
          /\ CoalesceClaim(Mine(w).claim) \in Claims \ {"none"}
      BY <2>a DEF Row, Coalesce, CoalesceClaim, Claims
    <3>2. "INDETERMINATE" \in States
      BY DEF States
    <3> QED
      BY <2>1, <2>a, <3>1, <3>2 DEF Row
  <2>3. CASE job[w].id # None
    <3>1. /\ Mine(w).reserved \in {None, job[w].id}
          /\ r.reserved = job[w].id
      BY <1>a, <2>1, <2>2, <2>3, BusyFacts DEF Knows, Coalesce
    <3> QED
      BY <1>a, <2>1, <2>2, <2>3, <3>1, ReserveStep
  <2>4. CASE job[w].id = None
    <3>1. r.reserved = Mine(w).reserved
      BY <2>2, <2>4 DEF Coalesce
    <3>2. RowOK(job[w].tok, r, arrived)
      BY <2>1, <2>2, <3>1, BusyFacts, NoneAssumption DEF RowOK
    <3>3. RowsOK' /\ Gentle
      BY <1>a, <2>1, <2>2, <3>1, <3>2, BusyFacts, OneRow DEF Mine
    <3> QED
      BY <1>a, <3>3, GentleEnd
  <2> QED
    BY <2>3, <2>4
<1> QED
  BY <1>1, <1>2

LEMMA PlaceStep ==
  ASSUME Inv, NEW w \in Workers, PlaceOrder(w)
  PROVE  RowsOK' /\ Handlers'
<1>a. /\ ~At(w, "idle") /\ job[w].pc = "send" /\ Goto(w, "waiting")
      /\ UNCHANGED <<row, arrived>>
      /\ sent' = sent \cup {[tok |-> job[w].tok, id |-> job[w].id]}
  BY DEF PlaceOrder, At
<1>b. /\ job'[w].pc = "waiting" /\ job'[w].tok = job[w].tok
      /\ job'[w].lease = job[w].lease /\ job'[w].id = job[w].id
      /\ \A v \in Workers : v # w => job'[v] = job[v]
  BY <1>a, BusyFacts, GotoEffect DEF SubmitPoints
<1>1. RowsOK' /\ Gentle
  BY <1>a, SameRows
<1>2. HandlersKnow'
  <2>1. Knows(job'[w], row'[job[w].tok])
    BY <1>a, <1>b, BusyFacts DEF Knows, NamedPoints, Mine
  <2> QED
    BY <1>1, <1>b, <2>1, GentleKnows DEF HandlersKnow, At
<1>3. IdleIsIdle' /\ Answered' /\ LeasesDiffer'
  BY <1>a, <1>b DEF Inv, Handlers, IdleIsIdle, Answered, LeasesDiffer, At
<1>4. NumbersDiffer'
  BY <1>a, <1>b DEF Inv, Handlers, NumbersDiffer
<1>5. ReservedBeforeSent'
  <2>1. Mine(w).reserved = job[w].id
    BY <1>a, BusyFacts DEF Knows, NamedPoints
  <2> QED
    BY <1>a, <2>1 DEF Inv, Handlers, ReservedBeforeSent, Mine
<1> QED
  BY <1>1, <1>2, <1>3, <1>4, <1>5 DEF Handlers

LEMMA SubmitInv ==
  ASSUME Inv, NEW w \in Workers, SubmitStep(w)
  PROVE  RowsOK' /\ Handlers'
<1>1. CASE DryRunFinalize(w)
  <2>1. None \notin Orders /\ ~At(w, "idle")
    BY <1>1, NoneAssumption DEF DryRunFinalize, At
  <2> QED
    BY <1>1, <2>1, FinalizeStep DEF DryRunFinalize
<1>2. CASE FinalizeConfirmation(w)
  <2>1. /\ ~At(w, "idle") /\ Mine(w).reserved = job[w].id
        /\ [tok |-> job[w].tok, id |-> job[w].id] \in arrived
    BY <1>2, BusyFacts
       DEF FinalizeConfirmation, At, Knows, NamedPoints, Inv, Handlers, Answered
  <2> QED
    BY <1>2, <2>1, BusyFacts, FinalizeStep DEF FinalizeConfirmation
<1>3. CASE ReleaseConfirmation(w)
  <2> DEFINE r == [Mine(w) EXCEPT !.claim = "none", !.submit = None]
  <2>a. ~At(w, "idle") /\ End(w) /\ UNCHANGED <<sent, arrived>>
    BY <1>3 DEF ReleaseConfirmation, At
  <2>1. CASE row' = row
    BY <2>a, <2>1, SameRows, GentleEnd
  <2>2. CASE row' # row
    <3>1. r \in Row /\ RowOK(job[w].tok, r, arrived) /\ r.submit = None
          /\ r.reserved = Mine(w).reserved /\ r.state = Mine(w).state
      BY <2>a, BusyFacts DEF Row, Claims, RowOK
    <3>2. row' = [row EXCEPT ![job[w].tok] = r]
      BY <1>3, <2>2 DEF ReleaseConfirmation, SetMine
    <3>3. RowsOK' /\ Gentle
      BY <2>a, <3>1, <3>2, BusyFacts, OneRow DEF Mine
    <3> QED
      BY <2>a, <3>3, GentleEnd
  <2> QED
    BY <2>1, <2>2
<1> QED
  BY <1>1, <1>2, <1>3, GoOnStep, TakeNumberStep, RecordStep, MarkStep,
     MarkIndeterminateStep, PlaceStep DEF SubmitStep

\* Giving a reconciled row back, as abandon_reconciliation and
\* mark_ready_for_retry do.
LEMMA GiveBackStep ==
  ASSUME Inv, NEW w \in Workers, ~At(w, "idle"),
         NEW state \in {"INDETERMINATE", "READY"}, NEW claim \in Claims,
         HoldsReconcile(Mine(w), job[w].lease),
         row' = [row EXCEPT ![job[w].tok] =
                   [BackTo(state, Mine(w)) EXCEPT !.claim = claim]],
         End(w), sent' = sent, arrived' = arrived
  PROVE  RowsOK' /\ Handlers'
<1> DEFINE r == [BackTo(state, Mine(w)) EXCEPT !.claim = claim]
<1>a. Mine(w) \in Row /\ RowOK(job[w].tok, Mine(w), arrived)
      /\ job[w].tok \in Tokens /\ row[job[w].tok] = Mine(w)
  BY BusyFacts DEF Mine
<1>1. Mine(w).submit = None /\ Mine(w).order = None
  BY <1>a DEF HoldsReconcile, RowOK
<1>2. /\ r.state = state /\ r.reconcile = None /\ r.submit = None
      /\ r.order = None /\ r.reserved = Mine(w).reserved
  BY <1>a, <1>1 DEF BackTo, Row
<1>3. r \in Row
  <2>1. state \in States
    BY DEF States
  <2> QED
    BY <1>a, <2>1 DEF BackTo, Row
<1>4. RowOK(job[w].tok, r, arrived)
  BY <1>2, NoneAssumption DEF RowOK
<1>5. RowsOK' /\ Gentle
  BY <1>a, <1>2, <1>3, <1>4, OneRow
<1> QED
  BY <1>5, GentleEnd

LEMMA ReconcileInv ==
  ASSUME Inv, NEW w \in Workers, ReconcileStep(w) \/ HandlerDies(w)
  PROVE  RowsOK' /\ Handlers'
<1>1. CASE SettleReconciled(w)
  <2>1. /\ ~At(w, "idle") /\ Mine(w).reserved = job[w].id
        /\ [tok |-> job[w].tok, id |-> job[w].id] \in arrived
    BY <1>1, BusyFacts
       DEF SettleReconciled, At, Knows, NamedPoints, Inv, Handlers, Answered
  <2> QED
    BY <1>1, <2>1, BusyFacts, FinalizeStep DEF SettleReconciled
<1>2. CASE AbandonReconciliation(w)
  <2>a. ~At(w, "idle") /\ End(w) /\ UNCHANGED <<sent, arrived>>
    BY <1>2 DEF AbandonReconciliation, At
  <2>1. CASE HoldsReconcile(Mine(w), job[w].lease)
    <3>1. Mine(w) \in Row /\ Mine(w).claim \in Claims
      BY <2>a, BusyFacts DEF Row
    <3>2. BackTo("INDETERMINATE", Mine(w)) =
            [BackTo("INDETERMINATE", Mine(w)) EXCEPT !.claim = Mine(w).claim]
      BY <3>1 DEF BackTo, Row
    <3>3. row' = [row EXCEPT ![job[w].tok] =
                    [BackTo("INDETERMINATE", Mine(w))
                       EXCEPT !.claim = Mine(w).claim]]
      BY <1>2, <2>1, <3>2 DEF AbandonReconciliation, SetMine
    <3> QED
      BY <2>a, <2>1, <3>1, <3>3, GiveBackStep
  <2>2. CASE ~HoldsReconcile(Mine(w), job[w].lease)
    BY <1>2, <2>a, <2>2, SameRows, GentleEnd DEF AbandonReconciliation
  <2> QED
    BY <2>1, <2>2
<1>3. CASE MarkReadyForRetry(w)
  <2>a. ~At(w, "idle") /\ End(w) /\ UNCHANGED <<sent, arrived>>
    BY <1>3 DEF MarkReadyForRetry, At
  <2>1. CASE HoldsReconcile(Mine(w), job[w].lease)
    <3>1. row' = [row EXCEPT ![job[w].tok] =
                    [BackTo("READY", Mine(w)) EXCEPT !.claim = "none"]]
      BY <1>3, <2>1 DEF MarkReadyForRetry, SetMine
    <3> QED
      BY <2>a, <2>1, <3>1, GiveBackStep DEF Claims
  <2>2. CASE ~HoldsReconcile(Mine(w), job[w].lease)
    BY <1>3, <2>a, <2>2, SameRows, GentleEnd DEF MarkReadyForRetry
  <2> QED
    BY <2>1, <2>2
<1>4. CASE HandlerDies(w)
  BY <1>4, SameRows, GentleEnd DEF HandlerDies
<1> QED
  BY <1>1, <1>2, <1>3, <1>4, GoOnStep DEF ReconcileStep

-----------------------------------------------------------------------------
(* Claims.                                                                 *)

\* A claim: an idle worker takes up a token's row under a lease that nobody
\* has. It may take the row away from the handlers that hold it.
LEMMA ClaimStep ==
  ASSUME Inv, NEW w \in Workers, NEW t \in Tokens, NEW l \in Leases,
         At(w, "idle"), FreshLease(l), row[t].state # "absent",
         NEW r \in Row, RowOK(t, r, arrived), r.state # "absent",
         r.reserved = row[t].reserved, r.submit \in {l, None},
         row' = [row EXCEPT ![t] = r],
         NEW j \in Job, job' = [job EXCEPT ![w] = j],
         j.pc \notin {"idle", "finalize", "settle"}, j.tok = t, j.lease = l,
         j.id \in {None, r.reserved}, Knows(j, r),
         sent' = sent, arrived' = arrived
  PROVE  RowsOK' /\ Handlers'
<1>a. /\ row'[t] = r /\ \A u \in Tokens : u # t => row'[u] = row[u]
      /\ job'[w] = j /\ \A v \in Workers : v # w => job'[v] = job[v]
  BY DEF Inv, TypeInv, TypeOK
<1>b. \A u \in Tokens : row'[u].reserved = row[u].reserved
  BY <1>a
<1>1. RowsOK'
  BY <1>a DEF Inv, RowsOK
<1>2. HandlersKnow'
  <2> SUFFICES ASSUME NEW v \in Workers, job'[v].pc # "idle"
               PROVE  Knows(job'[v], row'[job'[v].tok])
    BY DEF HandlersKnow, At
  <2>1. CASE v = w
    BY <1>a, <2>1
  <2>2. CASE v # w /\ job[v].tok # t
    BY <1>a, <2>2, BusyFacts DEF At, Mine
  <2>3. CASE v # w /\ job[v].tok = t
    <3>1. job[v].lease # l /\ job[v].lease # None /\ Knows(job[v], row[t])
      BY <1>a, <2>3, BusyFacts DEF FreshLease, At, Mine
    <3>2. Knows(job[v], r)
      BY <3>1, KnowsFrame
    <3> QED
      BY <1>a, <2>3, <3>2
  <2> QED
    BY <2>1, <2>2, <2>3
<1>3. IdleIsIdle' /\ Answered'
  BY <1>a DEF Inv, Handlers, IdleIsIdle, Answered, At
<1>4. LeasesDiffer'
  BY <1>a DEF Inv, Handlers, LeasesDiffer, At, FreshLease
<1>5. NumbersDiffer'
  BY <1>a, <1>b DEF Inv, Handlers, NumbersDiffer
<1>6. ReservedBeforeSent'
  BY <1>b DEF Inv, Handlers, ReservedBeforeSent, TypeInv, TypeOK, Request
<1> QED
  BY <1>1, <1>2, <1>3, <1>4, <1>5, <1>6 DEF Handlers

LEMMA ClaimsInv ==
  ASSUME Inv, NEW w \in Workers, NEW t \in Tokens,
         SubmitClaim(w, t) \/ ReconcileClaim(w, t)
  PROVE  RowsOK' /\ Handlers'
<1>a. row[t] \in Row /\ RowOK(t, row[t], arrived)
  BY DEF Inv, TypeInv, TypeOK, RowsOK
<1>1. CASE SubmitClaim(w, t)
  <2> PICK l \in Leases :
        /\ FreshLease(l)
        /\ row' = [row EXCEPT ![t].claim = "fresh", ![t].submit = l]
        /\ job' = [job EXCEPT ![w] = [Idle EXCEPT !.pc = "claimed", !.tok = t,
                                                  !.lease = l]]
    BY <1>1 DEF SubmitClaim
  <2> DEFINE r == [row[t] EXCEPT !.claim = "fresh", !.submit = l]
             j == [Idle EXCEPT !.pc = "claimed", !.tok = t, !.lease = l]
  <2>1. /\ At(w, "idle") /\ row[t].state = "READY"
        /\ UNCHANGED <<sent, arrived>>
    BY <1>1 DEF SubmitClaim, Claimable
  <2>2. /\ r \in Row /\ r.state = row[t].state /\ r.claim = "fresh"
        /\ r.reconcile = row[t].reconcile /\ r.submit = l
        /\ r.reserved = row[t].reserved /\ r.order = row[t].order
    BY <1>a DEF Row, Claims
  <2>3. RowOK(t, r, arrived)
    BY <1>a, <2>1, <2>2 DEF RowOK
  <2>4. /\ j \in Job /\ j.pc = "claimed" /\ j.tok = t /\ j.lease = l
        /\ j.id = None
    BY DEF Job, Idle, SubmitPoints
  <2>5. Knows(j, r)
    BY <2>1, <2>2, <2>4 DEF Knows, NamedPoints
  <2>6. row' = [row EXCEPT ![t] = r]
    BY DEF Inv, TypeInv, TypeOK
  <2>7. job' = [job EXCEPT ![w] = j]
    OBVIOUS
  <2> HIDE DEF r, j
  <2> QED
    BY <2>1, <2>2, <2>3, <2>4, <2>5, <2>6, <2>7, ClaimStep
<1>2. CASE ReconcileClaim(w, t)
  <2> PICK l \in Leases :
        /\ FreshLease(l)
        /\ row' = [row EXCEPT ![t] = ReconcileRow(row[t], l)]
        /\ job' = [job EXCEPT ![w] =
             [pc |-> IF ReconcileRow(row[t], l).reserved = None
                       THEN "abandon" ELSE "lookup",
              tok |-> t, lease |-> l,
              id |-> ReconcileRow(row[t], l).reserved,
              prior |-> ReconcileRow(row[t], l).source]]
    BY <1>2 DEF ReconcileClaim
  <2> DEFINE r == ReconcileRow(row[t], l)
             j == [pc |-> IF r.reserved = None THEN "abandon" ELSE "lookup",
                   tok |-> t, lease |-> l, id |-> r.reserved,
                   prior |-> r.source]
  <2>1. /\ At(w, "idle") /\ UNCHANGED <<sent, arrived>> /\ l # None
        /\ row[t].state \in {"INDETERMINATE", "SUBMITTING", "RECONCILING"}
    BY <1>2, NoneAssumption DEF ReconcileClaim, Reconcilable
  <2>2. /\ r \in Row /\ r.state = "RECONCILING" /\ r.submit = None
        /\ r.reconcile = l /\ r.reserved = row[t].reserved
        /\ r.order = row[t].order
    BY <1>a, ReconcileRowType DEF ReconcileRow, Row
  <2>3. RowOK(t, r, arrived)
    BY <1>a, <2>1, <2>2, NoneAssumption DEF RowOK
  <2>4. /\ j \in Job /\ j.pc \in {"abandon", "lookup"} /\ j.tok = t
        /\ j.lease = l /\ j.id = r.reserved
        /\ j.pc = "lookup" => j.id # None
    BY <2>2 DEF Job, Row, ReconcilePoints
  <2>5. row' = [row EXCEPT ![t] = r] /\ job' = [job EXCEPT ![w] = j]
    OBVIOUS
  <2> HIDE DEF r, j
  <2>6. Knows(j, r)
    BY <2>2, <2>4 DEF Knows, NamedPoints
  <2>7. /\ row[t].state # "absent" /\ r.state # "absent" /\ r.submit \in {l, None}
        /\ j.pc \notin {"idle", "finalize", "settle"} /\ j.id \in {None, r.reserved}
    BY <2>1, <2>2, <2>4
  <2> QED
    BY <2>1, <2>2, <2>3, <2>4, <2>5, <2>6, <2>7, ClaimStep
<1> QED
  BY <1>1, <1>2

-----------------------------------------------------------------------------
(* The environment.                                                        *)

\* A step of the environment that writes one row gently.
LEMMA EnvironmentRow ==
  ASSUME Inv, NEW t \in Tokens, NEW r \in Row, RowOK(t, r, arrived),
         row' = [row EXCEPT ![t] = r], r.state # "absent",
         r.reserved = row[t].reserved, r.submit \in {row[t].submit, None},
         job' = job, sent' = sent, arrived' = arrived
  PROVE  RowsOK' /\ Handlers'
<1>1. RowsOK' /\ Gentle
  BY OneRow
<1> QED
  BY <1>1, GentleEnvironment

LEMMA EnvironmentInv ==
  ASSUME Inv, NEW t \in Tokens,
         \/ CreateConfirmation(t) \/ ResolveSubmitted(t)
         \/ ResolveNoSubmission(t) \/ ClaimAges(t) \/ Expire(t)
  PROVE  RowsOK' /\ Handlers'
<1>a. row[t] \in Row /\ RowOK(t, row[t], arrived) /\ row \in [Tokens -> Row]
  BY DEF Inv, TypeInv, TypeOK, RowsOK
<1>1. CASE CreateConfirmation(t)
  <2> DEFINE r == NewRow("READY", "none")
  <2>1. r \in Row
    BY NewRowType DEF States, Claims
  <2>2. row[t].reserved = None /\ row[t].submit = None
    BY <1>1, <1>a DEF CreateConfirmation, RowOK
  <2>3. /\ RowOK(t, r, arrived) /\ r.state = "READY"
        /\ r.reserved = None /\ r.submit = None
    BY NoneAssumption DEF RowOK, NewRow
  <2> HIDE DEF r
  <2> QED
    BY <1>1, <2>1, <2>2, <2>3, EnvironmentRow DEF CreateConfirmation, r
<1>2. CASE ResolveSubmitted(t)
  <2> PICK o \in OrderValues :
        /\ \/ [tok |-> t, id |-> o] \in arrived
           \/ o = LegacyOrder /\ row[t].reserved = None
        /\ row' = [row EXCEPT ![t] = Finalized(row[t], o)]
    BY <1>2 DEF ResolveSubmitted, OrderValues
  <2> DEFINE r == Finalized(row[t], o)
  <2>1. r \in Row
    BY <1>a, FinalizedType
  <2>2. /\ r.state = "SUBMITTED" /\ r.submit = None /\ r.reconcile = None
        /\ r.order = o /\ r.reserved = row[t].reserved /\ r.claim = "none"
    BY <1>a DEF Finalized, Row
  <2>3. ASSUME o \in Orders
        PROVE  row[t].reserved = o /\ [tok |-> t, id |-> o] \in arrived
    <3>1. [tok |-> t, id |-> o] \in arrived
      BY <2>3, NoneAssumption
    <3>2. [tok |-> t, id |-> o] \in sent
      BY <3>1 DEF Inv, TypeInv, TypeOK
    <3> QED
      BY <3>1, <3>2 DEF Inv, Handlers, ReservedBeforeSent
  <2>4. RowOK(t, r, arrived)
    BY <2>2, <2>3, NoneAssumption DEF RowOK
  <2>5. row' = [row EXCEPT ![t] = r]
    OBVIOUS
  <2> HIDE DEF r
  <2> QED
    BY <1>2, <2>1, <2>2, <2>4, <2>5, EnvironmentRow DEF ResolveSubmitted
<1>3. CASE ResolveNoSubmission(t)
  <2> DEFINE r == [Finalized(row[t], None) EXCEPT !.state = "READY"]
  <2>0. Finalized(row[t], None) \in Row
    BY <1>a, FinalizedType DEF OrderValues
  <2>1. r \in Row
    BY <2>0 DEF Row, States
  <2>2. /\ r.state = "READY" /\ r.submit = None /\ r.reconcile = None
        /\ r.order = None /\ r.reserved = row[t].reserved
    BY <1>a DEF Finalized, Row
  <2>3. RowOK(t, r, arrived)
    BY <2>2, NoneAssumption DEF RowOK
  <2>4. row' = [row EXCEPT ![t] = r]
    BY <1>3 DEF ResolveNoSubmission
  <2> HIDE DEF r
  <2> QED
    BY <1>3, <2>1, <2>2, <2>3, <2>4, EnvironmentRow DEF ResolveNoSubmission
<1>4. CASE ClaimAges(t)
  <2> DEFINE r == [row[t] EXCEPT !.claim = "stale"]
  <2>1. /\ r \in Row /\ r.state = row[t].state /\ r.claim = "stale"
        /\ r.submit = row[t].submit /\ r.reconcile = row[t].reconcile
        /\ r.order = row[t].order /\ r.reserved = row[t].reserved
    BY <1>a DEF Row, Claims
  <2>2. row' = [row EXCEPT ![t] = r]
    BY <1>4, <1>a DEF ClaimAges
  <2>3. row[t].state \notin {"absent", "SUBMITTED"}
    BY <1>4, <1>a DEF ClaimAges, RowOK
  <2>4. RowOK(t, r, arrived)
    BY <1>a, <2>1, <2>3 DEF RowOK
  <2> HIDE DEF r
  <2> QED
    BY <1>4, <2>1, <2>2, <2>3, <2>4, EnvironmentRow DEF ClaimAges
<1>5. CASE Expire(t)
  <2> DEFINE r == [row[t] EXCEPT !.expired = TRUE]
  <2>1. /\ r \in Row /\ r.state = row[t].state /\ r.claim = row[t].claim
        /\ r.submit = row[t].submit /\ r.reconcile = row[t].reconcile
        /\ r.order = row[t].order /\ r.reserved = row[t].reserved
    BY <1>a DEF Row
  <2>2. row' = [row EXCEPT ![t] = r]
    BY <1>5, <1>a DEF Expire
  <2>3. RowOK(t, r, arrived)
    BY <1>a, <2>1 DEF RowOK
  <2> HIDE DEF r
  <2> QED
    BY <1>5, <2>1, <2>2, <2>3, EnvironmentRow DEF Expire
<1> QED
  BY <1>1, <1>2, <1>3, <1>4, <1>5

LEMMA InvNext == Inv /\ [Next]_vars => Inv'
<1> SUFFICES ASSUME Inv, [Next]_vars
             PROVE  Inv'
  OBVIOUS
<1>1. TypeInv'
  BY TypeNext DEF Inv
<1>2. ASSUME NEW r \in sent, BrokerAccepts(r)
      PROVE  RowsOK' /\ Handlers'
  BY <1>2, SameRows, GentleEnvironment DEF BrokerAccepts
<1>3. ASSUME UNCHANGED vars
      PROVE  RowsOK' /\ Handlers'
  BY <1>3, SameRows, GentleEnvironment DEF vars
<1>4. RowsOK' /\ Handlers'
  BY <1>2, <1>3, SubmitInv, ReconcileInv, ClaimsInv, EnvironmentInv DEF Next
<1> QED
  BY <1>1, <1>4 DEF Inv

LEMMA InvariantHolds == Spec => []Inv
BY InvInit, InvNext, PTL DEF Spec

-----------------------------------------------------------------------------
(* Theorems.                                                               *)

\* A row never has two authorities (audit.py's two lease columns).
THEOREM RowAuthority == Spec => []OneAuthority
<1>1. Inv => OneAuthority
  <2> SUFFICES ASSUME Inv, NEW t \in Tokens, RowOK(t, row[t], arrived)
               PROVE  /\ row[t].submit = None \/ row[t].reconcile = None
                      /\ row[t].state = "RECONCILING" <=> row[t].reconcile # None
                      /\ row[t].submit # None =>
                           /\ row[t].state \in {"READY", "SUBMITTING",
                                                "INDETERMINATE"}
                           /\ row[t].claim # "none"
    BY DEF OneAuthority, Inv, RowsOK
  <2> QED
    BY DEF RowOK
<1> QED
  BY <1>1, InvariantHolds, PTL

\* No place_order leaves before its number is durable in the token's row.
THEOREM NumberIsDurable == Spec => []ReservedBeforeSent
<1>1. Inv => ReservedBeforeSent
  BY DEF Inv, Handlers
<1> QED
  BY <1>1, InvariantHolds, PTL

\* All submissions of a token are one order at the broker, however often its
\* handlers are retried, stolen from or killed.
THEOREM OrderIdentity == Spec => []OneOrderIdentity
<1>1. Inv => OneOrderIdentity
  <2> SUFFICES ASSUME Inv, NEW r \in sent, NEW q \in sent
               PROVE  r.tok = q.tok <=> r.id = q.id
    BY DEF OneOrderIdentity
  <2>1. /\ r.tok \in Tokens /\ q.tok \in Tokens
        /\ r.id \in Orders /\ q.id \in Orders
        /\ row[r.tok].reserved = r.id /\ row[q.tok].reserved = q.id
    BY DEF Inv, TypeInv, TypeOK, Request, Handlers, ReservedBeforeSent
  <2>2. row[r.tok].reserved = row[q.tok].reserved =>
          r.tok = q.tok \/ row[r.tok].reserved = None
    BY <2>1 DEF Inv, Handlers, NumbersDiffer
  <2> QED
    BY <2>1, <2>2, NoneAssumption
<1> QED
  BY <1>1, InvariantHolds, PTL

\* The table never records an order the broker does not hold for that token.
THEOREM RecordedOrderIsReal == Spec => []SubmittedOrderIsAtBroker
<1>1. Inv => SubmittedOrderIsAtBroker
  <2> SUFFICES ASSUME Inv, NEW t \in Tokens, row[t].order \in Orders,
                      RowOK(t, row[t], arrived)
               PROVE  /\ row[t].state = "SUBMITTED"
                      /\ row[t].reserved = row[t].order
                      /\ [tok |-> t, id |-> row[t].order] \in arrived
    BY DEF SubmittedOrderIsAtBroker, Inv, RowsOK
  <2>1. row[t].order # None
    BY NoneAssumption
  <2> QED
    BY <2>1 DEF RowOK
<1> QED
  BY <1>1, InvariantHolds, PTL

\* All at once: the table neither forgets a number it sent nor reuses one nor
\* invents an order.
THEOREM BackedOrders == Spec => []OrdersAreBacked
<1>1. ReservedBeforeSent /\ OneOrderIdentity /\ SubmittedOrderIsAtBroker
        => OrdersAreBacked
  BY DEF OrdersAreBacked
<1> QED
  BY <1>1, NumberIsDurable, OrderIdentity, RecordedOrderIsReal, PTL

-----------------------------------------------------------------------------
(* What a handler may write, and the two action properties.                *)

\* What a handler's step makes of its row, when the handler still holds it:
\* at most a number where there was none, or the end of the token.
LegalWrite(old, new, j, a) ==
  \/ /\ new.state # "SUBMITTED" /\ new.order = old.order
     /\ new.reserved \in {old.reserved, j.id}
     /\ old.reserved # None => new.reserved = old.reserved
  \/ /\ new.state = "SUBMITTED" /\ new.reserved = old.reserved
     /\ new.order \in {None, j.id}
     /\ new.order # None =>
          old.reserved = j.id /\ [tok |-> j.tok, id |-> j.id] \in a

HandlerWrites(w) ==
  /\ Unsubmitted(Mine(w))
  /\ job[w].lease \in {Mine(w).submit, Mine(w).reconcile}
  /\ \E r \in Row : /\ row' = [row EXCEPT ![job[w].tok] = r]
                    /\ LegalWrite(Mine(w), r, job[w], arrived)

\* Both finalizers.
LEMMA FinalizeWrites ==
  ASSUME Inv, NEW w \in Workers, ~At(w, "idle"), NEW o \in {None, job[w].id},
         o # None => /\ Mine(w).reserved = job[w].id
                     /\ [tok |-> job[w].tok, id |-> job[w].id] \in arrived,
         CanFinalize(Mine(w), job[w]), SetMine(w, Finalized(Mine(w), o))
  PROVE  HandlerWrites(w)
<1>1. Finalized(Mine(w), o) \in Row
  BY BusyFacts, FinalizedType DEF OrderValues
<1>2. LegalWrite(Mine(w), Finalized(Mine(w), o), job[w], arrived)
  BY BusyFacts DEF LegalWrite, Finalized, Row
<1>3. /\ Unsubmitted(Mine(w))
      /\ job[w].lease \in {Mine(w).submit, Mine(w).reconcile}
  BY DEF CanFinalize, HoldsSubmit, HoldsReconcile
<1> QED
  BY <1>1, <1>2, <1>3 DEF HandlerWrites, SetMine

\* The other writes under the submitter's lease.
LEMMA SubmitWrites ==
  ASSUME Inv, NEW w \in Workers, ~At(w, "idle"),
         NEW state \in States \ {"SUBMITTED"}, NEW claim \in Claims,
         NEW reserved \in {Mine(w).reserved, Coalesce(Mine(w).reserved, job[w].id)},
         NEW submit \in {Mine(w).submit, None},
         HoldsSubmit(Mine(w), job[w].lease),
         SetMine(w, [Mine(w) EXCEPT !.state = state, !.claim = claim,
                                    !.submit = submit, !.reserved = reserved])
  PROVE  HandlerWrites(w)
<1> DEFINE r == [Mine(w) EXCEPT !.state = state, !.claim = claim,
                                !.submit = submit, !.reserved = reserved]
<1>1. reserved \in Orders \cup {None} /\ submit \in Leases \cup {None}
  BY BusyFacts DEF Row, Coalesce
<1>2. /\ r \in Row /\ r.state = state /\ r.order = Mine(w).order
      /\ r.reserved = reserved
  BY <1>1, BusyFacts DEF Row
<1>3. LegalWrite(Mine(w), r, job[w], arrived)
  BY <1>2 DEF LegalWrite, Coalesce
<1>4. /\ Unsubmitted(Mine(w))
      /\ job[w].lease \in {Mine(w).submit, Mine(w).reconcile}
  BY DEF HoldsSubmit
<1> QED
  BY <1>2, <1>3, <1>4 DEF HandlerWrites, SetMine

LEMMA HandlerWrite ==
  ASSUME Inv, NEW w \in Workers,
         SubmitStep(w) \/ ReconcileStep(w) \/ HandlerDies(w)
  PROVE  row' = row \/ HandlerWrites(w)
<1>a. /\ ~At(w, "idle") /\ Mine(w) \in Row
      /\ Mine(w).state \in States /\ Mine(w).claim \in Claims
  <2>1. ~At(w, "idle")
    BY DEF SubmitStep, ReconcileStep, HandlerDies, At, PolicyAllows,
       PolicyRefuses, DryRunFinalize, ReleaseConfirmation, GetConfirmation,
       CreateOrder, AttemptFails, RecordReservedOrderId,
       MarkSubmissionInProgress, PlaceOrder, PlaceReturns, AttemptIsUncertain,
       MarkSubmissionIndeterminate, FinalizeConfirmation, LookupAnswers,
       LookupFails, SettleReconciled, AbandonReconciliation, MarkReadyForRetry
  <2> QED
    BY <2>1, BusyFacts DEF Row
<1>b. HoldsSubmit(Mine(w), job[w].lease) => Mine(w).state # "SUBMITTED"
  BY DEF HoldsSubmit, Unsubmitted
<1> SUFFICES ASSUME row' # row PROVE HandlerWrites(w)
  OBVIOUS
<1>1. CASE DryRunFinalize(w)
  BY <1>a, <1>1, FinalizeWrites DEF DryRunFinalize
<1>2. CASE FinalizeConfirmation(w) \/ SettleReconciled(w)
  <2>1. /\ Mine(w).reserved = job[w].id
        /\ [tok |-> job[w].tok, id |-> job[w].id] \in arrived
    BY <1>a, <1>2, BusyFacts
       DEF FinalizeConfirmation, SettleReconciled, At, Knows, NamedPoints, Inv,
           Handlers, Answered
  <2> QED
    BY <1>a, <1>2, <2>1, FinalizeWrites
       DEF FinalizeConfirmation, SettleReconciled
<1>3. CASE ReleaseConfirmation(w)
  <2>1. /\ HoldsSubmit(Mine(w), job[w].lease)
        /\ SetMine(w, [Mine(w) EXCEPT !.claim = "none", !.submit = None])
    BY <1>3 DEF ReleaseConfirmation
  <2>2. [Mine(w) EXCEPT !.claim = "none", !.submit = None] =
        [Mine(w) EXCEPT !.state = Mine(w).state, !.claim = "none",
                        !.submit = None, !.reserved = Mine(w).reserved]
    BY <1>a DEF Row
  <2> QED
    BY <1>a, <1>b, <2>1, <2>2, SubmitWrites DEF Claims
<1>4. CASE RecordReservedOrderId(w)
  <2> DEFINE o == Coalesce(Mine(w).reserved, job[w].id)
  <2>1. /\ HoldsSubmit(Mine(w), job[w].lease)
        /\ SetMine(w, [Mine(w) EXCEPT !.reserved = o])
    BY <1>4 DEF RecordReservedOrderId
  <2>2. [Mine(w) EXCEPT !.reserved = o] =
        [Mine(w) EXCEPT !.state = Mine(w).state, !.claim = Mine(w).claim,
                        !.submit = Mine(w).submit, !.reserved = o]
    BY <1>a DEF Row
  <2> QED
    BY <1>a, <1>b, <2>1, <2>2, SubmitWrites
<1>5. CASE MarkSubmissionInProgress(w) \/ MarkSubmissionIndeterminate(w)
  <2> DEFINE o == Coalesce(Mine(w).reserved, job[w].id)
             c == CoalesceClaim(Mine(w).claim)
  <2> PICK s \in {"SUBMITTING", "INDETERMINATE"} :
        /\ HoldsSubmit(Mine(w), job[w].lease)
        /\ SetMine(w, [Mine(w) EXCEPT !.state = s, !.claim = c,
                                      !.reserved = o])
    BY <1>5 DEF MarkSubmissionInProgress, MarkSubmissionIndeterminate,
       CanMarkInProgress
  <2>1. c \in Claims /\ s \in States \ {"SUBMITTED"}
    BY <1>a DEF CoalesceClaim, Claims, States
  <2>2. [Mine(w) EXCEPT !.state = s, !.claim = c, !.reserved = o] =
        [Mine(w) EXCEPT !.state = s, !.claim = c,
                        !.submit = Mine(w).submit, !.reserved = o]
    BY <1>a DEF Row
  <2> QED
    BY <1>a, <2>1, <2>2, SubmitWrites
<1>6. CASE AbandonReconciliation(w) \/ MarkReadyForRetry(w)
  <2> PICK s \in {"INDETERMINATE", "READY"}, c \in Claims :
        /\ HoldsReconcile(Mine(w), job[w].lease)
        /\ SetMine(w, [BackTo(s, Mine(w)) EXCEPT !.claim = c])
    <3>1. BackTo("INDETERMINATE", Mine(w)) =
            [BackTo("INDETERMINATE", Mine(w)) EXCEPT !.claim = Mine(w).claim]
      BY <1>a DEF BackTo, Row
    <3> QED
      BY <1>a, <1>6, <3>1
         DEF AbandonReconciliation, MarkReadyForRetry, Claims
  <2> DEFINE r == [BackTo(s, Mine(w)) EXCEPT !.claim = c]
  <2>1. s \in States
    BY DEF States
  <2>2. /\ r \in Row /\ r.state = s /\ r.order = Mine(w).order
        /\ r.reserved = Mine(w).reserved
    BY <1>a, <2>1 DEF BackTo, Row
  <2>3. LegalWrite(Mine(w), r, job[w], arrived)
    BY <2>2 DEF LegalWrite
  <2>4. /\ Unsubmitted(Mine(w)) /\ job[w].lease = Mine(w).reconcile
    BY DEF HoldsReconcile, Unsubmitted
  <2>5. row' = [row EXCEPT ![job[w].tok] = r]
    BY DEF SetMine
  <2> HIDE DEF r
  <2> QED
    BY <2>2, <2>3, <2>4, <2>5 DEF HandlerWrites
<1> QED
  BY <1>1, <1>2, <1>3, <1>4, <1>5, <1>6
     DEF SubmitStep, ReconcileStep, HandlerDies, PolicyAllows, PolicyRefuses,
         GetConfirmation, CreateOrder, AttemptFails, PlaceOrder, PlaceReturns,
         AttemptIsUncertain, LookupAnswers, LookupFails

\* A handler's step leaves the other handlers' locals alone.
LEMMA OnlyMyLocals ==
  ASSUME Inv, NEW w \in Workers,
         SubmitStep(w) \/ ReconcileStep(w) \/ HandlerDies(w),
         NEW v \in Workers \ {w}
  PROVE  job'[v] = job[v]
<1>1. \E j : job' = [job EXCEPT ![w] = j]
  <2>1. CASE \E p : Goto(w, p)
    BY <2>1 DEF Goto
  <2>2. CASE End(w)
    BY <2>2 DEF End
  <2>3. CASE GetConfirmation(w) \/ CreateOrder(w)
    BY <2>3 DEF GetConfirmation, CreateOrder, Goto
  <2> QED
    BY <2>1, <2>2, <2>3
       DEF SubmitStep, ReconcileStep, HandlerDies, PolicyAllows, PolicyRefuses,
           DryRunFinalize, ReleaseConfirmation, AttemptFails,
           RecordReservedOrderId, MarkSubmissionInProgress, PlaceOrder,
           PlaceReturns, AttemptIsUncertain, MarkSubmissionIndeterminate,
           FinalizeConfirmation, LookupAnswers, LookupFails, SettleReconciled,
           AbandonReconciliation, MarkReadyForRetry
<1> QED
  BY <1>1 DEF Inv, TypeInv, TypeOK

\* A submitted token is never reopened or rewritten.
THEOREM SubmittedForGood == Spec => SubmittedIsFinal
<1>1. ASSUME Inv, [Next]_vars, NEW t \in Tokens, row[t].state = "SUBMITTED"
      PROVE  row'[t] = [row[t] EXCEPT !.expired = row'[t].expired]
  <2>a. row[t] \in Row /\ row \in [Tokens -> Row]
    BY <1>1 DEF Inv, TypeInv, TypeOK
  <2>b. SUFFICES ASSUME row'[t] # row[t]
                 PROVE  row'[t] = [row[t] EXCEPT !.expired = TRUE]
                        /\ row'[t].expired = TRUE
    <3>1. row[t] = [row[t] EXCEPT !.expired = row[t].expired]
      BY <2>a DEF Row
    <3> QED
      BY <2>b, <3>1
  <2>1. ASSUME NEW w \in Workers,
               SubmitStep(w) \/ ReconcileStep(w) \/ HandlerDies(w)
        PROVE  FALSE
    <3>1. HandlerWrites(w)
      BY <1>1, <2>b, <2>1, HandlerWrite
    <3> QED
      BY <1>1, <2>a, <2>b, <3>1 DEF HandlerWrites, Unsubmitted, Mine
  <2>2. ASSUME NEW w \in Workers, NEW u \in Tokens,
               SubmitClaim(w, u) \/ ReconcileClaim(w, u)
        PROVE  FALSE
    BY <1>1, <2>a, <2>b, <2>2
       DEF SubmitClaim, ReconcileClaim, Claimable, Reconcilable
  <2>3. ASSUME NEW u \in Tokens,
               \/ CreateConfirmation(u) \/ ResolveSubmitted(u)
               \/ ResolveNoSubmission(u)
        PROVE  FALSE
    BY <1>1, <2>a, <2>b, <2>3
       DEF CreateConfirmation, ResolveSubmitted, ResolveNoSubmission
  <2>4. ASSUME NEW u \in Tokens, ClaimAges(u)
        PROVE  FALSE
    <3>1. row[t].claim = "none"
      BY <1>1 DEF Inv, RowsOK, RowOK
    <3> QED
      BY <2>a, <2>b, <2>4, <3>1 DEF ClaimAges
  <2>5. ASSUME NEW u \in Tokens, Expire(u)
        PROVE  row'[t] = [row[t] EXCEPT !.expired = TRUE]
               /\ row'[t].expired = TRUE
    BY <2>a, <2>b, <2>5 DEF Expire, Row
  <2>6. row' = row => FALSE
    BY <2>b
  <2> QED
    BY <1>1, <2>1, <2>2, <2>3, <2>4, <2>5, <2>6 DEF Next, BrokerAccepts, vars
<1>2. Inv /\ [Next]_vars =>
        [\A t \in Tokens : row[t].state = "SUBMITTED" =>
           row'[t] = [row[t] EXCEPT !.expired = row'[t].expired]]_vars
  BY <1>1
<1> QED
  BY <1>2, InvariantHolds, PTL DEF Spec, SubmittedIsFinal

\* Whatever a handler does after its claim was stolen leaves the table alone.
THEOREM StolenIsFenced == Spec => StolenHandlerIsFenced
<1>1. ASSUME Inv, [Next]_vars, NEW w \in Workers, ~At(w, "idle"),
             job'[w] # job[w],
             job[w].lease \notin {Mine(w).submit, Mine(w).reconcile}
      PROVE  row' = row
  <2>1. CASE SubmitStep(w) \/ ReconcileStep(w) \/ HandlerDies(w)
    BY <1>1, <2>1, HandlerWrite DEF HandlerWrites
  <2>2. ASSUME NEW v \in Workers, v # w,
               SubmitStep(v) \/ ReconcileStep(v) \/ HandlerDies(v)
        PROVE  FALSE
    BY <1>1, <2>2, OnlyMyLocals
  <2>3. ASSUME NEW v \in Workers, NEW t \in Tokens,
               SubmitClaim(v, t) \/ ReconcileClaim(v, t)
        PROVE  FALSE
    <3>1. v # w /\ \E j : job' = [job EXCEPT ![v] = j]
      BY <1>1, <2>3 DEF SubmitClaim, ReconcileClaim
    <3> QED
      BY <1>1, <3>1 DEF Inv, TypeInv, TypeOK
  <2>4. job' = job => FALSE
    BY <1>1
  <2> QED
    BY <1>1, <2>1, <2>2, <2>3, <2>4
       DEF Next, CreateConfirmation, ResolveSubmitted, ResolveNoSubmission,
           ClaimAges, Expire, BrokerAccepts, vars
<1>2. Inv /\ [Next]_vars =>
        [\A w \in Workers : ~At(w, "idle") /\ job'[w] # job[w]
           /\ job[w].lease \notin {Mine(w).submit, Mine(w).reconcile}
           => row' = row]_vars
  BY <1>1
<1> QED
  BY <1>2, InvariantHolds, PTL DEF Spec, StolenHandlerIsFenced

-----------------------------------------------------------------------------
(* The table implements the order authority.                               *)

LEMMA AuthorityInit == Init => Authority!Init
<1> SUFFICES ASSUME Init PROVE Authority!Init
  OBVIOUS
<1>1. ASSUME NEW t \in Tokens
      PROVE  /\ row[t].reserved = None /\ row[t].order \in {None, LegacyOrder}
             /\ (row[t].state = "SUBMITTED") = (row[t].order = LegacyOrder)
  <2>1. row[t] \in {AbsentRow} \cup Migrated
    BY DEF Init
  <2>2. None # LegacyOrder
    BY NoneAssumption
  <2> QED
    BY <2>1, <2>2 DEF AbsentRow, Migrated, NewRow
<1> QED
  BY <1>1 DEF Init, Authority!Init

\* A step that keeps what the authority sees of every row.
SameToken(t) == /\ row'[t].reserved = row[t].reserved
                /\ row'[t].order = row[t].order
                /\ row'[t].state = "SUBMITTED" <=> row[t].state = "SUBMITTED"

LEMMA AuthorityStutters ==
  ASSUME \A t \in Tokens : SameToken(t), sent' = sent, arrived' = arrived
  PROVE  UNCHANGED Authority!vars
BY DEF SameToken, Authority!vars

\* A number comes into the row of a token that had none.
LEMMA AuthorityIdentifies ==
  ASSUME NEW t \in Tokens, row[t].state # "SUBMITTED", row[t].reserved = None,
         NEW o \in Orders, \A u \in Tokens : row[u].reserved # o,
         row'[t].reserved = o, row'[t].order = row[t].order,
         row'[t].state # "SUBMITTED",
         \A u \in Tokens \ {t} : row'[u] = row[u],
         sent' = sent, arrived' = arrived
  PROVE  Authority!Identify(t)
BY DEF Authority!Identify

\* A token is used up.
LEMMA AuthorityCloses ==
  ASSUME NEW t \in Tokens, row[t].state # "SUBMITTED",
         NEW o \in OrderValues,
         o \in Orders => /\ o = row[t].reserved
                         /\ [tok |-> t, id |-> o] \in arrived,
         o = LegacyOrder => row[t].reserved = None,
         row'[t].reserved = row[t].reserved, row'[t].order = o,
         row'[t].state = "SUBMITTED",
         \A u \in Tokens \ {t} : row'[u] = row[u],
         sent' = sent, arrived' = arrived
  PROVE  Authority!Close(t)
<1>1. [u \in Tokens |-> row'[u].order] =
        [[u \in Tokens |-> row[u].order] EXCEPT ![t] = o]
  OBVIOUS
<1>2. [u \in Tokens |-> row'[u].state = "SUBMITTED"] =
        [[u \in Tokens |-> row[u].state = "SUBMITTED"] EXCEPT ![t] = TRUE]
  OBVIOUS
<1>3. [u \in Tokens |-> row'[u].reserved] = [u \in Tokens |-> row[u].reserved]
  OBVIOUS
<1> QED
  BY <1>1, <1>2, <1>3 DEF Authority!Close, OrderValues

LEMMA AuthorityWrites ==
  ASSUME Inv, NEW w \in Workers, ~At(w, "idle"), HandlerWrites(w),
         sent' = sent, arrived' = arrived
  PROVE  [Authority!Next]_(Authority!vars)
<1> PICK t \in Tokens : t = job[w].tok
  BY BusyFacts
<1> PICK r \in Row : /\ row' = [row EXCEPT ![t] = r]
                     /\ LegalWrite(Mine(w), r, job[w], arrived)
  BY DEF HandlerWrites
<1>a. /\ t \in Tokens /\ row[t] = Mine(w) /\ row'[t] = r
      /\ \A u \in Tokens \ {t} : row'[u] = row[u]
      /\ row[t].state # "SUBMITTED" /\ job[w].id \in Orders \cup {None}
  BY BusyFacts DEF Mine, HandlerWrites, Unsubmitted
<1>1. CASE r.state # "SUBMITTED" /\ r.reserved = row[t].reserved
  BY <1>1, <1>a, AuthorityStutters DEF SameToken, LegalWrite
<1>2. CASE r.state # "SUBMITTED" /\ r.reserved # row[t].reserved
  <2>1. /\ row[t].reserved = None /\ r.reserved = job[w].id
        /\ job[w].id \in Orders /\ r.order = row[t].order
    BY <1>2, <1>a DEF LegalWrite
  <2>2. ASSUME NEW u \in Tokens
        PROVE  row[u].reserved # job[w].id
    BY <2>1, <1>a, NoneAssumption DEF Inv, Handlers, NumbersDiffer
  <2>3. Authority!Identify(t)
    BY <1>2, <1>a, <2>1, <2>2, AuthorityIdentifies
  <2> QED
    BY <1>a, <2>3 DEF Authority!Next
<1>3. CASE r.state = "SUBMITTED"
  <2>1. /\ r.reserved = row[t].reserved /\ r.order \in OrderValues
        /\ r.order # LegacyOrder
        /\ r.order \in Orders => /\ r.order = row[t].reserved
                                 /\ [tok |-> t, id |-> r.order] \in arrived
    BY <1>3, <1>a, NoneAssumption DEF LegalWrite, OrderValues
  <2>2. Authority!Close(t)
    BY <1>3, <1>a, <2>1, AuthorityCloses
  <2> QED
    BY <1>a, <2>2 DEF Authority!Next
<1> QED
  BY <1>1, <1>2, <1>3

LEMMA AuthorityHandler ==
  ASSUME Inv, NEW w \in Workers,
         SubmitStep(w) \/ ReconcileStep(w) \/ HandlerDies(w)
  PROVE  [Authority!Next]_(Authority!vars)
<1>1. CASE PlaceOrder(w)
  <2> PICK t \in Tokens : t = job[w].tok
    BY <1>1, BusyFacts DEF PlaceOrder, At
  <2>1. /\ row[t].reserved = job[w].id /\ job[w].id # None
        /\ sent' = sent \cup {[tok |-> t, id |-> job[w].id]}
        /\ row' = row /\ arrived' = arrived
    BY <1>1, BusyFacts DEF PlaceOrder, At, Knows, NamedPoints, Mine
  <2>2. Authority!Request(t)
    BY <2>1 DEF Authority!Request
  <2> QED
    BY <2>2 DEF Authority!Next
<1>2. CASE ~PlaceOrder(w)
  <2>1. sent' = sent /\ arrived' = arrived /\ ~At(w, "idle")
    BY <1>2 DEF SubmitStep, ReconcileStep, HandlerDies, At, PolicyAllows,
       PolicyRefuses, DryRunFinalize, ReleaseConfirmation, GetConfirmation,
       CreateOrder, AttemptFails, RecordReservedOrderId,
       MarkSubmissionInProgress, PlaceReturns, AttemptIsUncertain,
       MarkSubmissionIndeterminate, FinalizeConfirmation, LookupAnswers,
       LookupFails, SettleReconciled, AbandonReconciliation, MarkReadyForRetry
  <2>2. CASE row' = row
    BY <2>1, <2>2, AuthorityStutters DEF SameToken
  <2>3. CASE HandlerWrites(w)
    BY <2>1, <2>3, AuthorityWrites
  <2> QED
    BY <2>2, <2>3, HandlerWrite
<1> QED
  BY <1>1, <1>2

LEMMA AuthorityEnvironment ==
  ASSUME Inv, NEW t \in Tokens,
         \/ \E w \in Workers : SubmitClaim(w, t) \/ ReconcileClaim(w, t)
         \/ CreateConfirmation(t) \/ ResolveSubmitted(t)
         \/ ResolveNoSubmission(t) \/ ClaimAges(t) \/ Expire(t)
  PROVE  [Authority!Next]_(Authority!vars)
<1>a. row[t] \in Row /\ RowOK(t, row[t], arrived) /\ row \in [Tokens -> Row]
  BY DEF Inv, TypeInv, TypeOK, RowsOK
<1>b. /\ sent' = sent /\ arrived' = arrived
      /\ \E r : row' = [row EXCEPT ![t] = r]
  BY DEF SubmitClaim, ReconcileClaim, CreateConfirmation, ResolveSubmitted,
     ResolveNoSubmission, ClaimAges, Expire
<1>c. \A u \in Tokens \ {t} : row'[u] = row[u]
  BY <1>a, <1>b
<1>d. ASSUME SameToken(t)
      PROVE  UNCHANGED Authority!vars
  BY <1>b, <1>c, <1>d, AuthorityStutters DEF SameToken
<1>1. CASE \E w \in Workers : SubmitClaim(w, t)
  <2>1. \E l : row'[t] = [row[t] EXCEPT !.claim = "fresh", !.submit = l]
    BY <1>1, <1>a DEF SubmitClaim
  <2> QED
    BY <1>a, <1>d, <2>1 DEF SameToken, Row
<1>2. CASE \E w \in Workers : ReconcileClaim(w, t)
  <2>1. /\ row[t].state \in {"INDETERMINATE", "SUBMITTING", "RECONCILING"}
        /\ \E l : row'[t] = ReconcileRow(row[t], l)
    BY <1>2, <1>a DEF ReconcileClaim, Reconcilable
  <2> QED
    BY <1>a, <1>d, <2>1 DEF SameToken, ReconcileRow, Row
<1>3. CASE CreateConfirmation(t)
  <2>1. row[t].state = "absent" /\ row'[t] = NewRow("READY", "none")
    BY <1>3, <1>a DEF CreateConfirmation
  <2> QED
    BY <1>a, <1>d, <2>1 DEF SameToken, NewRow, RowOK
<1>4. CASE ResolveSubmitted(t)
  <2> PICK o \in OrderValues :
        /\ \/ [tok |-> t, id |-> o] \in arrived
           \/ o = LegacyOrder /\ row[t].reserved = None
        /\ row'[t] = Finalized(row[t], o)
    BY <1>4, <1>a DEF ResolveSubmitted, OrderValues
  <2>1. [tok |-> t, id |-> o] \in arrived =>
          o = row[t].reserved /\ o \in Orders
    BY DEF Inv, TypeInv, TypeOK, Request, Handlers, ReservedBeforeSent
  <2>2. /\ row'[t].state = "SUBMITTED" /\ row'[t].order = o
        /\ row'[t].reserved = row[t].reserved /\ row[t].state # "SUBMITTED"
    BY <1>4, <1>a DEF Finalized, Row, ResolveSubmitted
  <2>3. Authority!Close(t)
    BY <1>b, <1>c, <2>1, <2>2, AuthorityCloses, NoneAssumption
  <2> QED
    BY <2>3 DEF Authority!Next
<1>5. CASE ResolveNoSubmission(t)
  <2>1. /\ row[t].state = "INDETERMINATE"
        /\ row'[t] = [Finalized(row[t], None) EXCEPT !.state = "READY"]
    BY <1>5, <1>a DEF ResolveNoSubmission
  <2> QED
    BY <1>a, <1>d, <2>1 DEF SameToken, Finalized, Row, RowOK
<1>6. CASE ClaimAges(t) \/ Expire(t)
  <2>1. \/ row'[t] = [row[t] EXCEPT !.claim = "stale"]
        \/ row'[t] = [row[t] EXCEPT !.expired = TRUE]
    BY <1>6, <1>a DEF ClaimAges, Expire
  <2> QED
    BY <1>a, <1>d, <2>1 DEF SameToken, Row
<1> QED
  BY <1>1, <1>2, <1>3, <1>4, <1>5, <1>6

\* Every run of the execution service's token handlers is a run of the order
\* authority: one identity per token, everything sent under it, closed once.
THEOREM Refinement == Spec => ImplementsAuthority
<1>1. Inv /\ [Next]_vars => [Authority!Next]_(Authority!vars)
  <2> SUFFICES ASSUME Inv, [Next]_vars
               PROVE  [Authority!Next]_(Authority!vars)
    OBVIOUS
  <2>1. ASSUME NEW r \in sent, BrokerAccepts(r)
        PROVE  Authority!Next
    <3>1. Authority!Accept(r)
      BY <2>1 DEF BrokerAccepts, Authority!Accept
    <3> QED
      BY <3>1 DEF Authority!Next
  <2>2. ASSUME UNCHANGED vars
        PROVE  UNCHANGED Authority!vars
    BY <2>2, AuthorityStutters DEF vars, SameToken
  <2> QED
    BY <2>1, <2>2, AuthorityHandler, AuthorityEnvironment DEF Next
<1> QED
  BY <1>1, AuthorityInit, InvariantHolds, PTL
     DEF Spec, ImplementsAuthority, Authority!Spec
=============================================================================
