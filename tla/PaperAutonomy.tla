---------------------------- MODULE PaperAutonomy ----------------------------
(***************************************************************************)
(* The autonomous PAPER path between the research plane and the execution  *)
(* API: the exporter of ops/decision_pipeline.py (run every five minutes   *)
(* by the committee finalizer), the inbox directory, the deterministic     *)
(* runner of autonomy/runner.py, its daily budget ledger and the kill      *)
(* switch.                                                                 *)
(*                                                                         *)
(* A run is a sequence of file operations, budget transactions and HTTP    *)
(* calls; each is one action, so that exports, a second run, the kill      *)
(* switch, midnight and crashes come between any two of them. The          *)
(* execution API is its effect: a submission makes an order or it does not *)
(* (Confirmation.tla says how).                                            *)
(***************************************************************************)
EXTENDS Integers, FiniteSets, FiniteSetsExt

CONSTANTS
  Proposals,   \* proposal ids; envelopes are processed in their order
  Runners,     \* invocations of the runner that may overlap
  MaxCount,    \* policy.max_order_count_per_day
  MaxNotional, \* policy.max_notional_per_day_microusd
  Notional,    \* proposal |-> its max_notional_microusd
  LastDay,     \* bound: days are 0..LastDay
  Faults,      \* may runs die and ledger writes fail?
  None

ASSUME ProposalAssumption == Proposals \subseteq Nat /\ None \notin Proposals
ASSUME BudgetAssumption ==
  /\ MaxCount \in Nat /\ MaxNotional \in Nat
  /\ Notional \in [Proposals -> Nat]
ASSUME DayAssumption == LastDay \in Nat /\ None \notin Nat
ASSUME FaultAssumption == Faults \in BOOLEAN

Days == 0..LastDay

VARIABLES
  day,        \* the UTC date
  created,    \* proposal |-> date of created_at, or None: not persisted
  authority,  \* proposals with a published authority record
  inbox,      \* envelopes in the inbox
  processed,  \* envelopes moved to processed/
  blocked,    \* does the kill switch file say BLOCKED?
  charges,    \* rows <<budget_day, proposal_id>> of budget_charge
  ledger,     \* executions in the run ledger: <<run day, proposal>>
  orders,     \* <<run day, proposal>> |-> orders sent for them
  run         \* runner |-> program point and locals

vars == <<day, created, authority, inbox, processed, blocked, charges, ledger,
          orders, run>>

exports == <<created, authority>>
budget == <<charges, ledger, orders>>

\* The points of run_autonomy: "proof" before the PAPER proof, "next" at the
\* head of the loop, the others inside it, named for what comes next.
Points == {"idle", "proof", "next", "usage", "charge", "preview", "recheck",
           "submit", "place", "record", "archive"}

Run == [pc : Points, day : Days, files : SUBSET Proposals,
        cur : Proposals \cup {None}]

Stopped == [pc |-> "idle", day |-> 0, files |-> {}, cur |-> None]

-----------------------------------------------------------------------------
(* The research plane.                                                     *)

\* The portfolio engine persists a trade proposal.
PersistProposal(p) ==
  /\ created[p] = None
  /\ created' = [created EXCEPT ![p] = day]
  /\ UNCHANGED <<day, authority, inbox, processed, blocked, budget, run>>

PublishAuthority(p) ==
  /\ created[p] # None /\ p \notin authority
  /\ authority' = authority \cup {p}
  /\ UNCHANGED <<day, created, inbox, processed, blocked, budget, run>>

\* export_eligible_proposals: it looks for the envelope in the inbox only, and
\* the finalizer exports every decision again at every tick.
PublishEnvelope(p) ==
  /\ p \in authority /\ p \notin inbox
  /\ inbox' = inbox \cup {p}
  /\ UNCHANGED <<day, exports, processed, blocked, budget, run>>

-----------------------------------------------------------------------------
(* The runner. Refusing a proposal goes on to the next one and leaves its  *)
(* envelope in the inbox.                                                  *)

At(r, p) == run[r].pc = p
Goto(r, p) == run' = [run EXCEPT ![r].pc = p]
Cur(r) == run[r].cur

Charge(r) == <<run[r].day, Cur(r)>>

\* Enabled policy, kill switch clear, envelopes listed; the date is read once.
\* An empty inbox ends the run before any broker contact.
StartRun(r) ==
  /\ At(r, "idle") /\ ~blocked /\ inbox # {}
  /\ run' = [run EXCEPT ![r] = [pc |-> "proof", day |-> day, files |-> inbox,
                                cur |-> None]]
  /\ UNCHANGED <<day, exports, inbox, processed, blocked, budget>>

\* prove_paper_account and the allowlist query, either of which may fail.
ProvePaper(r) ==
  /\ At(r, "proof")
  /\ \/ Goto(r, "next")
     \/ run' = [run EXCEPT ![r] = Stopped]
  /\ UNCHANGED <<day, exports, inbox, processed, blocked, budget>>

\* proposal_max_age is 26 hours: the day of creation, or part of the next one.
FreshOn(p, d) == created[p] # None /\ d - created[p] \in {0, 1}

\* The envelope is read, validated against policy and authority, and mapped to
\* an order; any check may refuse it, and another run may have moved the file.
NextEnvelope(r) ==
  /\ At(r, "next") /\ run[r].files # {}
  /\ LET p == Min(run[r].files) IN
       \/ /\ p \in inbox \cap authority /\ FreshOn(p, run[r].day)
          /\ run' = [run EXCEPT ![r].pc = "usage", ![r].cur = p,
                                ![r].files = @ \ {p}]
       \/ run' = [run EXCEPT ![r].files = @ \ {p}]
  /\ UNCHANGED <<day, exports, inbox, processed, blocked, budget>>

FinishRun(r) ==
  /\ At(r, "next") /\ run[r].files = {}
  /\ run' = [run EXCEPT ![r] = Stopped]
  /\ UNCHANGED <<day, exports, inbox, processed, blocked, budget>>

Charged(d) == {p \in Proposals : <<d, p>> \in charges}
NotionalOf(set) == MapThenSumSet(LAMBDA p : Notional[p], set)
UsedNotional(d) == NotionalOf(Charged(d))

\* Mutant: the proposal's own notional is not added.
WithinBudgetSoFar(p, d) == /\ Cardinality(Charged(d)) < MaxCount
                           /\ UsedNotional(d) < MaxNotional

WithinBudget(p, d) == /\ Cardinality(Charged(d)) < MaxCount
                      /\ UsedNotional(d) + Notional[p] <= MaxNotional

\* daily_usage: a transaction of its own, before the charge.
DailyUsage(r) ==
  /\ At(r, "usage")
  /\ \/ WithinBudget(Cur(r), run[r].day) /\ Goto(r, "charge")
     \/ ~WithinBudget(Cur(r), run[r].day) /\ Goto(r, "next")
  /\ UNCHANGED <<day, exports, inbox, processed, blocked, budget>>

\* Mutant: the result of INSERT OR IGNORE is not looked at.
ChargeBudgetBlindly(r) ==
  /\ At(r, "charge")
  /\ charges' = charges \cup {Charge(r)}
  /\ Goto(r, "preview")
  /\ UNCHANGED <<day, exports, inbox, processed, blocked, ledger, orders>>

\* charge(): INSERT OR IGNORE; a row that is there is a duplicate.
ChargeBudget(r) ==
  /\ At(r, "charge")
  /\ \/ /\ Charge(r) \notin charges
        /\ charges' = charges \cup {Charge(r)}
        /\ Goto(r, "preview")
     \/ Charge(r) \in charges /\ Goto(r, "next") /\ UNCHANGED charges
  /\ UNCHANGED <<day, exports, inbox, processed, blocked, ledger, orders>>

Preview(r) ==
  /\ At(r, "preview")
  /\ Goto(r, "recheck") \/ Goto(r, "next")
  /\ UNCHANGED <<day, exports, inbox, processed, blocked, budget>>

RecheckKillSwitch(r) ==
  /\ At(r, "recheck")
  /\ IF blocked THEN Goto(r, "next") ELSE Goto(r, "submit")
  /\ UNCHANGED <<day, exports, inbox, processed, blocked, budget>>

\* POST /orders/submit reads the switch again. Its 403, like any other error,
\* is an indeterminate submission to the runner.
Submit(r) ==
  /\ At(r, "submit")
  /\ IF blocked THEN Goto(r, "record") ELSE Goto(r, "place")
  /\ UNCHANGED <<day, exports, inbox, processed, blocked, budget>>

\* The API sends the order, or does not (dry run, an upstream error).
Place(r) ==
  /\ At(r, "place")
  /\ \/ orders' = [orders EXCEPT ![Charge(r)] = @ + 1]
     \/ UNCHANGED orders
  /\ Goto(r, "record")
  /\ UNCHANGED <<day, exports, inbox, processed, blocked, charges, ledger>>

\* The outcome is reconciled (which changes nothing here) and recorded; a
\* failing write makes it a refusal.
RecordLedger(r) ==
  /\ At(r, "record")
  /\ \/ /\ ledger' = ledger \cup {Charge(r)}
        /\ Goto(r, "archive")
     \/ Faults /\ Goto(r, "next") /\ UNCHANGED ledger
  /\ UNCHANGED <<day, exports, inbox, processed, blocked, charges, orders>>

\* path.rename; another run may have moved the file.
Archive(r) ==
  /\ At(r, "archive")
  /\ IF Cur(r) \in inbox
       THEN /\ inbox' = inbox \ {Cur(r)}
            /\ processed' = processed \cup {Cur(r)}
       ELSE UNCHANGED <<inbox, processed>>
  /\ Goto(r, "next")
  /\ UNCHANGED <<day, exports, blocked, budget>>

RunnerDies(r) ==
  /\ Faults /\ ~At(r, "idle")
  /\ run' = [run EXCEPT ![r] = Stopped]
  /\ UNCHANGED <<day, exports, inbox, processed, blocked, budget>>

-----------------------------------------------------------------------------
(* The operator and the clock.                                             *)

SetKillSwitch ==
  /\ blocked' = ~blocked
  /\ UNCHANGED <<day, exports, inbox, processed, budget, run>>

Midnight ==
  /\ day < LastDay
  /\ day' = day + 1
  /\ UNCHANGED <<exports, inbox, processed, blocked, budget, run>>

Init == /\ day = 0 /\ created = [p \in Proposals |-> None]
        /\ authority = {} /\ inbox = {} /\ processed = {}
        /\ blocked \in BOOLEAN
        /\ charges = {} /\ ledger = {}
        /\ orders = [c \in Days \X Proposals |-> 0]
        /\ run = [r \in Runners |-> Stopped]

RunStep(r) ==
  \/ StartRun(r) \/ ProvePaper(r) \/ NextEnvelope(r) \/ FinishRun(r)
  \/ DailyUsage(r) \/ ChargeBudget(r) \/ Preview(r) \/ RecheckKillSwitch(r)
  \/ Submit(r) \/ Place(r) \/ RecordLedger(r) \/ Archive(r) \/ RunnerDies(r)

Next ==
  \/ \E r \in Runners : RunStep(r)
  \/ \E p \in Proposals :
       PersistProposal(p) \/ PublishAuthority(p) \/ PublishEnvelope(p)
  \/ SetKillSwitch \/ Midnight

Spec == Init /\ [][Next]_vars

-----------------------------------------------------------------------------
(* Properties.                                                             *)

\* Every variable keeps its type.
TypeOK == /\ day \in Days
          /\ created \in [Proposals -> Days \cup {None}]
          /\ authority \subseteq Proposals /\ inbox \subseteq Proposals
          /\ processed \subseteq Proposals /\ blocked \in BOOLEAN
          /\ charges \subseteq Days \X Proposals
          /\ ledger \subseteq Days \X Proposals
          /\ orders \in [Days \X Proposals -> Nat]
          /\ run \in [Runners -> Run]

\* Every order was paid for: a charge of that run's day for that proposal buys
\* at most one order, whatever runs overlap or die, and however often the
\* envelope comes back to the inbox.
OneOrderPerCharge ==
  \A c \in Days \X Proposals :
    orders[c] > 0 => orders[c] = 1 /\ c \in charges

\* An envelope leaves the inbox only after an execution was recorded for it
\* under a charge: none disappears untried.
ProcessedWasTried ==
  \A p \in processed : \E d \in Days : <<d, p>> \in ledger \cap charges

\* No order without its charge, no envelope gone without its execution.
EnvelopesAreAccounted == OneOrderPerCharge /\ ProcessedWasTried

\* The day's charges stay within the policy's order count and notional.
BudgetHolds ==
  \A d \in Days : /\ Cardinality(Charged(d)) <= MaxCount
                  /\ UsedNotional(d) <= MaxNotional

\* budgets.py: a re-run of the same proposal charges the budget exactly once;
\* test_autonomy_paper.py: a re-run must not place a second order.
OneOrderPerProposal ==
  \A p \in Proposals, d, e \in Days :
    orders[<<d, p>>] > 0 /\ orders[<<e, p>>] > 0 => d = e
=============================================================================
