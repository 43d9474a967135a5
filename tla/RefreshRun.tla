------------------------------ MODULE RefreshRun ------------------------------
(***************************************************************************)
(* The daily refresh of one market session, ops/daily_refresh.py, and its  *)
(* durable record, ops/refresh_runs.py. The timer, the recovery timer and  *)
(* an operator may start invocations for the same session, so they         *)
(* overlap; the record belongs to the one that opened it last.             *)
(*                                                                         *)
(* An invocation first fetches the active symbols, then plans the rotation *)
(* within the symbol ceiling and the request budget, then fetches what it  *)
(* planned, and closes its record. A fetch is one action up to the         *)
(* ingestion of its bars, and one that records the attempt in the ledger.  *)
(* The plan's reads, between which it writes nothing, are one action.      *)
(*                                                                         *)
(* Symbols are numbered worst first: rotation_candidates ranks by sessions *)
(* behind, then by ticker.                                                 *)
(***************************************************************************)
EXTENDS Integers, FiniteSets, FiniteSetsExt

CONSTANTS
  Symbols,     \* the eligible universe, in the order of the rotation
  Active,      \* symbols with recent production screens
  Invocations, \* invocations of run_daily_refresh for this session
  Budget,      \* rotation_budget
  Ceiling,     \* distinct symbols the provider allows per rolling month
  None

ASSUME SymbolAssumption ==
  Symbols \subseteq Nat /\ IsFiniteSet(Symbols) /\ Active \subseteq Symbols
ASSUME LimitAssumption == Budget \in Nat /\ Ceiling \in Nat
ASSUME NoneAssumption == None \notin Nat /\ None \notin Invocations

VARIABLES
  row,      \* the refresh_run row with its refresh_symbol rows
  bar,      \* symbol |-> its last bar: "none", "old" (past the contract),
            \*   "lag" (within the rolling window) or "now" (the session)
  ledger,   \* symbol |-> its newest row in backfill_attempt
  failing,  \* symbols whose failure streak is above 0
  retired,  \* symbols in retired_securities.json
  reserved, \* symbols in the rolling-month reservation set
  inv       \* invocation |-> program point and locals

market == <<bar, ledger, failing, retired, reserved>>
refreshVars == <<row, market, inv>>

Bars == {"none", "old", "lag", "now"}
Attempts == {"none", "SUCCESS", "ERROR", "EMPTY", "QUOTA"}

Deferred == {"BUDGET_EXHAUSTED", "COOLING_SLICE", "CAPACITY_DEFERRED"}

Outcomes == {"none", "REFRESHED", "FAILED"} \cup Deferred
Closed == {"COMPLETED", "QUOTA_EXHAUSTED"}

NoOutcomes == [s \in Symbols |-> "none"]

\* "active" and "rotate" are the heads of the two loops, "record" is inside
\* them with a fetch to record, "close" after a loop the quota ended.
Points == {"idle", "active", "record", "rotate", "close", "done"}

Invocation == [pc : Points, phase : {"active", "rotate"},
               todo : SUBSET Symbols, cur : Symbols \cup {None},
               result : Attempts, outcomes : [Symbols -> Outcomes],
               first : SUBSET Symbols, second : SUBSET Symbols,
               status : Closed]

\* first and second are the symbols fetched in the active phase and in the
\* rotation; the code keeps active_attempted and the count rotated.
Idle == [pc |-> "idle", phase |-> "active", todo |-> {}, cur |-> None,
         result |-> "none", outcomes |-> NoOutcomes, first |-> {},
         second |-> {}, status |-> "COMPLETED"]

-----------------------------------------------------------------------------
(* Planning: symbol capacity, then the split of the rotation budget.       *)

Least(a, b) == IF a <= b THEN a ELSE b

\* The first n elements of S.
FirstOf(S, n) == {s \in S : Cardinality({t \in S : t < s}) < n}

\* rotation_candidates. A symbol without any bar has no ingested evidence
\* (symbol_has_evidence reads the same rows) and is left out.
Candidates == {s \in Symbols \ retired : bar[s] = "old"}

\* plan_symbol_capacity: what is reserved already costs nothing, the rest of
\* the ceiling goes to active symbols first.
Room == IF Cardinality(reserved) < Ceiling THEN Ceiling - Cardinality(reserved)
        ELSE 0
Admitted ==
  LET free == FirstOf(Active \ reserved, Room)
  IN reserved \cup free
       \cup FirstOf(Candidates \ (Active \cup reserved), Room - Cardinality(free))

\* allocate_rotation's reserve for cooling symbols: a quarter of the budget,
\* never the last request that a ready symbol could use.
Allowance == IF Budget = 0 THEN 0 ELSE Max({1, Budget \div 4})

\* The requests kept for retries.
Share(ready, cooling) ==
  IF cooling = {} THEN 0
  ELSE IF ready = {} THEN Allowance
  ELSE Least(Allowance, Least(Cardinality(cooling), Max({0, Budget - 1})))

\* The ways to split the demand: ready symbols in order up to their part,
\* cooling ones within the share, least recently attempted first (left open).
Allocations(demand) ==
  LET cooling == demand \cap failing
      ready == demand \ failing
      share == Share(ready, cooling)
      head == FirstOf(ready, Budget - share)
      retries == Least(Least(share, Cardinality(cooling)),
                       Budget - Cardinality(head))
  IN {head \cup c : c \in kSubset(retries, cooling)}

\* The outcomes known before the rotation: what the active phase did stands,
\* the rest of the candidates are fetched or deferred for a reason.
Planned(i, chosen) ==
  [s \in Symbols |->
     IF s \notin Candidates \/ inv[i].outcomes[s] # "none"
       THEN inv[i].outcomes[s]
     ELSE IF s \notin Admitted THEN "CAPACITY_DEFERRED"
     ELSE IF s \in chosen THEN "none"
     ELSE IF s \in failing THEN "COOLING_SLICE" ELSE "BUDGET_EXHAUSTED"]

-----------------------------------------------------------------------------
(* One invocation.                                                         *)

At(i, p) == inv[i].pc = p

\* open_run: the session is claimed and the earlier outcomes are deleted, in
\* one transaction, before the first request.
OpenRun(i) ==
  /\ At(i, "idle")
  /\ row' = [owner |-> i, status |-> "RUNNING", outcomes |-> NoOutcomes]
  /\ inv' = [inv EXCEPT ![i] = [Idle EXCEPT !.pc = "active", !.todo = Active]]
  /\ UNCHANGED market

\* What a fetch may do to the last bar: nothing, or advance it.
Advanced(b) == IF b = "now" THEN {"now"}
               ELSE IF b = "lag" THEN {"lag", "now"} ELSE {"old", "lag", "now"}

\* reserve_bootstrap_symbol, the request and the ingestion of the bars. At the
\* ceiling a new symbol is refused, which is an error of this symbol; a spent
\* quota ends the run. (fetch_one now waits for the quota's window rather than
\* let the refusal out; its callers still handle one, and the model lets them.)
Fetched(s, result) ==
  /\ \/ /\ s \notin reserved /\ Room = 0
        /\ result = "ERROR"
        /\ UNCHANGED <<bar, reserved>>
     \/ /\ s \in reserved \/ Room > 0
        /\ reserved' = reserved \cup {s}
        /\ result \in Attempts \ {"none"}
        /\ IF result = "SUCCESS"
             THEN \E b \in Advanced(bar[s]) : bar' = [bar EXCEPT ![s] = b]
             ELSE UNCHANGED bar

\* What a phase has left to fetch: the active one skips a symbol that has the
\* session's bar. (Its limit of 60 requests is above any active set here.)
Left(i) == IF At(i, "active") THEN {s \in inv[i].todo : bar[s] # "now"}
           ELSE inv[i].todo

\* The invocation has fetched s and is about to record it.
ToRecord(i, s, result) ==
  [inv EXCEPT ![i].pc = "record", ![i].phase = inv[i].pc, ![i].cur = s,
              ![i].result = result, ![i].todo = {t \in @ : t > s},
              ![i].first = IF At(i, "active") THEN @ \cup {s} ELSE @,
              ![i].second = IF At(i, "rotate") THEN @ \cup {s} ELSE @]

Fetch(i) ==
  /\ inv[i].pc \in {"active", "rotate"}
  /\ \E s \in Left(i), result \in Attempts :
       /\ \A t \in Left(i) : s <= t
       /\ Fetched(s, result)
       /\ inv' = ToRecord(i, s, result)
  /\ UNCHANGED <<row, ledger, failing, retired>>

\* A row of backfill_attempt, and with it the streak: a success ends it, a
\* refusal for quota is transparent.
Logged(s, result) ==
  /\ ledger' = [ledger EXCEPT ![s] = result]
  /\ failing' = IF result = "SUCCESS" THEN failing \ {s}
                ELSE IF result = "QUOTA" THEN failing ELSE failing \cup {s}

\* The end of _refresh_one: an empty answer may retire a symbol with old bars;
\* an exhausted quota leaves the loop without an outcome for the symbol.
Record(i) ==
  /\ At(i, "record")
  /\ LET s == inv[i].cur
         result == inv[i].result IN
       /\ Logged(s, result)
       /\ \/ UNCHANGED retired
          \/ result = "EMPTY" /\ bar[s] = "old" /\ retired' = retired \cup {s}
       /\ IF result = "QUOTA"
            THEN inv' = [inv EXCEPT ![i].pc = "close", ![i].cur = None,
                                    ![i].result = "none",
                                    ![i].status = "QUOTA_EXHAUSTED"]
            ELSE inv' = [inv EXCEPT
                   ![i].pc = inv[i].phase, ![i].cur = None, ![i].result = "none",
                   ![i].outcomes = [@ EXCEPT ![s] =
                     IF result = "SUCCESS" THEN "REFRESHED" ELSE "FAILED"]]
  /\ UNCHANGED <<row, bar, reserved>>

\* Mutant: a symbol the ceiling refused holds a place in the budget.
PlanForAll(i) ==
  /\ At(i, "active") /\ Left(i) = {}
  /\ \E chosen \in Allocations(Candidates \ inv[i].first) :
       inv' = [inv EXCEPT ![i].pc = "rotate", ![i].todo = chosen \cap Admitted,
                          ![i].outcomes = Planned(i, chosen)]
  /\ UNCHANGED <<row, market>>

\* The rotation's demand leaves out what the active phase fetched.
Plan(i) ==
  /\ At(i, "active") /\ Left(i) = {}
  /\ \E chosen \in Allocations((Candidates \cap Admitted) \ inv[i].first) :
       inv' = [inv EXCEPT ![i].pc = "rotate", ![i].todo = chosen,
                          ![i].outcomes = Planned(i, chosen)]
  /\ UNCHANGED <<row, market>>

\* What an invocation knew is gone with it.
Gone(i) == [inv EXCEPT ![i] = [Idle EXCEPT !.pc = "done"]]

\* Both loops are done, or the quota ended one of them.
Ready(i) == \/ At(i, "close")
            \/ At(i, "rotate") /\ inv[i].todo = {}

\* Mutant: finish() does not compare the token.
FinishAnyRun(i) ==
  /\ Ready(i)
  /\ row' = [row EXCEPT !.status = inv[i].status, !.outcomes = inv[i].outcomes]
  /\ inv' = [inv EXCEPT ![i].pc = "done"]
  /\ UNCHANGED market

\* finish: only the owner writes, status and outcomes together.
FinishRun(i) ==
  /\ Ready(i)
  /\ IF row.owner = i
       THEN row' = [row EXCEPT !.status = inv[i].status,
                               !.outcomes = inv[i].outcomes]
       ELSE UNCHANGED row
  /\ inv' = IF row.owner = i THEN [inv EXCEPT ![i].pc = "done"] ELSE Gone(i)
  /\ UNCHANGED market

\* A fault or a kill leaves the record open.
InvocationDies(i) ==
  /\ inv[i].pc \notin {"idle", "done"}
  /\ inv' = Gone(i)
  /\ UNCHANGED <<row, market>>

RefreshStep(i) ==
  \/ OpenRun(i) \/ Fetch(i) \/ Record(i) \/ Plan(i) \/ FinishRun(i)
  \/ InvocationDies(i)

RefreshInit ==
  /\ row = [owner |-> None, status |-> "RUNNING", outcomes |-> NoOutcomes]
  /\ bar \in [Symbols -> {"none", "old", "lag"}]
  /\ ledger \in [Symbols -> {"none", "ERROR"}]
  /\ failing = {s \in Symbols : ledger[s] = "ERROR"}
  /\ retired = {}
  /\ reserved \in {R \in SUBSET Symbols : Cardinality(R) <= Ceiling}
  /\ inv = [i \in Invocations |-> Idle]

RefreshSpec == RefreshInit /\ [][\E i \in Invocations : RefreshStep(i)]_refreshVars

-----------------------------------------------------------------------------
(* Properties.                                                             *)

\* Every variable keeps its type.
RefreshTypeOK ==
  /\ row \in [owner : Invocations \cup {None},
              status : {"RUNNING"} \cup Closed, outcomes : [Symbols -> Outcomes]]
  /\ bar \in [Symbols -> Bars]
  /\ ledger \in [Symbols -> Attempts]
  /\ failing \subseteq Symbols /\ retired \subseteq Symbols
  /\ reserved \subseteq Symbols
  /\ inv \in [Invocations -> Invocation]

\* A closed record is the report of the invocation that opened it last: its
\* own status and outcomes, never those of one it superseded.
ReportIsNewest ==
  row.status \in Closed =>
    /\ row.owner # None /\ At(row.owner, "done")
    /\ row.status = inv[row.owner].status
    /\ row.outcomes = inv[row.owner].outcomes

\* A completed run never reports as deferred a symbol it fetched: a failure
\* must not be taken for a decision.
DeferredWasNotTried ==
  row.status = "COMPLETED" =>
    \A s \in Symbols : row.outcomes[s] \in Deferred =>
      s \notin inv[row.owner].first \cup inv[row.owner].second

\* A completed run accounts for every symbol with bars past the contract.
CompletedCoversStale ==
  row.status = "COMPLETED" =>
    \A s \in Symbols \ retired : bar[s] = "old" => row.outcomes[s] # "none"

\* The rotation stays within its budget, and a symbol is deferred for the
\* budget only when the whole of it was spent.
BudgetDeferralIsEarned ==
  /\ \A i \in Invocations : Cardinality(inv[i].second) <= Budget
  /\ row.status = "COMPLETED" =>
       \A s \in Symbols : row.outcomes[s] = "BUDGET_EXHAUSTED" =>
         Cardinality(inv[row.owner].second) = Budget

\* All three: nothing stale is missing from a completed run, nothing in it is
\* put off for a budget that was not used up, and nothing that was tried.
StaleIsAccounted ==
  CompletedCoversStale /\ BudgetDeferralIsEarned /\ DeferredWasNotTried
=============================================================================
