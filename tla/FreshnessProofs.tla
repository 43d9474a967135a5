--------------------------- MODULE FreshnessProofs ----------------------------
(***************************************************************************)
(* Proofs about RefreshRun.tla and Freshness.tla, for any universe, any    *)
(* number of overlapping refreshes, any budget, ceiling and retry bounds,  *)
(* with refreshes and passes killed anywhere.                              *)
(*                                                                         *)
(* The refresh. A record that was closed agrees with what its owner knew,  *)
(* because only the owner closes it and is done by then. What an           *)
(* invocation knows keeps its own account: it defers nothing before the    *)
(* plan, the plan defers only what the active phase left alone, and the    *)
(* rotation goes only through what the plan did not defer (AccountOK).     *)
(* That a completed run misses nothing stale and leaves no request unused  *)
(* needs more: what is accounted for, and what the rotation has spent or   *)
(* will spend, survive the steps of the others (StaleInv).                 *)
(*                                                                         *)
(* The watch. Every property is one of a symbol, so the invariant is too:  *)
(* SymbolOK says of one symbol what the audit, the marks and the queue of  *)
(* the pass know about it, and CurIsOwed the same of the symbol under      *)
(* repair. Two facts carry it: bars never go back, so a repaired symbol is *)
(* clear in every later audit and is not reopened; and a symbol is pending *)
(* for as long as the pass works on it, so the request not yet counted is  *)
(* the one in progress.                                                    *)
(***************************************************************************)
EXTENDS Freshness, Sums

-----------------------------------------------------------------------------
(* The refresh.                                                            *)

InActive(q) == q.pc = "active" \/ (q.pc = "record" /\ q.phase = "active")

\* What an invocation's locals say about the symbols it fetched.
AccountOK(q) ==
  /\ \A s \in Symbols : q.outcomes[s] \in Deferred =>
       s \notin q.first /\ s \notin q.second /\ s \notin q.todo /\ s # q.cur
  /\ InActive(q) =>
       /\ q.second = {}
       /\ \A s \in Symbols : q.outcomes[s] \notin Deferred
       /\ \A s \in q.first : q.outcomes[s] # "none" \/ s = q.cur
  /\ q.pc = "record" <=> q.cur # None

\* The inductive invariant.
Inv == /\ RefreshTypeOK
       /\ \A i \in Invocations : AccountOK(inv[i])
       /\ ReportIsNewest

-----------------------------------------------------------------------------
(* The parts of a step.                                                    *)

LEMMA NoneFresh == None \notin Symbols /\ None \notin Invocations
BY SymbolAssumption, NoneAssumption

LEMMA IdleFits == Idle \in Invocation /\ AccountOK(Idle) /\ Idle.pc = "idle"
<1>1. NoOutcomes \in [Symbols -> Outcomes]
        /\ \A s \in Symbols : NoOutcomes[s] \notin Deferred
  BY DEF NoOutcomes, Outcomes, Deferred
<1>2. Idle \in Invocation /\ Idle.cur = None /\ Idle.outcomes = NoOutcomes
        /\ Idle.first = {} /\ Idle.second = {} /\ Idle.pc = "idle"
  BY <1>1 DEF Idle, Invocation, Points, Attempts, Closed
<1>3. AccountOK(Idle)
  BY <1>1, <1>2 DEF AccountOK, InActive
<1> QED BY <1>2, <1>3

\* A step that changes the locals of one invocation, and not a closed record.
LEMMA OneMoves ==
  ASSUME Inv, NEW i \in Invocations, NEW q \in Invocation, AccountOK(q),
         inv[i].pc # "done", inv' = [inv EXCEPT ![i] = q], UNCHANGED row
  PROVE  /\ inv' \in [Invocations -> Invocation]
         /\ \A j \in Invocations : AccountOK(inv'[j])
         /\ ReportIsNewest'
<1>1. inv \in [Invocations -> Invocation]
  BY DEF Inv, RefreshTypeOK
<1>2. inv' \in [Invocations -> Invocation]
  BY <1>1
<1>3. \A j \in Invocations : inv'[j] = IF j = i THEN q ELSE inv[j]
  BY <1>1
<1>4. \A j \in Invocations : AccountOK(inv'[j])
  BY <1>3 DEF Inv
<1>5. ReportIsNewest'
  <2> SUFFICES ASSUME row.status \in Closed
               PROVE /\ row.owner # None /\ inv'[row.owner].pc = "done"
                     /\ row.status = inv'[row.owner].status
                     /\ row.outcomes = inv'[row.owner].outcomes
    BY DEF ReportIsNewest, At
  <2>1. /\ row.owner # None /\ inv[row.owner].pc = "done"
        /\ row.status = inv[row.owner].status
        /\ row.outcomes = inv[row.owner].outcomes
    BY DEF Inv, ReportIsNewest, At
  <2>2. row.owner \in Invocations
    BY <2>1 DEF Inv, RefreshTypeOK
  <2> QED BY <1>3, <2>1, <2>2
<1> QED BY <1>2, <1>4, <1>5

LEMMA FetchedType ==
  ASSUME Inv, NEW s \in Symbols, NEW result \in Attempts, Fetched(s, result)
  PROVE  bar' \in [Symbols -> Bars] /\ reserved' \subseteq Symbols
<1>1. bar \in [Symbols -> Bars] /\ reserved \subseteq Symbols
  BY DEF Inv, RefreshTypeOK
<1>2. \A b \in Bars : Advanced(b) \subseteq Bars
  BY DEF Advanced, Bars
<1>3. bar[s] \in Bars
  BY <1>1
<1>4. bar' \in [Symbols -> Bars]
  <2>1. CASE UNCHANGED bar
    BY <1>1, <2>1
  <2>2. CASE \E b \in Advanced(bar[s]) : bar' = [bar EXCEPT ![s] = b]
    BY <1>1, <1>2, <1>3, <2>2
  <2> QED BY <2>1, <2>2 DEF Fetched
<1> QED BY <1>1, <1>4 DEF Fetched

-----------------------------------------------------------------------------
(* The actions.                                                            *)

LEMMA OpenRunStep == ASSUME Inv, NEW i \in Invocations, OpenRun(i) PROVE Inv'
<1>1. PICK idle : idle = Idle
  OBVIOUS
<1>2. PICK q : q = [idle EXCEPT !.pc = "active", !.todo = Active]
  OBVIOUS
<1>a. idle \in Invocation /\ AccountOK(idle) /\ idle.first = {}
        /\ idle.second = {} /\ idle.outcomes = NoOutcomes
  BY <1>1, IdleFits DEF Idle
<1>b. q \in Invocation /\ AccountOK(q)
  <2>1. q \in Invocation
    BY <1>2, <1>a, SymbolAssumption DEF Invocation, Points
  <2>2. /\ q.pc = "active" /\ q.cur = idle.cur /\ q.outcomes = NoOutcomes
        /\ q.first = {} /\ q.second = {}
    BY <1>2, <1>a DEF Invocation
  <2>3. \A s \in Symbols : NoOutcomes[s] \notin Deferred
    BY DEF NoOutcomes, Deferred
  <2>4. idle.pc = "idle" /\ idle.cur = None
    BY <1>1 DEF Idle
  <2> QED BY <2>1, <2>2, <2>3, <2>4 DEF AccountOK, InActive
<1>3. inv' = [inv EXCEPT ![i] = q]
  BY <1>1, <1>2 DEF OpenRun
<1>4. row' = [owner |-> i, status |-> "RUNNING", outcomes |-> NoOutcomes]
  BY DEF OpenRun
<1>5. NoOutcomes \in [Symbols -> Outcomes]
  BY DEF NoOutcomes, Outcomes
<1>6. ReportIsNewest'
  BY <1>4 DEF ReportIsNewest, Closed
<1>7. RefreshTypeOK'
  BY <1>b, <1>3, <1>4, <1>5 DEF Inv, RefreshTypeOK, OpenRun, market
<1>8. \A j \in Invocations : AccountOK(inv[j])'
  BY <1>b, <1>3 DEF Inv, RefreshTypeOK
<1> QED BY <1>6, <1>7, <1>8 DEF Inv

\* What a fetch of s does to the locals p of its invocation.
FetchMoves(p, s, q) ==
  /\ s \in p.todo /\ s \in Symbols
  /\ q.pc = "record" /\ q.phase = p.pc /\ q.cur = s
  /\ q.todo = {t \in p.todo : t > s} /\ q.outcomes = p.outcomes
  /\ q.first = IF p.pc = "active" THEN p.first \cup {s} ELSE p.first
  /\ q.second = IF p.pc = "rotate" THEN p.second \cup {s} ELSE p.second

LEMMA FetchEffect ==
  ASSUME Inv, NEW i \in Invocations, Fetch(i)
  PROVE  \E s \in Left(i), result \in Attempts, q \in Invocation :
           /\ FetchMoves(inv[i], s, q) /\ \A t \in Left(i) : s <= t
           /\ Fetched(s, result) /\ inv' = [inv EXCEPT ![i] = q]
<1>1. inv[i] \in Invocation /\ AccountOK(inv[i]) /\ inv[i].pc \in {"active", "rotate"}
  BY DEF Inv, RefreshTypeOK, Fetch
<1>2. PICK s \in Left(i), result \in Attempts :
        /\ Fetched(s, result) /\ inv' = ToRecord(i, s, result)
        /\ \A t \in Left(i) : s <= t
  BY DEF Fetch
<1>3. s \in inv[i].todo /\ s \in Symbols
  BY <1>1, <1>2 DEF Left, Invocation
<1>4. PICK p \in Invocation : p = inv[i]
  BY <1>1
<1>5. PICK q : q = [p EXCEPT
             !.pc = "record", !.phase = p.pc, !.cur = s,
             !.result = result, !.todo = {t \in @ : t > s},
             !.first = IF p.pc = "active" THEN @ \cup {s} ELSE @,
             !.second = IF p.pc = "rotate" THEN @ \cup {s} ELSE @]
  OBVIOUS
<1>6. q \in Invocation
  <2>1. p.pc \in {"active", "rotate"} /\ p.todo \subseteq Symbols
          /\ p.first \subseteq Symbols /\ p.second \subseteq Symbols
    BY <1>1, <1>4 DEF Invocation
  <2>2. {t \in p.todo : t > s} \subseteq Symbols
          /\ p.first \cup {s} \subseteq Symbols
          /\ p.second \cup {s} \subseteq Symbols
    BY <1>3, <2>1
  <2>3. PICK todo, first, second \in SUBSET Symbols :
          /\ todo = {t \in p.todo : t > s}
          /\ first = IF p.pc = "active" THEN p.first \cup {s} ELSE p.first
          /\ second = IF p.pc = "rotate" THEN p.second \cup {s} ELSE p.second
    BY <2>1, <2>2
  <2>4. q = [p EXCEPT !.pc = "record", !.phase = p.pc, !.cur = s,
                      !.result = result, !.todo = todo, !.first = first,
                      !.second = second]
    BY <1>5, <2>3
  <2>5. "record" \in Points
    BY DEF Points
  <2> QED BY <1>3, <2>1, <2>4, <2>5 DEF Invocation
<1>7. FetchMoves(p, s, q)
  BY <1>3, <1>4, <1>5 DEF Invocation, FetchMoves
<1>8. inv' = [inv EXCEPT ![i] = q]
  BY <1>1, <1>2, <1>4, <1>5 DEF ToRecord, At
<1>9. FetchMoves(inv[i], s, q)
  BY <1>4, <1>7
<1> QED BY <1>2, <1>6, <1>8, <1>9

LEMMA FetchStep == ASSUME Inv, NEW i \in Invocations, Fetch(i) PROVE Inv'
<1>1. inv[i] \in Invocation /\ AccountOK(inv[i]) /\ inv[i].pc \in {"active", "rotate"}
  BY DEF Inv, RefreshTypeOK, Fetch
<1>2. PICK p \in Invocation : p = inv[i]
  BY <1>1
<1>3. PICK s \in Left(i), result \in Attempts, q \in Invocation :
        FetchMoves(p, s, q) /\ Fetched(s, result) /\ inv' = [inv EXCEPT ![i] = q]
  BY <1>2, FetchEffect
<1>4. AccountOK(q)
  <2>1. s # None
    BY <1>3, NoneFresh DEF FetchMoves
  <2>2. \A t \in Symbols : q.outcomes[t] \in Deferred =>
          t \notin q.first /\ t \notin q.second /\ t \notin q.todo /\ t # q.cur
    BY <1>1, <1>3, <1>2, <1>3 DEF AccountOK, FetchMoves
  <2>3. InActive(q) => p.pc = "active"
    BY <1>3 DEF InActive, FetchMoves
  <2>4. InActive(q) => /\ q.second = {}
                       /\ \A t \in Symbols : q.outcomes[t] \notin Deferred
    BY <1>1, <1>2, <1>3, <2>3 DEF AccountOK, InActive, FetchMoves
  <2>5. InActive(q) => \A t \in q.first : q.outcomes[t] # "none" \/ t = q.cur
    <3> SUFFICES ASSUME p.pc = "active", NEW t \in q.first, t # s
                 PROVE  p.outcomes[t] # "none"
      BY <1>3, <2>3 DEF FetchMoves
    <3>1. t \in p.first /\ t \in Symbols
      BY <1>3 DEF Invocation, FetchMoves
    <3>2. p.cur = None
      BY <1>1, <1>2 DEF AccountOK, FetchMoves
    <3> QED BY <1>1, <1>2, <3>1, <3>2, NoneFresh DEF AccountOK, InActive, FetchMoves
  <2> QED BY <1>3, <2>1, <2>2, <2>4, <2>5 DEF AccountOK, FetchMoves
<1>5. inv' \in [Invocations -> Invocation] /\ ReportIsNewest'
        /\ \A j \in Invocations : AccountOK(inv'[j])
  BY <1>1, <1>3, <1>4, OneMoves DEF Fetch
<1>6. bar' \in [Symbols -> Bars] /\ reserved' \subseteq Symbols
  BY <1>3, FetchedType DEF FetchMoves
<1>7. RefreshTypeOK'
  BY <1>5, <1>6 DEF Inv, RefreshTypeOK, Fetch
<1> QED BY <1>5, <1>7 DEF Inv

LEMMA RecordFrame ==
  ASSUME Inv, NEW i \in Invocations, Record(i), NEW q \in Invocation,
         AccountOK(q), inv' = [inv EXCEPT ![i] = q]
  PROVE  Inv'
<1>1. inv[i] \in Invocation /\ inv[i].pc = "record" /\ AccountOK(inv[i])
  BY DEF Inv, RefreshTypeOK, Record, At
<1>2. inv[i].cur \in Symbols /\ inv[i].result \in Attempts
  BY <1>1 DEF AccountOK, Invocation
<1>3. ledger' \in [Symbols -> Attempts] /\ failing' \subseteq Symbols
        /\ retired' \subseteq Symbols
  BY <1>2 DEF Record, Logged, Inv, RefreshTypeOK
<1>4. inv' \in [Invocations -> Invocation] /\ ReportIsNewest'
        /\ \A j \in Invocations : AccountOK(inv'[j])
  BY <1>1, OneMoves DEF Record
<1>5. RefreshTypeOK'
  BY <1>3, <1>4 DEF Inv, RefreshTypeOK, Record
<1> QED BY <1>4, <1>5 DEF Inv

\* What the end of a fetch does to the locals p of its invocation.
RecordMoves(p, q) ==
  /\ q.cur = None /\ q.first = p.first /\ q.second = p.second /\ q.todo = p.todo
  /\ \/ q.pc = "close" /\ q.outcomes = p.outcomes /\ q.status = "QUOTA_EXHAUSTED"
     \/ /\ q.pc = p.phase
        /\ \E o \in {"REFRESHED", "FAILED"} : q.outcomes = [p.outcomes EXCEPT ![p.cur] = o]

LEMMA RecordEffect ==
  ASSUME Inv, NEW i \in Invocations, Record(i)
  PROVE  \E q \in Invocation : RecordMoves(inv[i], q) /\ inv' = [inv EXCEPT ![i] = q]
<1>1. inv[i] \in Invocation /\ AccountOK(inv[i]) /\ inv[i].pc = "record"
  BY DEF Inv, RefreshTypeOK, Record, At
<1>2. PICK p \in Invocation : p = inv[i]
  BY <1>1
<1>3. p.cur \in Symbols /\ p.result \in Attempts
  BY <1>1, <1>2 DEF AccountOK, Invocation
<1>4. CASE p.result = "QUOTA"
  <2>1. PICK q : q = [p EXCEPT !.pc = "close", !.cur = None, !.result = "none",
                               !.status = "QUOTA_EXHAUSTED"]
    OBVIOUS
  <2>2. q \in Invocation
    BY <2>1 DEF Invocation, Points, Closed, Attempts
  <2>3. /\ q.pc = "close" /\ q.cur = None /\ q.outcomes = p.outcomes
        /\ q.first = p.first /\ q.second = p.second /\ q.todo = p.todo
        /\ q.status = "QUOTA_EXHAUSTED"
    BY <2>1 DEF Invocation
  <2>4. inv' = [inv EXCEPT ![i] = q]
    BY <1>2, <1>4, <2>1 DEF Record
  <2> QED BY <1>2, <2>2, <2>3, <2>4 DEF RecordMoves
<1>5. CASE p.result # "QUOTA"
  <2>1. PICK o \in {"REFRESHED", "FAILED"} : o = IF p.result = "SUCCESS" THEN "REFRESHED" ELSE "FAILED"
    OBVIOUS
  <2>2. o \in Outcomes
    BY <2>1 DEF Outcomes
  <2>3. PICK q : q = [p EXCEPT !.pc = p.phase, !.cur = None, !.result = "none",
                               !.outcomes = [@ EXCEPT ![p.cur] = o]]
    OBVIOUS
  <2>4. q \in Invocation
    BY <1>3, <2>2, <2>3 DEF Invocation, Points, Attempts
  <2>5. /\ q.pc = p.phase /\ q.cur = None
        /\ q.outcomes = [p.outcomes EXCEPT ![p.cur] = o]
        /\ q.first = p.first /\ q.second = p.second /\ q.todo = p.todo
    BY <2>3 DEF Invocation
  <2>6. inv' = [inv EXCEPT ![i] = q]
    <3>1. inv' = [inv EXCEPT
                    ![i].pc = p.phase, ![i].cur = None, ![i].result = "none",
                    ![i].outcomes = [@ EXCEPT ![p.cur] = o]]
      BY <1>2, <1>5, <2>1 DEF Record
    <3>2. inv \in [Invocations -> Invocation]
      BY DEF Inv, RefreshTypeOK
    <3> QED BY <1>2, <2>3, <3>1, <3>2
  <2> QED BY <1>2, <2>1, <2>4, <2>5, <2>6 DEF RecordMoves
<1> QED BY <1>4, <1>5

LEMMA RecordStep == ASSUME Inv, NEW i \in Invocations, Record(i) PROVE Inv'
<1>1. inv[i] \in Invocation /\ AccountOK(inv[i]) /\ inv[i].pc = "record"
  BY DEF Inv, RefreshTypeOK, Record, At
<1>2. PICK p \in Invocation : p = inv[i]
  BY <1>1
<1>3. p.cur \in Symbols
  BY <1>1, <1>2 DEF AccountOK, Invocation
<1>4. PICK q \in Invocation : RecordMoves(p, q) /\ inv' = [inv EXCEPT ![i] = q]
  BY <1>2, RecordEffect
<1>5. CASE q.pc = "close" /\ q.outcomes = p.outcomes
  <2>1. AccountOK(q)
    BY <1>1, <1>2, <1>4, <1>5, NoneFresh DEF AccountOK, InActive, RecordMoves
  <2> QED BY <1>4, <2>1, RecordFrame
<1>6. ASSUME NEW o \in {"REFRESHED", "FAILED"}, q.pc = p.phase,
             q.outcomes = [p.outcomes EXCEPT ![p.cur] = o]
      PROVE  Inv'
  <2>1. o \notin Deferred /\ o # "none"
    BY DEF Deferred
  <2>2. p.phase \in {"active", "rotate"} /\ p.outcomes \in [Symbols -> Outcomes]
          /\ p.first \subseteq Symbols
    BY DEF Invocation
  <2>3. \A s \in Symbols : q.outcomes[s] = IF s = p.cur THEN o ELSE p.outcomes[s]
    BY <1>3, <1>6, <2>2
  <2>4. \A s \in Symbols : q.outcomes[s] \in Deferred =>
          s \notin q.first /\ s \notin q.second /\ s \notin q.todo /\ s # q.cur
    BY <1>1, <1>2, <1>4, <2>1, <2>3, NoneFresh DEF AccountOK, RecordMoves
  <2>5. InActive(q) => /\ q.second = {}
                       /\ \A s \in Symbols : q.outcomes[s] \notin Deferred
                       /\ \A s \in q.first : q.outcomes[s] # "none" \/ s = q.cur
    BY <1>1, <1>2, <1>4, <1>6, <2>1, <2>2, <2>3 DEF AccountOK, InActive, RecordMoves
  <2>6. AccountOK(q)
    BY <1>4, <1>6, <2>2, <2>4, <2>5 DEF AccountOK, RecordMoves
  <2> QED BY <1>4, <2>6, RecordFrame
<1> QED BY <1>4, <1>5, <1>6 DEF RecordMoves

LEMMA AllocationsWithin ==
  ASSUME NEW demand, NEW chosen \in Allocations(demand)
  PROVE  chosen \subseteq demand
BY DEF Allocations, FirstOf, kSubset

LEMMA PlanStep == ASSUME Inv, NEW i \in Invocations, Plan(i) PROVE Inv'
<1>1. inv[i] \in Invocation /\ AccountOK(inv[i]) /\ inv[i].pc = "active"
  BY DEF Inv, RefreshTypeOK, Plan, At
<1>2. PICK p \in Invocation : p = inv[i]
  BY <1>1
<1>3. PICK chosen \in Allocations((Candidates \cap Admitted) \ inv[i].first) :
        inv' = [inv EXCEPT ![i].pc = "rotate", ![i].todo = chosen,
                           ![i].outcomes = Planned(i, chosen)]
  BY DEF Plan
<1>4. chosen \subseteq (Candidates \cap Admitted) \ p.first
        /\ chosen \subseteq Symbols
  BY <1>2, <1>3, AllocationsWithin DEF Candidates
<1>5. PICK o : o = Planned(i, chosen)
  OBVIOUS
<1>6. o \in [Symbols -> Outcomes]
  BY <1>1, <1>5 DEF Planned, Outcomes, Deferred, Invocation
<1>7. PICK q : q = [p EXCEPT !.pc = "rotate", !.todo = chosen, !.outcomes = o]
  OBVIOUS
<1>8. q \in Invocation
  BY <1>4, <1>6, <1>7 DEF Invocation, Points
<1>9. /\ q.pc = "rotate" /\ q.cur = p.cur /\ q.outcomes = o
      /\ q.first = p.first /\ q.second = p.second /\ q.todo = chosen
  BY <1>7 DEF Invocation
<1>10. p.second = {} /\ p.cur = None
         /\ (\A s \in Symbols : p.outcomes[s] \notin Deferred)
         /\ (\A s \in p.first : p.outcomes[s] # "none")
  BY <1>1, <1>2, NoneFresh DEF AccountOK, InActive, Invocation
<1>11. \A s \in Symbols : o[s] \in Deferred => s \notin p.first /\ s \notin chosen
  <2> SUFFICES ASSUME NEW s \in Symbols, o[s] \in Deferred
               PROVE  s \notin p.first /\ s \notin chosen
    OBVIOUS
  <2>1. ~(s \notin Candidates \/ p.outcomes[s] # "none")
    BY <1>2, <1>5, <1>10 DEF Planned
  <2>2. s \notin p.first
    BY <1>10, <2>1
  <2>3. "none" \notin Deferred
    BY DEF Deferred
  <2>4. ~(s \in Admitted /\ s \in chosen)
    BY <1>2, <1>5, <2>1, <2>3 DEF Planned
  <2> QED BY <1>4, <2>2, <2>4
<1>12. AccountOK(q)
  BY <1>9, <1>10, <1>11, NoneFresh DEF AccountOK, InActive
<1>13. inv' = [inv EXCEPT ![i] = q]
  BY <1>2, <1>3, <1>5, <1>7
<1>14. inv' \in [Invocations -> Invocation] /\ ReportIsNewest'
         /\ \A j \in Invocations : AccountOK(inv'[j])
  BY <1>1, <1>8, <1>12, <1>13, OneMoves DEF Plan
<1>15. RefreshTypeOK'
  BY <1>14 DEF Inv, RefreshTypeOK, Plan, market
<1> QED BY <1>14, <1>15 DEF Inv

\* An invocation that ends without a word to the record.
LEMMA GoneStep ==
  ASSUME Inv, NEW i \in Invocations, inv[i].pc # "done", inv' = Gone(i),
         UNCHANGED <<row, market>>
  PROVE  Inv'
<1>1. PICK idle : idle = Idle
  OBVIOUS
<1>2. PICK q : q = [idle EXCEPT !.pc = "done"]
  OBVIOUS
<1>3. idle \in Invocation /\ AccountOK(idle) /\ idle.pc = "idle"
  BY <1>1, IdleFits
<1>4. q \in Invocation /\ AccountOK(q)
  <2>1. q \in Invocation
    BY <1>2, <1>3 DEF Invocation, Points
  <2>2. /\ q.pc = "done" /\ q.cur = idle.cur /\ q.outcomes = idle.outcomes
        /\ q.first = idle.first /\ q.second = idle.second
        /\ q.todo = idle.todo
    BY <1>2, <1>3 DEF Invocation
  <2> QED BY <1>3, <2>1, <2>2 DEF AccountOK, InActive
<1>5. inv' = [inv EXCEPT ![i] = q]
  BY <1>1, <1>2 DEF Gone
<1>6. inv' \in [Invocations -> Invocation] /\ ReportIsNewest'
        /\ \A j \in Invocations : AccountOK(inv'[j])
  BY <1>4, <1>5, OneMoves
<1>7. RefreshTypeOK'
  BY <1>6 DEF Inv, RefreshTypeOK, market
<1> QED BY <1>6, <1>7 DEF Inv

LEMMA FinishStep == ASSUME Inv, NEW i \in Invocations, FinishRun(i) PROVE Inv'
<1>1. inv[i] \in Invocation /\ AccountOK(inv[i]) /\ inv[i].pc \in {"close", "rotate"}
  BY DEF Inv, RefreshTypeOK, FinishRun, Ready, At
<1>2. CASE row.owner # i
  BY <1>1, <1>2, GoneStep DEF FinishRun
<1>3. CASE row.owner = i
  <2>1. PICK p \in Invocation : p = inv[i]
    BY <1>1
  <2>2. PICK q : q = [p EXCEPT !.pc = "done"]
    OBVIOUS
  <2>3. q \in Invocation
    BY <2>2 DEF Invocation, Points
  <2>4. /\ q.pc = "done" /\ q.cur = p.cur /\ q.outcomes = p.outcomes
        /\ q.status = p.status /\ q.first = p.first /\ q.second = p.second
        /\ q.todo = p.todo
    BY <2>2 DEF Invocation
  <2>5. AccountOK(q)
    BY <1>1, <2>1, <2>4 DEF AccountOK, InActive
  <2>6. inv' = [inv EXCEPT ![i] = q]
    BY <1>3, <2>1, <2>2 DEF FinishRun
  <2>7. inv \in [Invocations -> Invocation] /\ inv'[i] = q
          /\ \A j \in Invocations : inv'[j] = IF j = i THEN q ELSE inv[j]
    BY <2>6 DEF Inv, RefreshTypeOK
  <2>8. row' = [row EXCEPT !.status = p.status, !.outcomes = p.outcomes]
    BY <1>3, <2>1 DEF FinishRun
  <2>9. /\ row' \in [owner : Invocations \cup {None},
                     status : {"RUNNING"} \cup Closed,
                     outcomes : [Symbols -> Outcomes]]
        /\ row'.owner = i /\ row'.status = p.status
        /\ row'.outcomes = p.outcomes
    BY <1>3, <2>8 DEF Inv, RefreshTypeOK, Invocation
  <2>10. ReportIsNewest'
    BY <2>4, <2>7, <2>9, NoneFresh DEF ReportIsNewest, At
  <2>11. \A j \in Invocations : AccountOK(inv'[j])
    BY <2>5, <2>7 DEF Inv
  <2>12. inv' \in [Invocations -> Invocation]
    BY <2>3, <2>6, <2>7
  <2>13. RefreshTypeOK'
    BY <2>9, <2>12 DEF Inv, RefreshTypeOK, FinishRun, market
  <2> QED BY <2>10, <2>11, <2>13 DEF Inv
<1> QED BY <1>2, <1>3

-----------------------------------------------------------------------------
(* The theorems.                                                           *)

LEMMA InvInit == RefreshInit => Inv
<1> SUFFICES ASSUME RefreshInit PROVE Inv
  OBVIOUS
<1>1. PICK idle : idle = Idle
  OBVIOUS
<1>2. idle \in Invocation /\ AccountOK(idle)
  BY <1>1, IdleFits
<1>4. NoOutcomes \in [Symbols -> Outcomes]
  BY DEF NoOutcomes, Outcomes
<1>5. \A i \in Invocations : AccountOK(inv[i])
  BY <1>1, <1>2 DEF RefreshInit
<1>6. ReportIsNewest
  BY DEF RefreshInit, ReportIsNewest, Closed
<1>7. RefreshTypeOK
  BY <1>1, <1>2, <1>4 DEF RefreshInit, RefreshTypeOK, Bars, Attempts
<1> QED BY <1>5, <1>6, <1>7 DEF Inv

LEMMA InvNext == Inv /\ [\E i \in Invocations : RefreshStep(i)]_refreshVars => Inv'
<1> SUFFICES ASSUME Inv, [\E i \in Invocations : RefreshStep(i)]_refreshVars
             PROVE  Inv'
  OBVIOUS
<1>1. ASSUME NEW i \in Invocations, RefreshStep(i) PROVE Inv'
  <2>1. CASE OpenRun(i)
    BY <2>1, OpenRunStep
  <2>2. CASE Fetch(i)
    BY <2>2, FetchStep
  <2>3. CASE Record(i)
    BY <2>3, RecordStep
  <2>4. CASE Plan(i)
    BY <2>4, PlanStep
  <2>5. CASE FinishRun(i)
    BY <2>5, FinishStep
  <2>6. CASE InvocationDies(i)
    BY <2>6, GoneStep DEF InvocationDies
  <2> QED BY <1>1, <2>1, <2>2, <2>3, <2>4, <2>5, <2>6 DEF RefreshStep
<1>2. CASE UNCHANGED refreshVars
  BY <1>2 DEF Inv, refreshVars, market, RefreshTypeOK, AccountOK, InActive,
              ReportIsNewest, At
<1> QED BY <1>1, <1>2

THEOREM InvHolds == RefreshSpec => []Inv
BY InvInit, InvNext, PTL DEF RefreshSpec

\* Every reachable state of a refresh is type correct.
THEOREM TypeCorrect == RefreshSpec => []RefreshTypeOK
<1>1. Inv => RefreshTypeOK
  BY DEF Inv
<1> QED BY <1>1, InvHolds, PTL

\* A superseded invocation never writes the report of a session
\* (RefreshRunStore.finish compares the token in its transaction).
THEOREM NewestReports == RefreshSpec => []ReportIsNewest
<1>1. Inv => ReportIsNewest
  BY DEF Inv
<1> QED BY <1>1, InvHolds, PTL

\* A completed run never calls a symbol deferred that it fetched
\* (run_daily_refresh keeps the outcomes of its active phase).
THEOREM TriedIsNotDeferred == RefreshSpec => []DeferredWasNotTried
<1>1. Inv => DeferredWasNotTried
  <2> SUFFICES ASSUME Inv, row.status = "COMPLETED", NEW s \in Symbols,
                      row.outcomes[s] \in Deferred
               PROVE  s \notin inv[row.owner].first \cup inv[row.owner].second
    BY DEF DeferredWasNotTried
  <2>1. row.owner # None /\ row.outcomes = inv[row.owner].outcomes
    BY DEF Inv, ReportIsNewest, Closed
  <2>2. AccountOK(inv[row.owner])
    BY <2>1 DEF Inv, RefreshTypeOK
  <2> QED BY <2>1, <2>2 DEF AccountOK
<1> QED BY <1>1, InvHolds, PTL

-----------------------------------------------------------------------------
(* What a completed run accounts for, and what it spent.                   *)
(*                                                                         *)
(* A symbol is accounted for when it has an outcome or is still to be      *)
(* fetched. The active phase accounts for the active symbols; the plan,    *)
(* from one reading of the bars, for every candidate; and bars move only   *)
(* forward while others fetch, but for an active symbol that gets its      *)
(* first one. The rotation neither adds to what the plan chose nor leaves  *)
(* any of it out.                                                          *)

InRotation(q) == q.pc = "rotate" \/ (q.pc = "record" /\ q.phase = "rotate")

Accounted(q, s) == q.outcomes[s] # "none" \/ s \in q.todo \/ s = q.cur

Covers(q) ==
  /\ InActive(q) => q.todo \subseteq Active
  /\ InRotation(q) =>
       /\ \A s \in q.todo : bar[s] # "none"
       /\ \A s \in Symbols \ retired : bar[s] = "old" => Accounted(q, s)
  /\ InActive(q) \/ InRotation(q) =>
       \A s \in Active : Accounted(q, s) \/ bar[s] = "now"
  /\ q.pc = "close" => q.status = "QUOTA_EXHAUSTED"

PutOff(outcomes) == \E s \in Symbols : outcomes[s] = "BUDGET_EXHAUSTED"

\* The part of the budget that a rotation has spent or will spend.
Spends(q) ==
  /\ Cardinality(q.second) <= Budget
  /\ InRotation(q) =>
       /\ Cardinality(q.second \cup q.todo) <= Budget
       /\ PutOff(q.outcomes) => Cardinality(q.second \cup q.todo) = Budget

RowCovers ==
  row.status = "COMPLETED" =>
    /\ \A s \in Active : row.outcomes[s] # "none" \/ bar[s] = "now"
    /\ \A s \in Symbols \ retired : bar[s] = "old" => row.outcomes[s] # "none"
    /\ PutOff(row.outcomes) => Cardinality(inv[row.owner].second) = Budget

StaleInv == (\A i \in Invocations : Covers(inv[i]) /\ Spends(inv[i])) /\ RowCovers

-----------------------------------------------------------------------------
(* Facts about the operators of the plan.                                  *)

\* The elements of S below x.
Below(S, x) == {t \in S : t < x}

\* A set of numbers in which each has fewer than n below it has at most n.
LEMMA BoundedRank ==
  ASSUME NEW F, F \subseteq Nat, IsFiniteSet(F), NEW n \in Nat,
         \A s \in F : Cardinality(Below(F, s)) < n
  PROVE  Cardinality(F) <= n
<1>1. CASE F = {}
  BY <1>1, FS_EmptySet
<1>2. CASE F # {}
  <2>1. \A s \in F : IsFiniteSet(Below(F, s)) /\ Cardinality(Below(F, s)) \in Nat
    BY FS_Subset, FS_CardinalityType DEF Below
  <2>2. PICK Ranks : Ranks = {n - Cardinality(Below(F, s)) : s \in F}
    OBVIOUS
  <2>3. Ranks \subseteq Nat /\ Ranks # {}
    <3>1. ASSUME NEW x \in Ranks PROVE x \in Nat
      <4>1. PICK s \in F : x = n - Cardinality(Below(F, s))
        BY <2>2
      <4>2. Cardinality(Below(F, s)) \in Nat /\ Cardinality(Below(F, s)) < n
        BY <2>1
      <4> QED BY <4>1, <4>2
    <3>2. PICK s \in F : TRUE
      BY <1>2
    <3> QED BY <2>2, <3>1, <3>2
  <2>4. PICK r \in Ranks : \A x \in Ranks : r <= x
    BY <2>3, LeastExists
  <2>5. PICK m \in F : r = n - Cardinality(Below(F, m))
    BY <2>2, <2>4
  <2>6. ASSUME NEW s \in F
        PROVE  Cardinality(Below(F, s)) <= Cardinality(Below(F, m))
    <3>1. r <= n - Cardinality(Below(F, s))
      BY <2>2, <2>4
    <3> QED BY <2>1, <2>5, <3>1
  <2>7. ASSUME NEW s \in F PROVE ~(m < s)
    <3> SUFFICES ASSUME m < s PROVE FALSE
      OBVIOUS
    <3>1. Below(F, m) \cup {m} \subseteq Below(F, s) /\ m \notin Below(F, m)
      <4>1. m \in F /\ s \in F /\ m \in Nat /\ s \in Nat
        BY <2>7
      <4>2. ASSUME NEW t \in Below(F, m) PROVE t \in F /\ t < s /\ t # m
        <5>1. t \in F /\ t < m /\ t \in Nat
          BY DEF Below
        <5> QED BY <4>1, <5>1
      <4> QED BY <4>1, <4>2 DEF Below
    <3>2. Cardinality(Below(F, m) \cup {m}) = Cardinality(Below(F, m)) + 1
      BY <2>1, <3>1, FS_AddElement
    <3>3. Cardinality(Below(F, m) \cup {m}) <= Cardinality(Below(F, s))
      BY <2>1, <2>7, <3>1, FS_Subset
    <3>4. /\ Cardinality(Below(F, m)) \in Nat
          /\ Cardinality(Below(F, s)) \in Nat
          /\ Cardinality(Below(F, s)) <= Cardinality(Below(F, m))
      BY <2>1, <2>6, <2>7
    <3> QED BY <3>2, <3>3, <3>4
  <2>8. F = Below(F, m) \cup {m} /\ m \notin Below(F, m)
    <3>1. ASSUME NEW s \in F PROVE s < m \/ s = m
      <4>1. s \in Nat /\ m \in Nat
        OBVIOUS
      <4> QED BY <2>7, <4>1
    <3>2. ~(m < m)
      BY <2>7
    <3> QED BY <3>1, <3>2 DEF Below
  <2>9. Cardinality(F) = Cardinality(Below(F, m)) + 1
    BY <2>1, <2>8, FS_AddElement
  <2>10. Cardinality(Below(F, m)) < n
    OBVIOUS
  <2> QED BY <2>1, <2>9, <2>10
<1> QED BY <1>1, <1>2

\* FirstOf takes as many as it may, and all there are if it may take more.
LEMMA FirstOfCardinality ==
  ASSUME NEW S, S \subseteq Nat, IsFiniteSet(S), NEW n \in Nat
  PROVE  /\ FirstOf(S, n) \subseteq S /\ IsFiniteSet(FirstOf(S, n))
         /\ Cardinality(FirstOf(S, n)) \in Nat
         /\ Cardinality(FirstOf(S, n)) <= n
         /\ S \ FirstOf(S, n) # {} => Cardinality(FirstOf(S, n)) = n
<1> DEFINE F == FirstOf(S, n)
<1>1. F = {s \in S : Cardinality(Below(S, s)) < n}
  BY DEF FirstOf, Below
<1> HIDE DEF F
<1>2. F \subseteq S /\ IsFiniteSet(F) /\ Cardinality(F) \in Nat
  BY <1>1, FS_Subset, FS_CardinalityType
<1>3. \A s \in S : IsFiniteSet(Below(S, s)) /\ Cardinality(Below(S, s)) \in Nat
  BY FS_Subset, FS_CardinalityType DEF Below
<1>4. Cardinality(F) <= n
  <2>1. ASSUME NEW s \in F PROVE Cardinality(Below(F, s)) < n
    <3>1. Below(F, s) \subseteq Below(S, s)
      BY <1>2 DEF Below
    <3>2. Cardinality(Below(F, s)) <= Cardinality(Below(S, s)) /\ IsFiniteSet(Below(F, s))
      BY <1>2, <1>3, <3>1, FS_Subset
    <3>3. Cardinality(Below(F, s)) \in Nat
      BY <3>2, FS_CardinalityType
    <3> QED BY <1>1, <1>3, <3>2, <3>3
  <2> QED BY <1>2, <2>1, BoundedRank
<1>5. ASSUME S \ F # {} PROVE Cardinality(F) = n
  <2>1. PICK x \in S \ F : \A y \in S \ F : x <= y
    BY <1>5, LeastExists
  <2>2. Below(S, x) \subseteq F
    <3>1. ASSUME NEW y \in Below(S, x), y \notin F PROVE FALSE
      <4>1. y \in S \ F /\ y < x
        BY <3>1 DEF Below
      <4>2. x <= y /\ x \in Nat /\ y \in Nat
        BY <2>1, <4>1
      <4> QED BY <4>1, <4>2
    <3> QED BY <3>1
  <2>3. Cardinality(Below(S, x)) >= n
    BY <1>1, <1>3, <2>1
  <2>4. Cardinality(Below(S, x)) <= Cardinality(F)
    BY <1>2, <2>2, FS_Subset
  <2> QED BY <1>2, <1>3, <1>4, <2>3, <2>4
<1> QED BY <1>2, <1>4, <1>5 DEF F

LEMMA GreaterOf ==
  ASSUME NEW a \in Int, NEW b \in Int, NEW S, S = {a, b}
  PROVE  Max(S) \in {a, b} /\ Max(S) >= a /\ Max(S) >= b
<1>1. \E x \in S : \A y \in S : x >= y
  OBVIOUS
<1> QED BY <1>1 DEF Max

\* The rotation chooses no more than its budget, and all of it when there is
\* a ready symbol that it leaves out.
LEMMA AllocationSpends ==
  ASSUME NEW demand, demand \subseteq Symbols, NEW chosen \in Allocations(demand)
  PROVE  /\ IsFiniteSet(chosen) /\ Cardinality(chosen) <= Budget
         /\ (demand \ failing) \ chosen # {} => Cardinality(chosen) = Budget
<1> DEFINE cooling == demand \cap failing
           ready == demand \ failing
           share == Share(ready, cooling)
           head == FirstOf(ready, Budget - share)
           retries == Least(Least(share, Cardinality(cooling)), Budget - Cardinality(head))
<1>1. PICK c \in kSubset(retries, cooling) : chosen = head \cup c
  BY DEF Allocations
<1>2. /\ IsFiniteSet(cooling) /\ IsFiniteSet(ready) /\ ready \subseteq Nat
      /\ Cardinality(cooling) \in Nat
  BY SymbolAssumption, FS_Subset, FS_CardinalityType
<1>3. /\ share \in Nat
      /\ ready # {} => share <= Cardinality(cooling) /\ share <= Budget
  <2>1. Allowance \in Nat
    <3>1. PICK b : b = Budget \div 4 /\ b \in Nat
      BY LimitAssumption
    <3>2. PICK S : S = {1, b}
      OBVIOUS
    <3>3. b \in Int /\ 1 \in Int
      BY <3>1
    <3>4. Max(S) \in {1, b}
      BY <3>2, <3>3, GreaterOf
    <3> QED BY <3>1, <3>2, <3>4 DEF Allowance
  <2>2. PICK m \in Nat : m = Max({0, Budget - 1}) /\ m <= Budget
    <3>1. PICK b \in Int : b = Budget - 1
      BY LimitAssumption
    <3>2. PICK S : S = {0, b}
      OBVIOUS
    <3>3. Max(S) \in {0, b} /\ Max(S) >= 0
      BY <3>2, GreaterOf
    <3> QED BY <3>1, <3>2, <3>3, LimitAssumption
  <2>3. CASE cooling = {}
    BY <1>2, <2>3, LimitAssumption, FS_EmptySet DEF Share
  <2>4. CASE cooling # {} /\ ready = {}
    BY <2>1, <2>4 DEF Share
  <2>5. CASE cooling # {} /\ ready # {}
    <3>1. share = Least(Allowance, Least(Cardinality(cooling), m))
      BY <2>2, <2>5 DEF Share
    <3> QED BY <1>2, <2>1, <2>2, <3>1, LimitAssumption DEF Least
  <2> QED BY <2>3, <2>4, <2>5
<1> HIDE DEF share
<1>4. /\ head \subseteq ready /\ IsFiniteSet(head) /\ Cardinality(head) \in Nat
      /\ Cardinality(head) <= Budget
      /\ ready \ head # {} => Cardinality(head) = Budget - share
  <2>1. CASE ready = {}
    <3>1. head = {}
      <4>1. \A n : FirstOf({}, n) = {}
        BY DEF FirstOf
      <4> QED BY <2>1, <4>1
    <3>2. PICK h : h = head /\ h = {}
      BY <3>1
    <3>3. IsFiniteSet(h) /\ Cardinality(h) = 0
      BY <3>2, FS_EmptySet
    <3> HIDE DEF head
    <3> QED BY <2>1, <3>2, <3>3, LimitAssumption
  <2>2. CASE ready # {}
    <3>1. Budget - share \in Nat /\ Budget - share <= Budget
      BY <1>3, <2>2, LimitAssumption
    <3>2. PICK n \in Nat : n = Budget - share
      BY <3>1
    <3> HIDE DEF ready
    <3>3. /\ FirstOf(ready, n) \subseteq ready /\ IsFiniteSet(FirstOf(ready, n))
          /\ Cardinality(FirstOf(ready, n)) \in Nat
          /\ Cardinality(FirstOf(ready, n)) <= n
          /\ ready \ FirstOf(ready, n) # {} => Cardinality(FirstOf(ready, n)) = n
      BY <1>2, FirstOfCardinality
    <3> QED BY <3>1, <3>2, <3>3, LimitAssumption
  <2> QED BY <2>1, <2>2
<1> HIDE DEF head
<1>5. /\ retries \in Int /\ retries <= Budget - Cardinality(head)
      /\ ready \ head # {} => retries = share
  <2>1. CASE ready \ head # {}
    <3>1. ready # {} /\ Budget - Cardinality(head) = share /\ share <= Cardinality(cooling)
      BY <1>3, <1>4, <2>1, LimitAssumption
    <3> HIDE DEF ready, cooling
    <3> QED BY <1>2, <1>3, <1>4, <3>1, LimitAssumption DEF Least
  <2>2. CASE ready \ head = {}
    <3> HIDE DEF ready, cooling
    <3> QED BY <1>2, <1>3, <1>4, <2>2, LimitAssumption DEF Least
  <2> QED BY <2>1, <2>2
<1> HIDE DEF retries
<1>6. c \subseteq cooling /\ Cardinality(c) = retries
  BY DEF kSubset
<1>7. IsFiniteSet(c) /\ head \cap c = {}
  BY <1>2, <1>4, <1>6, FS_Subset
<1>8. IsFiniteSet(chosen) /\ Cardinality(chosen) = Cardinality(head) + Cardinality(c)
  <2>1. Cardinality(head \cap c) = 0
    BY <1>7, FS_EmptySet
  <2>2. Cardinality(c) \in Nat
    BY <1>7, FS_CardinalityType
  <2>3. /\ IsFiniteSet(head \cup c)
        /\ Cardinality(head \cup c)
             = Cardinality(head) + Cardinality(c) - Cardinality(head \cap c)
    BY <1>4, <1>7, FS_Union
  <2> QED BY <1>1, <1>4, <2>1, <2>2, <2>3
<1>9. Cardinality(chosen) <= Budget
  BY <1>4, <1>5, <1>6, <1>8, LimitAssumption
<1>10. ASSUME ready \ chosen # {} PROVE Cardinality(chosen) = Budget
  <2>1. ready \ head # {}
    BY <1>1, <1>10
  <2> QED BY <1>3, <1>4, <1>5, <1>6, <1>8, <2>1, LimitAssumption
<1> QED BY <1>8, <1>9, <1>10
-----------------------------------------------------------------------------
(* The steps, for what a completed run accounts for.                       *)

\* While others fetch, a bar never goes back, only an active symbol gets its
\* first one, and no symbol comes back from retirement.
BarsOnward ==
  /\ \A s \in Symbols :
       /\ bar[s] = "now" => bar'[s] = "now"
       /\ bar[s] # "none" => bar'[s] # "none"
       /\ bar'[s] = "old" => bar[s] = "old" \/ (bar[s] = "none" /\ s \in Active)
  /\ retired \subseteq retired'

LEMMA StillOnward == UNCHANGED bar /\ retired \subseteq retired' => BarsOnward
BY DEF BarsOnward

LEMMA CoversStays ==
  ASSUME NEW q \in Invocation, Covers(q), BarsOnward
  PROVE  Covers(q)'
<1>1. InActive(q) => q.todo \subseteq Active
  BY DEF Covers
<1>2. InActive(q) \/ InRotation(q) =>
        \A s \in Active : Accounted(q, s) \/ bar'[s] = "now"
  BY SymbolAssumption DEF Covers, BarsOnward
<1>3. ASSUME InRotation(q)
      PROVE  /\ \A s \in q.todo : bar'[s] # "none"
             /\ \A s \in Symbols \ retired' : bar'[s] = "old" => Accounted(q, s)
  <2>1. q.todo \subseteq Symbols
    BY DEF Invocation
  <2>2. \A s \in q.todo : bar'[s] # "none"
    BY <1>3, <2>1 DEF Covers, BarsOnward
  <2>3. ASSUME NEW s \in Symbols \ retired', bar'[s] = "old"
        PROVE  Accounted(q, s)
    <3>1. s \notin retired /\ (bar[s] = "old" \/ (bar[s] = "none" /\ s \in Active))
      BY <2>3 DEF BarsOnward
    <3>2. bar[s] = "old" => Accounted(q, s)
      BY <1>3, <3>1 DEF Covers
    <3>3. s \in Active => Accounted(q, s) \/ bar[s] = "now"
      BY <1>3 DEF Covers
    <3> QED BY <3>1, <3>2, <3>3
  <2> QED BY <2>2, <2>3
<1>4. q.pc = "close" => q.status = "QUOTA_EXHAUSTED"
  BY DEF Covers
<1> QED BY <1>1, <1>2, <1>3, <1>4 DEF Covers, Accounted, InActive, InRotation

\* A step of one invocation leaves what the others know alone.
LEMMA OthersKeep ==
  ASSUME Inv, StaleInv, NEW i \in Invocations, NEW q \in Invocation,
         Covers(q)', Spends(q), BarsOnward, inv' = [inv EXCEPT ![i] = q]
  PROVE  \A j \in Invocations : (Covers(inv[j]) /\ Spends(inv[j]))'
<1> SUFFICES ASSUME NEW j \in Invocations
             PROVE  (Covers(inv[j]) /\ Spends(inv[j]))'
  OBVIOUS
<1>1. inv \in [Invocations -> Invocation]
  BY DEF Inv, RefreshTypeOK
<1>2. PICK r \in Invocation : r = IF j = i THEN q ELSE inv[j]
  BY <1>1
<1>3. inv'[j] = r
  BY <1>1, <1>2
<1>4. Covers(r)' /\ Spends(r)
  <2>1. CASE j = i
    BY <1>2, <2>1
  <2>2. CASE j # i
    <3>1. Covers(r) /\ Spends(r)
      BY <1>2, <2>2 DEF StaleInv
    <3> QED BY <3>1, CoversStays
  <2> QED BY <2>1, <2>2
<1>5. Covers(inv[j])'
  BY <1>3, <1>4 DEF Covers, Accounted, InActive, InRotation
<1>6. Spends(inv[j])'
  BY <1>3, <1>4 DEF Spends, PutOff, InRotation
<1> QED BY <1>5, <1>6

\* A completed record stays true of the bars while nobody rewrites it.
LEMMA RowKeeps ==
  ASSUME Inv, StaleInv, NEW i \in Invocations, NEW q \in Invocation,
         inv[i].pc # "done", BarsOnward, inv' = [inv EXCEPT ![i] = q],
         UNCHANGED row
  PROVE  RowCovers'
<1> SUFFICES ASSUME row.status = "COMPLETED"
             PROVE  /\ \A s \in Active : row.outcomes[s] # "none" \/ bar'[s] = "now"
                    /\ \A s \in Symbols \ retired' :
                         bar'[s] = "old" => row.outcomes[s] # "none"
                    /\ PutOff(row.outcomes) =>
                         Cardinality(inv'[row.owner].second) = Budget
  BY DEF RowCovers, PutOff
<1>1. /\ row.owner \in Invocations \cup {None} /\ row.owner # None
      /\ inv[row.owner].pc = "done"
  BY DEF Inv, RefreshTypeOK, ReportIsNewest, Closed, At
<1>2. row.owner \in Invocations /\ row.owner # i
  BY <1>1
<1>3. inv'[row.owner] = inv[row.owner]
  BY <1>2 DEF Inv, RefreshTypeOK
<1>4. /\ \A s \in Active : row.outcomes[s] # "none" \/ bar[s] = "now"
      /\ \A s \in Symbols \ retired : bar[s] = "old" => row.outcomes[s] # "none"
      /\ PutOff(row.outcomes) => Cardinality(inv[row.owner].second) = Budget
  BY DEF StaleInv, RowCovers
<1>5. \A s \in Active : row.outcomes[s] # "none" \/ bar'[s] = "now"
  BY <1>4, SymbolAssumption DEF BarsOnward
<1>6. ASSUME NEW s \in Symbols \ retired', bar'[s] = "old"
      PROVE  row.outcomes[s] # "none"
  <2>1. s \notin retired /\ (bar[s] = "old" \/ (bar[s] = "none" /\ s \in Active))
    BY <1>6 DEF BarsOnward
  <2> QED BY <1>4, <2>1
<1> QED BY <1>3, <1>4, <1>5, <1>6

LEMMA NothingSpent == Cardinality({}) = 0 /\ Cardinality({}) <= Budget
BY FS_EmptySet, LimitAssumption

LEMMA OpenCovers ==
  ASSUME Inv, StaleInv, NEW i \in Invocations, OpenRun(i) PROVE StaleInv'
<1>1. PICK idle : idle = Idle
  OBVIOUS
<1>2. PICK q : q = [idle EXCEPT !.pc = "active", !.todo = Active]
  OBVIOUS
<1>3. idle \in Invocation /\ idle.second = {}
  BY <1>1, IdleFits DEF Idle
<1>4. q \in Invocation /\ q.pc = "active" /\ q.todo = Active /\ q.second = {}
  BY <1>2, <1>3, SymbolAssumption DEF Invocation, Points
<1>5. inv' = [inv EXCEPT ![i] = q] /\ UNCHANGED <<bar, retired>>
        /\ row'.status = "RUNNING"
  BY <1>1, <1>2 DEF OpenRun, market
<1>6. Covers(q)'
  BY <1>4 DEF Covers, Accounted, InActive, InRotation
<1>7. Spends(q)
  BY <1>4, NothingSpent DEF Spends, InRotation
<1>8. \A j \in Invocations : (Covers(inv[j]) /\ Spends(inv[j]))'
  BY <1>4, <1>5, <1>6, <1>7, StillOnward, OthersKeep
<1>9. RowCovers'
  BY <1>5 DEF RowCovers
<1> QED BY <1>8, <1>9 DEF StaleInv

\* The fetch of s: it moves from todo to cur, and only the bar of s moves.
LEMMA FetchCovers ==
  ASSUME Inv, StaleInv, NEW i \in Invocations, Fetch(i) PROVE StaleInv'
<1>1. inv[i] \in Invocation /\ AccountOK(inv[i]) /\ inv[i].pc \in {"active", "rotate"}
  BY DEF Inv, RefreshTypeOK, Fetch
<1>2. PICK p \in Invocation : p = inv[i]
  BY <1>1
<1>3. PICK s \in Left(i), result \in Attempts, q \in Invocation :
        /\ FetchMoves(p, s, q) /\ \A t \in Left(i) : s <= t
        /\ Fetched(s, result) /\ inv' = [inv EXCEPT ![i] = q]
  BY <1>2, FetchEffect
<1>4. Covers(p) /\ Spends(p) /\ p.cur = None
  BY <1>1, <1>2 DEF StaleInv, AccountOK
<1>5. s \in p.todo /\ s \in Symbols /\ p.todo \subseteq Symbols
  BY <1>3 DEF FetchMoves, Invocation
<1>6. \A t \in p.todo : t = s \/ t \in q.todo \/ (p.pc = "active" /\ bar[t] = "now")
  <2> SUFFICES ASSUME NEW t \in p.todo, t # s, ~(t > s),
                      ~(p.pc = "active" /\ bar[t] = "now")
               PROVE  FALSE
    BY <1>3 DEF FetchMoves
  <2>1. t \in Left(i)
    BY <1>2 DEF Left, At
  <2>2. s <= t /\ s \in Nat /\ t \in Nat
    BY <1>3, <1>5, <2>1, SymbolAssumption
  <2> QED BY <2>2
<1>7. q.todo \subseteq p.todo /\ q.cur = s /\ q.outcomes = p.outcomes
  BY <1>3 DEF FetchMoves
<1>8. BarsOnward
  <2>1. bar[s] = "none" => s \in Active
    BY <1>1, <1>2, <1>4, <1>5 DEF Covers, InActive, InRotation
  <2>2. CASE UNCHANGED bar
    BY <2>2, StillOnward DEF Fetch
  <2>3. CASE \E b \in Advanced(bar[s]) : bar' = [bar EXCEPT ![s] = b]
    <3>1. PICK b \in Advanced(bar[s]) : bar' = [bar EXCEPT ![s] = b]
      BY <2>3
    <3>2. \A t \in Symbols : bar'[t] = IF t = s THEN b ELSE bar[t]
      BY <3>1 DEF Inv, RefreshTypeOK
    <3>3. b # "none" /\ (bar[s] = "now" => b = "now")
            /\ (b = "old" => bar[s] # "now" /\ bar[s] # "lag")
      BY DEF Advanced
    <3>4. bar[s] \in {"none", "old", "lag", "now"}
      BY <1>5 DEF Inv, RefreshTypeOK, Bars
    <3>5. UNCHANGED retired
      BY DEF Fetch
    <3> QED BY <2>1, <3>2, <3>3, <3>4, <3>5 DEF BarsOnward
  <2> QED BY <1>3, <2>2, <2>3 DEF Fetched
<1>9. Covers(p)'
  BY <1>4, <1>8, CoversStays
<1>10. Covers(q)'
  <2>1. (InActive(q) <=> p.pc = "active") /\ (InRotation(q) <=> p.pc = "rotate")
          /\ q.pc # "close"
    BY <1>1, <1>2, <1>3 DEF InActive, InRotation, FetchMoves
  <2>2. (InActive(p) <=> p.pc = "active") /\ (InRotation(p) <=> p.pc = "rotate")
    BY <1>1, <1>2 DEF InActive, InRotation
  <2>3. \A t \in Symbols : bar[t] = "now" => bar'[t] = "now"
    BY <1>8 DEF BarsOnward
  <2>4. \A t \in Symbols : Accounted(p, t) =>
          Accounted(q, t) \/ (p.pc = "active" /\ bar'[t] = "now")
    BY <1>4, <1>5, <1>6, <1>7, <2>3, NoneFresh DEF Accounted
  <2>5. \A t \in Active : t \in Symbols
    BY SymbolAssumption
  <2>6. p.pc = "active" => q.todo \subseteq Active
    BY <1>7, <1>9, <2>2 DEF Covers
  <2>7. p.pc = "rotate" =>
          /\ \A t \in q.todo : bar'[t] # "none"
          /\ \A t \in Symbols \ retired' : bar'[t] = "old" => Accounted(q, t)
    <3> SUFFICES ASSUME p.pc = "rotate"
                 PROVE  /\ \A t \in q.todo : bar'[t] # "none"
                        /\ \A t \in Symbols \ retired' :
                             bar'[t] = "old" => Accounted(q, t)
      OBVIOUS
    <3>1. InRotation(p)
      BY <2>2
    <3>2. /\ \A t \in p.todo : bar'[t] # "none"
          /\ \A t \in Symbols \ retired' : bar'[t] = "old" => Accounted(p, t)
      BY <1>9, <3>1 DEF Covers, Accounted, InRotation
    <3> QED BY <1>7, <2>4, <3>2
  <2>8. \A t \in Active : Accounted(q, t) \/ bar'[t] = "now"
    <3>1. InActive(p) \/ InRotation(p)
      BY <1>1, <1>2, <2>2
    <3>2. \A t \in Active : Accounted(p, t) \/ bar'[t] = "now"
      BY <1>9, <3>1 DEF Covers, Accounted, InActive, InRotation
    <3> QED BY <2>4, <2>5, <3>2
  <2> QED BY <2>1, <2>6, <2>7, <2>8 DEF Covers, Accounted, InActive, InRotation
<1>11. Spends(q)
  <2>1. CASE p.pc = "active"
    BY <1>3, <1>4, <2>1 DEF Spends, InRotation, FetchMoves
  <2>2. CASE p.pc = "rotate"
    <3>1. q.second = p.second \cup {s} /\ q.second \cup q.todo = p.second \cup p.todo
      BY <1>3, <1>6, <1>7, <2>2 DEF FetchMoves
    <3>2. /\ Cardinality(p.second \cup p.todo) <= Budget
          /\ PutOff(p.outcomes) => Cardinality(p.second \cup p.todo) = Budget
      BY <1>4, <2>2 DEF Spends, InRotation
    <3>3. Cardinality(q.second) <= Budget
      <4>1. p.second \cup p.todo \subseteq Symbols
        BY DEF Invocation
      <4>2. IsFiniteSet(p.second \cup p.todo) /\ q.second \subseteq p.second \cup p.todo
        BY <1>5, <3>1, <4>1, SymbolAssumption, FS_Subset
      <4>3. /\ Cardinality(q.second) <= Cardinality(p.second \cup p.todo)
            /\ IsFiniteSet(q.second)
        BY <4>2, FS_Subset
      <4>4. Cardinality(q.second) \in Nat /\ Cardinality(p.second \cup p.todo) \in Nat
        BY <4>2, <4>3, FS_CardinalityType
      <4> QED BY <3>2, <4>3, <4>4, LimitAssumption
    <3> QED BY <1>7, <3>1, <3>2, <3>3 DEF Spends
  <2> QED BY <1>1, <1>2, <2>1, <2>2
<1>12. \A j \in Invocations : (Covers(inv[j]) /\ Spends(inv[j]))'
  BY <1>3, <1>8, <1>10, <1>11, OthersKeep
<1>13. RowCovers'
  BY <1>1, <1>3, <1>8, RowKeeps DEF Fetch
<1> QED BY <1>12, <1>13 DEF StaleInv

LEMMA RecordCovers ==
  ASSUME Inv, StaleInv, NEW i \in Invocations, Record(i) PROVE StaleInv'
<1>1. inv[i] \in Invocation /\ AccountOK(inv[i]) /\ inv[i].pc = "record"
  BY DEF Inv, RefreshTypeOK, Record, At
<1>2. PICK p \in Invocation : p = inv[i]
  BY <1>1
<1>3. p.cur \in Symbols /\ p.phase \in {"active", "rotate"}
        /\ p.outcomes \in [Symbols -> Outcomes]
  BY <1>1, <1>2 DEF AccountOK, Invocation
<1>4. PICK q \in Invocation : RecordMoves(p, q) /\ inv' = [inv EXCEPT ![i] = q]
  BY <1>2, RecordEffect
<1>5. BarsOnward /\ UNCHANGED row
  BY StillOnward DEF Record
<1>6. Covers(p)' /\ Spends(p)
  BY <1>2, <1>5, CoversStays DEF StaleInv
<1>7. q.second = p.second /\ q.todo = p.todo
  BY <1>4 DEF RecordMoves
<1>8. Covers(q)' /\ Spends(q)
  <2>1. CASE q.pc = "close" /\ q.status = "QUOTA_EXHAUSTED"
    BY <1>6, <1>7, <2>1 DEF Covers, Spends, InActive, InRotation
  <2>2. ASSUME NEW o \in {"REFRESHED", "FAILED"}, q.pc = p.phase,
               q.outcomes = [p.outcomes EXCEPT ![p.cur] = o]
        PROVE  Covers(q)' /\ Spends(q)
    <3>1. (InActive(q) <=> InActive(p)) /\ (InRotation(q) <=> InRotation(p))
            /\ q.pc # "close"
      BY <1>1, <1>2, <1>3, <2>2 DEF InActive, InRotation
    <3>2. \A s \in Symbols : q.outcomes[s] = IF s = p.cur THEN o ELSE p.outcomes[s]
      BY <1>3, <2>2
    <3>3. \A s \in Symbols : Accounted(p, s) => Accounted(q, s)
      BY <1>7, <3>2 DEF Accounted
    <3>4. PutOff(q.outcomes) => PutOff(p.outcomes)
      BY <3>2 DEF PutOff
    <3>5. Spends(q)
      BY <1>6, <1>7, <3>1, <3>4 DEF Spends
    <3>6. InActive(q) => q.todo \subseteq Active
      BY <1>6, <1>7, <3>1 DEF Covers, InActive
    <3>7. InRotation(q) =>
            /\ \A s \in q.todo : bar'[s] # "none"
            /\ \A s \in Symbols \ retired' : bar'[s] = "old" => Accounted(q, s)
      <4> SUFFICES ASSUME InRotation(p)
                   PROVE  /\ \A s \in q.todo : bar'[s] # "none"
                          /\ \A s \in Symbols \ retired' :
                               bar'[s] = "old" => Accounted(q, s)
        BY <3>1
      <4>1. /\ \A s \in p.todo : bar'[s] # "none"
            /\ \A s \in Symbols \ retired' : bar'[s] = "old" => Accounted(p, s)
        BY <1>6 DEF Covers, Accounted, InRotation
      <4> QED BY <1>7, <3>3, <4>1
    <3>8. InActive(q) \/ InRotation(q) =>
            \A s \in Active : Accounted(q, s) \/ bar'[s] = "now"
      <4> SUFFICES ASSUME InActive(p) \/ InRotation(p)
                   PROVE  \A s \in Active : Accounted(q, s) \/ bar'[s] = "now"
        BY <3>1
      <4>1. \A s \in Active : Accounted(p, s) \/ bar'[s] = "now"
        BY <1>6 DEF Covers, Accounted, InActive, InRotation
      <4> QED BY <3>3, <4>1, SymbolAssumption
    <3> QED BY <3>1, <3>5, <3>6, <3>7, <3>8
         DEF Covers, Accounted, InActive, InRotation
  <2> QED BY <1>4, <2>1, <2>2 DEF RecordMoves
<1>9. \A j \in Invocations : (Covers(inv[j]) /\ Spends(inv[j]))'
  BY <1>4, <1>5, <1>8, OthersKeep
<1>10. RowCovers'
  BY <1>1, <1>4, <1>5, RowKeeps
<1> QED BY <1>9, <1>10 DEF StaleInv

\* The plan gives every candidate an outcome or a place in the rotation, and
\* puts a ready symbol off only when the budget is spent.
LEMMA PlanCovers ==
  ASSUME Inv, StaleInv, NEW i \in Invocations, Plan(i) PROVE StaleInv'
<1>1. inv[i] \in Invocation /\ AccountOK(inv[i]) /\ inv[i].pc = "active"
        /\ Left(i) = {}
  BY DEF Inv, RefreshTypeOK, Plan, At
<1>2. PICK p \in Invocation : p = inv[i]
  BY <1>1
<1>3. PICK demand : demand = (Candidates \cap Admitted) \ p.first
  OBVIOUS
<1>4. PICK chosen \in Allocations(demand) :
        inv' = [inv EXCEPT ![i].pc = "rotate", ![i].todo = chosen,
                           ![i].outcomes = Planned(i, chosen)]
  BY <1>2, <1>3 DEF Plan
<1>5. demand \subseteq Symbols /\ chosen \subseteq demand
  BY <1>3, AllocationsWithin DEF Candidates
<1>6. /\ Cardinality(chosen) <= Budget
      /\ (demand \ failing) \ chosen # {} => Cardinality(chosen) = Budget
  BY <1>5, AllocationSpends
<1>7. PICK o : o = Planned(i, chosen)
  OBVIOUS
<1>8. o \in [Symbols -> Outcomes]
  BY <1>1, <1>7 DEF Planned, Outcomes, Deferred, Invocation
<1>9. PICK q : q = [p EXCEPT !.pc = "rotate", !.todo = chosen, !.outcomes = o]
  OBVIOUS
<1>10. q \in Invocation
  BY <1>5, <1>8, <1>9 DEF Invocation, Points
<1>11. /\ q.pc = "rotate" /\ q.cur = p.cur /\ q.outcomes = o
       /\ q.first = p.first /\ q.second = p.second /\ q.todo = chosen
  BY <1>9 DEF Invocation
<1>12. inv' = [inv EXCEPT ![i] = q]
  BY <1>2, <1>4, <1>7, <1>9
<1>13. UNCHANGED <<row, bar, retired>>
  BY DEF Plan, market
<1>14. /\ p.second = {} /\ p.cur = None
       /\ \A s \in Symbols : p.outcomes[s] \notin Deferred
       /\ \A s \in p.first : p.outcomes[s] # "none"
  BY <1>1, <1>2, NoneFresh DEF AccountOK, InActive, Invocation
<1>15. \A s \in p.todo : bar[s] = "now"
  BY <1>1, <1>2 DEF Left, At
<1>16. \A s \in Symbols :
         /\ p.outcomes[s] # "none" => o[s] = p.outcomes[s]
         /\ s \in Candidates => o[s] # "none" \/ s \in chosen
         /\ o[s] = "BUDGET_EXHAUSTED" => s \in (demand \ failing) \ chosen
  <2> SUFFICES ASSUME NEW s \in Symbols
               PROVE  /\ p.outcomes[s] # "none" => o[s] = p.outcomes[s]
                      /\ s \in Candidates => o[s] # "none" \/ s \in chosen
                      /\ o[s] = "BUDGET_EXHAUSTED" => s \in (demand \ failing) \ chosen
    OBVIOUS
  <2>1. o[s] = IF s \notin Candidates \/ p.outcomes[s] # "none"
                 THEN p.outcomes[s]
               ELSE IF s \notin Admitted THEN "CAPACITY_DEFERRED"
               ELSE IF s \in chosen THEN "none"
               ELSE IF s \in failing THEN "COOLING_SLICE" ELSE "BUDGET_EXHAUSTED"
    BY <1>2, <1>7 DEF Planned
  <2>2. p.outcomes[s] # "BUDGET_EXHAUSTED"
    BY <1>14 DEF Deferred
  <2> QED BY <1>3, <1>14, <2>1, <2>2
<1>17. Covers(q)'
  <2>1. \A s \in chosen : bar[s] = "old"
    BY <1>3, <1>5 DEF Candidates
  <2>2. \A s \in Symbols \ retired : bar[s] = "old" => Accounted(q, s)
    BY <1>11, <1>16 DEF Candidates, Accounted
  <2>3. \A s \in Active : Accounted(q, s) \/ bar[s] = "now"
    <3>1. \A s \in Active : Accounted(p, s) \/ bar[s] = "now"
      BY <1>1, <1>2 DEF StaleInv, Covers, InActive
    <3> QED BY <1>11, <1>14, <1>15, <1>16, <3>1, NoneFresh, SymbolAssumption
         DEF Accounted
  <2> QED BY <1>11, <1>13, <2>1, <2>2, <2>3
       DEF Covers, Accounted, InActive, InRotation
<1>18. Spends(q)
  <2>1. q.second \cup q.todo = chosen /\ q.second = {}
    BY <1>11, <1>14
  <2>2. PutOff(q.outcomes) => Cardinality(chosen) = Budget
    BY <1>6, <1>11, <1>16 DEF PutOff
  <2> QED BY <1>6, <2>1, <2>2, NothingSpent DEF Spends
<1>19. \A j \in Invocations : (Covers(inv[j]) /\ Spends(inv[j]))'
  BY <1>10, <1>12, <1>13, <1>17, <1>18, StillOnward, OthersKeep
<1>20. RowCovers'
  BY <1>1, <1>10, <1>12, <1>13, StillOnward, RowKeeps
<1> QED BY <1>19, <1>20 DEF StaleInv

LEMMA GoneCovers ==
  ASSUME Inv, StaleInv, NEW i \in Invocations, inv[i].pc # "done",
         inv' = Gone(i), UNCHANGED <<row, market>>
  PROVE  StaleInv'
<1>1. PICK idle : idle = Idle
  OBVIOUS
<1>2. PICK q : q = [idle EXCEPT !.pc = "done"]
  OBVIOUS
<1>3. idle \in Invocation /\ idle.second = {}
  BY <1>1, IdleFits DEF Idle
<1>4. q \in Invocation /\ q.pc = "done" /\ q.second = {}
  BY <1>2, <1>3 DEF Invocation, Points
<1>5. inv' = [inv EXCEPT ![i] = q]
  BY <1>1, <1>2 DEF Gone
<1>6. BarsOnward
  BY StillOnward DEF market
<1>7. Covers(q)' /\ Spends(q)
  BY <1>4, NothingSpent DEF Covers, Spends, InActive, InRotation
<1>8. \A j \in Invocations : (Covers(inv[j]) /\ Spends(inv[j]))'
  BY <1>4, <1>5, <1>6, <1>7, OthersKeep
<1>9. RowCovers'
  BY <1>4, <1>5, <1>6, RowKeeps
<1> QED BY <1>8, <1>9 DEF StaleInv

\* What the owner wrote accounts for everything: its rotation is empty, and a
\* run that the quota ended is not completed.
LEMMA FinishCovers ==
  ASSUME Inv, StaleInv, NEW i \in Invocations, FinishRun(i) PROVE StaleInv'
<1>1. inv[i] \in Invocation /\ AccountOK(inv[i])
        /\ (inv[i].pc = "close" \/ (inv[i].pc = "rotate" /\ inv[i].todo = {}))
  BY DEF Inv, RefreshTypeOK, FinishRun, Ready, At
<1>2. CASE row.owner # i
  BY <1>1, <1>2, GoneCovers DEF FinishRun
<1>3. CASE row.owner = i
  <2>1. PICK p \in Invocation : p = inv[i]
    BY <1>1
  <2>2. PICK q : q = [p EXCEPT !.pc = "done"]
    OBVIOUS
  <2>3. q \in Invocation /\ q.pc = "done" /\ q.second = p.second
    BY <2>2 DEF Invocation, Points
  <2>4. inv' = [inv EXCEPT ![i] = q] /\ UNCHANGED <<bar, retired>>
    BY <1>3, <2>1, <2>2 DEF FinishRun, market
  <2>5. Covers(p) /\ Spends(p) /\ p.cur = None
    BY <1>1, <2>1 DEF StaleInv, AccountOK
  <2>6. Covers(q)' /\ Spends(q)
    BY <2>3, <2>5 DEF Covers, Spends, InActive, InRotation
  <2>7. \A j \in Invocations : (Covers(inv[j]) /\ Spends(inv[j]))'
    BY <2>3, <2>4, <2>6, StillOnward, OthersKeep
  <2>8. row'.status = p.status /\ row'.outcomes = p.outcomes /\ row'.owner = i
          /\ inv'[i].second = p.second
    BY <1>3, <2>1, <2>3, <2>4 DEF FinishRun, Inv, RefreshTypeOK
  <2>9. RowCovers'
    <3> SUFFICES ASSUME p.status = "COMPLETED"
                 PROVE  /\ \A s \in Active : p.outcomes[s] # "none" \/ bar[s] = "now"
                        /\ \A s \in Symbols \ retired :
                             bar[s] = "old" => p.outcomes[s] # "none"
                        /\ PutOff(p.outcomes) => Cardinality(p.second) = Budget
      BY <2>4, <2>8 DEF RowCovers, PutOff
    <3>1. p.pc = "rotate" /\ p.todo = {} /\ InRotation(p)
      BY <1>1, <2>1, <2>5 DEF Covers, InRotation
    <3>2. \A s \in Symbols : Accounted(p, s) => p.outcomes[s] # "none"
      BY <2>5, <3>1, NoneFresh DEF Accounted
    <3>3. p.second \cup p.todo = p.second
      BY <3>1
    <3> QED BY <2>5, <3>1, <3>2, <3>3, SymbolAssumption DEF Covers, Spends
  <2> QED BY <2>7, <2>9 DEF StaleInv
<1> QED BY <1>2, <1>3

LEMMA StaleInit == RefreshInit => StaleInv
<1> SUFFICES ASSUME RefreshInit PROVE StaleInv
  OBVIOUS
<1>1. PICK idle : idle = Idle
  OBVIOUS
<1>2. idle.pc = "idle" /\ idle.second = {}
  BY <1>1 DEF Idle
<1>3. Covers(idle) /\ Spends(idle)
  BY <1>2, NothingSpent DEF Covers, Spends, InActive, InRotation
<1>4. \A i \in Invocations : inv[i] = idle
  BY <1>1 DEF RefreshInit
<1>5. \A i \in Invocations : Covers(inv[i]) /\ Spends(inv[i])
  BY <1>3, <1>4
<1>6. RowCovers
  BY DEF RefreshInit, RowCovers
<1> QED BY <1>5, <1>6 DEF StaleInv

LEMMA StaleNext ==
  Inv /\ StaleInv /\ [\E i \in Invocations : RefreshStep(i)]_refreshVars => StaleInv'
<1> SUFFICES ASSUME Inv, StaleInv,
                    [\E i \in Invocations : RefreshStep(i)]_refreshVars
             PROVE  StaleInv'
  OBVIOUS
<1>1. ASSUME NEW i \in Invocations, RefreshStep(i) PROVE StaleInv'
  <2>1. CASE OpenRun(i)
    BY <2>1, OpenCovers
  <2>2. CASE Fetch(i)
    BY <2>2, FetchCovers
  <2>3. CASE Record(i)
    BY <2>3, RecordCovers
  <2>4. CASE Plan(i)
    BY <2>4, PlanCovers
  <2>5. CASE FinishRun(i)
    BY <2>5, FinishCovers
  <2>6. CASE InvocationDies(i)
    BY <2>6, GoneCovers DEF InvocationDies
  <2> QED BY <1>1, <2>1, <2>2, <2>3, <2>4, <2>5, <2>6 DEF RefreshStep
<1>2. CASE UNCHANGED refreshVars
  BY <1>2 DEF StaleInv, refreshVars, market, Covers, Spends, RowCovers,
              Accounted, InActive, InRotation, PutOff
<1> QED BY <1>1, <1>2

\* A completed run accounts for every symbol with bars past the contract, the
\* rotation stays within its budget, and a symbol is put off for the budget
\* only when the whole of it was spent and it was not tried
\* (plan_symbol_capacity, allocate_rotation and the two loops of
\* run_daily_refresh).
THEOREM StaleAccounted == RefreshSpec => []StaleIsAccounted
<1>1. Inv /\ StaleInv /\ DeferredWasNotTried => StaleIsAccounted
  <2> SUFFICES ASSUME Inv, StaleInv, DeferredWasNotTried PROVE StaleIsAccounted
    OBVIOUS
  <2>1. CompletedCoversStale
    BY DEF StaleInv, RowCovers, CompletedCoversStale
  <2>2. BudgetDeferralIsEarned
    BY DEF StaleInv, RowCovers, Spends, PutOff, BudgetDeferralIsEarned
  <2> QED BY <2>1, <2>2 DEF StaleIsAccounted
<1> QED
  BY <1>1, TriedIsNotDeferred, InvInit, InvNext, StaleInit, StaleNext, PTL DEF RefreshSpec

-----------------------------------------------------------------------------
(* The watch over freshness.                                               *)

Queueing == {"next", "try", "failed", "verify", "log", "charge", "settle", "close"}
Repairing == {"try", "failed", "verify", "log", "charge", "settle"}

\* Where a marked symbol of that class is found.
Placed(class, d) ==
  /\ class = "work" => d \in {"PENDING"} \cup Verdicts
  /\ class = "scheduled" => d = "DEFERRED"
  /\ class = "exception" => d = "EXCLUDED"

\* What is set aside was deferred by a completed run.
Claimed(s) ==
  /\ row.status = "COMPLETED" /\ row.outcomes[s] \in Deferred => s \in claimed
  /\ watch.deferred[s] # "none" => s \in claimed
  /\ point[s].disposition = "DEFERRED" => s \in claimed

\* What the audit found, and the marks made of it so far.
Audited(s) ==
  /\ watch.pc \in {"idle", "snapshot", "audit"} => watch.class[s] = "clear"
  /\ watch.class[s] = "scheduled" => watch.deferred[s] # "none"
  /\ watch.class[s] = "work" /\ ~Starved => watch.deferred[s] = "none"
  /\ watch.pc \in {"seed", "mark"} /\ s \in watch.todo =>
       watch.class[s] # "clear"
  /\ watch.pc \in {"seed", "mark"} /\ s \notin watch.todo /\ s # watch.cur =>
       Placed(watch.class[s], point[s].disposition)

\* What the pass is to fetch is pending, and was not scheduled for later.
Queued(s) ==
  watch.pc \in Queueing =>
    /\ Placed(watch.class[s], point[s].disposition)
    /\ s \in watch.todo => point[s].disposition = "PENDING"

\* A repaired symbol has its bar, and so no later audit finds it stale.
Repaired(s) ==
  point[s].disposition = "REPAIRED" =>
    /\ bar[s] = "now"
    /\ watch.pc \in {"guard", "open", "seed", "mark"} => watch.class[s] = "clear"

\* Only the request in progress, and the one that repaired, are not counted.
Paid(s) ==
  /\ point[s].attempts <= MaxTotal /\ unpaid[s] <= 1
  /\ unpaid[s] = 1 =>
       \/ point[s].disposition = "REPAIRED"
       \/ /\ s = watch.cur
          /\ \/ watch.pc \in {"failed", "charge"}
             \/ watch.pc \in {"verify", "log"} /\ watch.result \in {"SUCCESS", "EMPTY"}
             \/ watch.pc = "settle" /\ watch.result = "SUCCESS"

\* One more attempt is allowed.
MayCharge ==
  \/ watch.pc \in {"try", "failed", "charge"}
  \/ watch.pc \in {"verify", "log"} /\ watch.result = "EMPTY"
  \/ watch.pc = "verify" /\ watch.result = "SUCCESS"

\* The symbol in progress.
CurIsOwed ==
  /\ watch.pc \notin Repairing \cup {"mark", "close"} => Cur = None
  /\ watch.pc = "mark" =>
       /\ Cur \in Symbols /\ Cur \notin watch.todo /\ watch.class[Cur] # "clear"
       /\ point[Cur].disposition # "none"
  /\ watch.pc \in Repairing =>
       /\ Cur \in Symbols /\ Cur \notin watch.todo
       /\ point[Cur].disposition = "PENDING"
  /\ watch.pc \in Repairing \ {"settle"} => watch.total = point[Cur].attempts
  /\ MayCharge => watch.total < MaxTotal
  /\ watch.pc = "try" => watch.used < MaxPerRun
  /\ watch.pc = "failed" => watch.result \in {"ERROR", "FATAL"}
  /\ watch.pc = "verify" => watch.result \in {"SUCCESS", "EMPTY", "ERROR", "FATAL"}
  /\ watch.pc = "log" => watch.result \in {"SUCCESS", "EMPTY"}
  /\ watch.pc = "charge" => watch.result \in {"EMPTY", "ERROR"}
  /\ watch.pc \in {"log", "settle"} /\ watch.result = "SUCCESS" => bar[Cur] = "now"

SymbolOK(s) == Claimed(s) /\ Audited(s) /\ Queued(s) /\ Repaired(s) /\ Paid(s)

WatchInv == Inv /\ TypeOK /\ CurIsOwed /\ \A s \in Symbols : SymbolOK(s)

-----------------------------------------------------------------------------
(* Facts the actions need.                                                 *)

LEMMA MinIn == ASSUME NEW S, S \subseteq Symbols, S # {} PROVE Min(S) \in S
<1>1. \E x \in S : \A y \in S : x <= y
  BY SymbolAssumption, LeastExists
<1> QED BY <1>1 DEF Min

LEMMA NoPassFits ==
  /\ NoPass \in Pass /\ NoPass.pc = "idle" /\ NoPass.cur = None
  /\ NoPass.todo = {} /\ NoPass.result = "none" /\ NoPass.used = 0
  /\ \A s \in Symbols : NoPass.class[s] = "clear" /\ NoPass.deferred[s] = "none"
<1>1. NoOutcomes \in [Symbols -> Outcomes]
        /\ \A s \in Symbols : NoOutcomes[s] = "none"
  BY DEF NoOutcomes, Outcomes
<1>2. PICK c : c = [s \in Symbols |-> "clear"]
  OBVIOUS
<1>a. c \in [Symbols -> Classes] /\ \A s \in Symbols : c[s] = "clear"
  BY <1>2 DEF Classes
<1>3. NoPass = [pc |-> "idle", after |-> FALSE, deferred |-> NoOutcomes,
                class |-> c, todo |-> {}, cur |-> None, total |-> 0,
                used |-> 0, result |-> "none", escalated |-> FALSE]
  BY <1>2 DEF NoPass
<1>4. 0 \in 0..MaxPerRun
  BY WatchAssumption
<1> QED BY <1>1, <1>a, <1>3, <1>4 DEF Pass, Steps, Attempts

\* A step of the pass that sends no request and writes nothing but its own
\* stores.
LEMMA PassKeeps ==
  ASSUME WatchInv, PassStep, watch' \in Pass,
         point' \in [Symbols -> [disposition : Dispositions, attempts : Nat]],
         checkpoint' \in {"none", "RUNNING", "ESCALATED", "COMPLETED"},
         quarantine' \subseteq Symbols
  PROVE  Inv' /\ TypeOK'
<1>1. UNCHANGED refreshVars
  BY DEF PassStep
<1>2. Inv'
  BY <1>1, InvNext DEF WatchInv
<1> QED BY <1>1, <1>2 DEF WatchInv, TypeOK, PassStep, history, Inv

-----------------------------------------------------------------------------
(* The audit.                                                              *)

\* A pass that ends, for whatever reason, leaves the rows consistent.
LEMMA NoPassOK ==
  ASSUME WatchInv, NEW w \in Pass, watch' = w, w.pc \in {"idle", "snapshot"},
         w.todo = {}, w.cur = None, UNCHANGED <<row, bar, claimed, unpaid>>,
         \A s \in Symbols : /\ w.class[s] = "clear" /\ w.deferred[s] = "none"
                            /\ point'[s] = point[s],
         watch.pc \notin {"failed", "charge", "verify", "log", "settle"}
  PROVE  CurIsOwed' /\ \A s \in Symbols : SymbolOK(s)'
<1>1. CurIsOwed'
  BY DEF CurIsOwed, MayCharge, Cur, Repairing
<1>2. ASSUME NEW s \in Symbols PROVE SymbolOK(s)'
  <2>1. SymbolOK(s) /\ w.class[s] = "clear" /\ w.deferred[s] = "none"
          /\ point'[s] = point[s]
    BY DEF WatchInv
  <2> QED BY <2>1 DEF SymbolOK, Claimed, Audited, Queued, Repaired, Paid,
                      Placed, Queueing
<1> QED BY <1>1, <1>2

LEMMA StartPassStep == ASSUME WatchInv, StartPass PROVE WatchInv'
<1>1. PICK n : n = NoPass
  OBVIOUS
<1>2. PICK w : w = [n EXCEPT !.pc = "snapshot"]
  OBVIOUS
<1>3. n \in Pass /\ n.todo = {} /\ n.cur = None
        /\ \A s \in Symbols : n.class[s] = "clear" /\ n.deferred[s] = "none"
  BY <1>1, NoPassFits
<1>4. w \in Pass /\ w.pc = "snapshot" /\ w.todo = {} /\ w.cur = None /\ w.class = n.class
        /\ w.deferred = n.deferred
  BY <1>2, <1>3 DEF Pass, Steps
<1>5. watch' = w /\ PassStep /\ UNCHANGED stores /\ watch.pc = "idle"
  BY <1>1, <1>2 DEF StartPass, Waiting
<1>6. Inv' /\ TypeOK'
  BY <1>4, <1>5, PassKeeps DEF WatchInv, TypeOK, stores
<1>7. UNCHANGED <<row, bar, claimed, unpaid, point>>
  BY <1>5 DEF PassStep, refreshVars, market, history, stores
<1>8. CurIsOwed' /\ \A s \in Symbols : SymbolOK(s)'
  BY <1>3, <1>4, <1>5, <1>7, NoPassOK
<1> QED BY <1>6, <1>8 DEF WatchInv

LEMMA SnapshotStep == ASSUME WatchInv, Snapshot PROVE WatchInv'
<1>1. PICK d : d = Deferrals
  OBVIOUS
<1>2. row.outcomes \in [Symbols -> Outcomes] /\ watch \in Pass
  BY DEF WatchInv, Inv, RefreshTypeOK, TypeOK
<1>3. d \in [Symbols -> Outcomes]
        /\ \A s \in Symbols : d[s] # "none" =>
             row.status = "COMPLETED" /\ row.outcomes[s] \in Deferred
  BY <1>1, <1>2 DEF Deferrals, Outcomes
<1>4. PICK w : w = [watch EXCEPT !.pc = "audit", !.deferred = d]
  OBVIOUS
<1>5. w \in Pass /\ w.pc = "audit" /\ w.deferred = d /\ w.class = watch.class
        /\ w.cur = watch.cur /\ w.todo = watch.todo
  BY <1>2, <1>3, <1>4 DEF Pass, Steps
<1>6. watch' = w /\ PassStep /\ UNCHANGED stores /\ watch.pc = "snapshot"
  BY <1>1, <1>4 DEF Snapshot, Waiting
<1>7. Inv' /\ TypeOK'
  BY <1>5, <1>6, PassKeeps DEF WatchInv, TypeOK, stores
<1>8. UNCHANGED <<row, bar, claimed, unpaid, point>>
  BY <1>6 DEF PassStep, refreshVars, market, history, stores
<1>9. CurIsOwed'
  BY <1>5, <1>6 DEF WatchInv, CurIsOwed, MayCharge, Cur, Repairing
<1>10. ASSUME NEW s \in Symbols PROVE SymbolOK(s)'
  <2>1. SymbolOK(s)
    BY DEF WatchInv
  <2> QED BY <1>3, <1>5, <1>6, <1>8, <2>1
       DEF SymbolOK, Claimed, Audited, Queued, Repaired, Paid, Placed, Queueing
<1> QED BY <1>7, <1>9, <1>10 DEF WatchInv

LEMMA AuditStep == ASSUME WatchInv, Audit PROVE WatchInv'
<1>1. PICK c : c = [s \in Symbols |-> Classify(s, watch.deferred[s])]
  OBVIOUS
<1>2. watch \in Pass /\ bar \in [Symbols -> Bars]
  BY DEF WatchInv, TypeOK, RefreshTypeOK
<1>3. ASSUME NEW s \in Symbols
      PROVE  /\ c[s] \in Classes
             /\ c[s] = "scheduled" => watch.deferred[s] # "none"
             /\ c[s] = "work" /\ ~Starved => watch.deferred[s] = "none"
             /\ bar[s] = "now" => c[s] = "clear"
  <2>1. bar[s] \in {"none", "old", "lag", "now"}
    BY <1>2 DEF Bars
  <2>2. c[s] = Classify(s, watch.deferred[s])
    BY <1>1
  <2>3. CASE bar[s] \in {"now", "lag"}
    BY <2>2, <2>3 DEF Classify, Classes
  <2>4. CASE bar[s] = "none" \/ (bar[s] = "old" /\ s \in retired)
    BY <2>2, <2>4 DEF Classify, Classes
  <2>5. CASE bar[s] = "old" /\ s \notin retired
    BY <2>2, <2>5 DEF Classify, Classes
  <2> QED BY <2>1, <2>3, <2>4, <2>5
<1>4. c \in [Symbols -> Classes]
  BY <1>1, <1>3
<1>5. PICK w : w = [watch EXCEPT !.pc = "guard", !.class = c]
  OBVIOUS
<1>6. w \in Pass /\ w.pc = "guard" /\ w.deferred = watch.deferred /\ w.class = c
        /\ w.cur = watch.cur /\ w.todo = watch.todo
  BY <1>2, <1>4, <1>5 DEF Pass, Steps
<1>7. watch' = w /\ PassStep /\ UNCHANGED stores /\ watch.pc = "audit"
  BY <1>1, <1>5 DEF Audit, Waiting
<1>8. Inv' /\ TypeOK'
  BY <1>6, <1>7, PassKeeps DEF WatchInv, TypeOK, stores
<1>9. UNCHANGED <<row, bar, claimed, unpaid, point>>
  BY <1>7 DEF PassStep, refreshVars, market, history, stores
<1>10. CurIsOwed'
  BY <1>6, <1>7 DEF WatchInv, CurIsOwed, MayCharge, Cur, Repairing
<1>11. ASSUME NEW s \in Symbols PROVE SymbolOK(s)'
  <2>1. SymbolOK(s)
    BY DEF WatchInv
  <2> QED BY <1>3, <1>6, <1>7, <1>9, <2>1
       DEF SymbolOK, Claimed, Audited, Queued, Repaired, Paid, Placed, Queueing
<1> QED BY <1>8, <1>10, <1>11 DEF WatchInv

LEMMA SyncQuarantineStep == ASSUME WatchInv, SyncQuarantine PROVE WatchInv'
<1>1. PICK n : n = NoPass
  OBVIOUS
<1>2. watch.pc = "guard" /\ watch \in Pass /\ PassStep
  BY DEF SyncQuarantine, Waiting, WatchInv, TypeOK
<1>3. UNCHANGED <<row, bar, claimed, unpaid, point, checkpoint>>
        /\ quarantine' \subseteq Symbols
  BY DEF SyncQuarantine, PassStep, refreshVars, market, history, Stale
<1>4. CASE watch' = n
  <2>1. n \in Pass /\ n.pc = "idle" /\ n.todo = {} /\ n.cur = None
          /\ \A s \in Symbols : n.class[s] = "clear" /\ n.deferred[s] = "none"
    BY <1>1, NoPassFits
  <2>2. Inv' /\ TypeOK'
    BY <1>2, <1>3, <1>4, <2>1, PassKeeps DEF WatchInv, TypeOK
  <2>3. CurIsOwed' /\ \A s \in Symbols : SymbolOK(s)'
    BY <1>2, <1>3, <1>4, <2>1, NoPassOK
  <2> QED BY <2>2, <2>3 DEF WatchInv
<1>5. CASE watch' = [watch EXCEPT !.pc = "open"]
  <2>1. PICK w : w = [watch EXCEPT !.pc = "open"]
    OBVIOUS
  <2>2. watch' = w /\ w \in Pass /\ w.pc = "open" /\ w.deferred = watch.deferred
          /\ w.class = watch.class /\ w.cur = watch.cur /\ w.todo = watch.todo
    BY <1>2, <1>5, <2>1 DEF Pass, Steps
  <2>3. Inv' /\ TypeOK'
    BY <1>2, <1>3, <2>2, PassKeeps DEF WatchInv, TypeOK
  <2>4. CurIsOwed'
    BY <1>2, <2>2 DEF WatchInv, CurIsOwed, MayCharge, Cur, Repairing
  <2>5. ASSUME NEW s \in Symbols PROVE SymbolOK(s)'
    <3>1. SymbolOK(s)
      BY DEF WatchInv
    <3> QED BY <1>2, <1>3, <2>2, <3>1
         DEF SymbolOK, Claimed, Audited, Queued, Repaired, Paid, Placed, Queueing
  <2> QED BY <2>3, <2>4, <2>5 DEF WatchInv
<1> QED BY <1>1, <1>4, <1>5 DEF SyncQuarantine

-----------------------------------------------------------------------------
(* The checkpoint.                                                         *)

Rows == [Symbols -> [disposition : Dispositions, attempts : Nat]]

LEMMA RowSettled ==
  ASSUME point \in Rows, NEW s \in Symbols, NEW d \in Dispositions,
         point' = [point EXCEPT ![s].disposition = d]
  PROVE  /\ point' \in Rows
         /\ \A t \in Symbols :
              /\ point'[t].attempts = point[t].attempts
              /\ point'[t].disposition = IF t = s THEN d ELSE point[t].disposition
<1>1. PICK r : r = [point[s] EXCEPT !.disposition = d]
  OBVIOUS
<1>2. /\ r \in [disposition : Dispositions, attempts : Nat]
      /\ r.disposition = d /\ r.attempts = point[s].attempts
  BY <1>1 DEF Rows
<1>3. point' = [point EXCEPT ![s] = r]
  BY <1>1 DEF Rows
<1> QED BY <1>2, <1>3 DEF Rows

LEMMA RowCharged ==
  ASSUME point \in Rows, NEW s \in Symbols,
         point' = [point EXCEPT ![s].attempts = @ + 1]
  PROVE  /\ point' \in Rows
         /\ \A t \in Symbols :
              /\ point'[t].disposition = point[t].disposition
              /\ point'[t].attempts = IF t = s THEN point[t].attempts + 1
                                      ELSE point[t].attempts
<1>1. PICK r : r = [point[s] EXCEPT !.attempts = @ + 1]
  OBVIOUS
<1>2. point[s] \in [disposition : Dispositions, attempts : Nat]
  BY DEF Rows
<1>3. /\ r \in [disposition : Dispositions, attempts : Nat]
      /\ r.disposition = point[s].disposition /\ r.attempts = point[s].attempts + 1
  BY <1>1, <1>2
<1>4. point' = [point EXCEPT ![s] = r]
  BY <1>1 DEF Rows
<1> QED BY <1>3, <1>4 DEF Rows

LEMMA OpenCheckpointStep == ASSUME WatchInv, OpenCheckpoint PROVE WatchInv'
<1>1. watch.pc = "open" /\ watch \in Pass /\ PassStep
        /\ UNCHANGED <<row, bar, claimed, unpaid, point, quarantine>>
  BY DEF OpenCheckpoint, Waiting, WatchInv, TypeOK, PassStep, refreshVars, market, history
<1>2. PICK todo : todo = Stale \cup Exceptions
  OBVIOUS
<1>3. todo \subseteq Symbols
        /\ \A s \in Symbols : s \in todo <=> watch.class[s] # "clear"
  BY <1>1, <1>2 DEF Stale, Exceptions, Pass, Classes
<1>4. PICK w : w = [watch EXCEPT !.pc = "seed", !.todo = todo]
  OBVIOUS
<1>5. w \in Pass /\ w.pc = "seed" /\ w.deferred = watch.deferred
        /\ w.class = watch.class /\ w.cur = watch.cur /\ w.todo = todo
  BY <1>1, <1>3, <1>4 DEF Pass, Steps
<1>6. watch' = w
  BY <1>2, <1>4 DEF OpenCheckpoint
<1>7. checkpoint' \in {"none", "RUNNING", "ESCALATED", "COMPLETED"}
  BY DEF OpenCheckpoint, WatchInv, TypeOK
<1>8. Inv' /\ TypeOK'
  BY <1>1, <1>5, <1>6, <1>7, PassKeeps DEF WatchInv, TypeOK
<1>9. CurIsOwed'
  BY <1>1, <1>5, <1>6 DEF WatchInv, CurIsOwed, MayCharge, Cur, Repairing
<1>10. ASSUME NEW s \in Symbols PROVE SymbolOK(s)'
  <2>1. SymbolOK(s)
    BY DEF WatchInv
  <2> QED BY <1>1, <1>3, <1>5, <1>6, <2>1
       DEF SymbolOK, Claimed, Audited, Queued, Repaired, Paid, Placed, Queueing
<1> QED BY <1>8, <1>9, <1>10 DEF WatchInv

LEMMA SeedSymbolStep == ASSUME WatchInv, SeedSymbol PROVE WatchInv'
<1>1. watch.pc = "seed" /\ watch \in Pass /\ PassStep /\ watch.todo # {}
        /\ UNCHANGED <<row, bar, claimed, unpaid, checkpoint, quarantine>>
        /\ watch.todo \subseteq Symbols
  BY DEF SeedSymbol, Waiting, WatchInv, TypeOK, PassStep, refreshVars, market,
         history, Pass
<1>2. PICK s : s = IF watch.todo \cap Stale # {} THEN Min(watch.todo \cap Stale)
                   ELSE Min(watch.todo)
  OBVIOUS
<1>3. s \in watch.todo /\ s \in Symbols
  <2>1. CASE watch.todo \cap Stale # {}
    <3>1. PICK S : S = watch.todo \cap Stale
      OBVIOUS
    <3>2. Min(S) \in S
      BY <1>1, <2>1, <3>1, MinIn
    <3> QED BY <1>1, <1>2, <2>1, <3>1, <3>2
  <2>2. CASE watch.todo \cap Stale = {}
    <3>1. PICK S : S = watch.todo
      OBVIOUS
    <3>2. Min(S) \in S
      BY <1>1, <3>1, MinIn
    <3> QED BY <1>1, <1>2, <2>2, <3>1, <3>2
  <2> QED BY <2>1, <2>2
<1>4. PICK d : d = IF point[s].disposition = "none" THEN "PENDING"
                   ELSE point[s].disposition
  OBVIOUS
<1>5. point \in Rows
  BY DEF WatchInv, TypeOK, Rows
<1>6. d \in Dispositions /\ d # "none"
  BY <1>3, <1>4, <1>5 DEF Rows, Dispositions
<1>7. point' = [point EXCEPT ![s].disposition = d]
  BY <1>2, <1>4 DEF SeedSymbol
<1>8. /\ point' \in Rows
      /\ \A t \in Symbols :
           /\ point'[t].attempts = point[t].attempts
           /\ point'[t].disposition = IF t = s THEN d ELSE point[t].disposition
  BY <1>3, <1>5, <1>6, <1>7, RowSettled
<1>9. PICK w : w = [watch EXCEPT !.pc = "mark", !.cur = s, !.todo = watch.todo \ {s}]
  OBVIOUS
<1>10. w \in Pass /\ w.pc = "mark" /\ w.deferred = watch.deferred
         /\ w.class = watch.class /\ w.cur = s /\ w.todo = watch.todo \ {s}
  BY <1>1, <1>3, <1>9 DEF Pass, Steps
<1>11. watch' = w
  BY <1>2, <1>9 DEF SeedSymbol
<1>12. Inv' /\ TypeOK'
  BY <1>1, <1>8, <1>10, <1>11, PassKeeps DEF WatchInv, TypeOK, Rows
<1>13. CurIsOwed'
  <2>1. watch.class[s] # "clear"
    BY <1>1, <1>3 DEF WatchInv, SymbolOK, Audited
  <2> QED BY <1>3, <1>6, <1>8, <1>10, <1>11, <2>1 DEF CurIsOwed, MayCharge, Cur, Repairing
<1>14. ASSUME NEW t \in Symbols PROVE SymbolOK(t)'
  <2>1. SymbolOK(t) /\ watch.cur = None
    BY <1>1 DEF WatchInv, CurIsOwed, MayCharge, Cur, Repairing
  <2>2. t # None
    BY NoneFresh
  <2> QED BY <1>1, <1>3, <1>4, <1>8, <1>10, <1>11, <2>1, <2>2
       DEF SymbolOK, Claimed, Audited, Queued, Repaired, Paid, Placed, Queueing
<1> QED BY <1>12, <1>13, <1>14 DEF WatchInv

LEMMA MarkSymbolStep == ASSUME WatchInv, MarkSymbol PROVE WatchInv'
<1>1. watch.pc = "mark" /\ watch \in Pass /\ PassStep
        /\ UNCHANGED <<row, bar, claimed, unpaid, checkpoint, quarantine>>
  BY DEF MarkSymbol, Waiting, WatchInv, TypeOK, PassStep, refreshVars, market, history
<1>2. PICK s : s = watch.cur
  OBVIOUS
<1>3. /\ s \in Symbols /\ s \notin watch.todo /\ watch.class[s] # "clear"
      /\ point[s].disposition # "none"
  BY <1>1, <1>2 DEF WatchInv, CurIsOwed, Cur
<1>4. PICK d : d = Marked(watch.class[s], point[s].disposition)
  OBVIOUS
<1>5. point \in Rows
  BY DEF WatchInv, TypeOK, Rows
<1>6. /\ d \in Dispositions /\ Placed(watch.class[s], d)
      /\ d = "DEFERRED" => watch.class[s] = "scheduled"
      /\ d = "REPAIRED" => point[s].disposition = "REPAIRED"
  <2>1. /\ watch.class[s] \in {"work", "scheduled", "exception"}
        /\ point[s].disposition \in {"PENDING", "DEFERRED"} \cup Verdicts
    BY <1>1, <1>3, <1>5 DEF Pass, Classes, Rows, Dispositions
  <2>2. CASE watch.class[s] = "scheduled"
    BY <1>4, <2>2 DEF Marked, Placed, Dispositions
  <2>3. CASE watch.class[s] = "exception"
    BY <1>4, <2>3 DEF Marked, Placed, Dispositions, Verdicts
  <2>4. CASE watch.class[s] = "work"
    BY <1>4, <2>1, <2>4 DEF Marked, Placed, Dispositions, Verdicts
  <2> QED BY <2>1, <2>2, <2>3, <2>4
<1>7. point' = [point EXCEPT ![s].disposition = d]
  BY <1>2, <1>4 DEF MarkSymbol, Cur
<1>8. /\ point' \in Rows
      /\ \A t \in Symbols :
           /\ point'[t].attempts = point[t].attempts
           /\ point'[t].disposition = IF t = s THEN d ELSE point[t].disposition
  BY <1>3, <1>5, <1>6, <1>7, RowSettled
<1>9. PICK w : w = [watch EXCEPT !.pc = "seed", !.cur = None]
  OBVIOUS
<1>10. w \in Pass /\ w.pc = "seed" /\ w.deferred = watch.deferred
         /\ w.class = watch.class /\ w.cur = None /\ w.todo = watch.todo
  BY <1>1, <1>9 DEF Pass, Steps
<1>11. watch' = w
  BY <1>9 DEF MarkSymbol
<1>12. Inv' /\ TypeOK'
  BY <1>1, <1>8, <1>10, <1>11, PassKeeps DEF WatchInv, TypeOK, Rows
<1>13. CurIsOwed'
  BY <1>10, <1>11 DEF CurIsOwed, MayCharge, Cur, Repairing
<1>14. ASSUME NEW t \in Symbols PROVE SymbolOK(t)'
  <2>1. SymbolOK(t)
    BY DEF WatchInv
  <2>2. CASE t = s
    <3>1. point[s].disposition # "REPAIRED" /\ unpaid[s] # 1
            /\ (d = "DEFERRED" => s \in claimed)
      BY <1>1, <1>3, <1>6, <2>1, <2>2 DEF SymbolOK, Claimed, Audited, Repaired, Paid
    <3> QED BY <1>1, <1>2, <1>6, <1>8, <1>10, <1>11, <2>1, <2>2, <3>1
         DEF SymbolOK, Claimed, Audited, Queued, Repaired, Paid, Queueing
  <2>3. CASE t # s
    BY <1>1, <1>2, <1>8, <1>10, <1>11, <2>1, <2>3
    DEF SymbolOK, Claimed, Audited, Queued, Repaired, Paid, Queueing
  <2> QED BY <2>2, <2>3
<1> QED BY <1>12, <1>13, <1>14 DEF WatchInv

LEMMA ReadPendingStep == ASSUME WatchInv, ReadPending PROVE WatchInv'
<1>1. watch.pc = "seed" /\ watch.todo = {} /\ watch \in Pass /\ PassStep
        /\ UNCHANGED <<row, bar, claimed, unpaid, point, checkpoint, quarantine>>
        /\ watch.cur = None
  BY DEF ReadPending, Waiting, WatchInv, TypeOK, PassStep, refreshVars, market,
         history, stores, CurIsOwed, MayCharge, Cur, Repairing
<1>2. PICK todo : /\ todo \subseteq {s \in Symbols : point[s].disposition = "PENDING"}
                  /\ watch' = [watch EXCEPT !.pc = "next", !.todo = todo]
  BY DEF ReadPending
<1>3. PICK w : w = [watch EXCEPT !.pc = "next", !.todo = todo]
  OBVIOUS
<1>4. w \in Pass /\ w.pc = "next" /\ w.deferred = watch.deferred
        /\ w.class = watch.class /\ w.cur = watch.cur /\ w.todo = todo
  BY <1>1, <1>2, <1>3 DEF Pass, Steps
<1>5. watch' = w
  BY <1>2, <1>3
<1>6. Inv' /\ TypeOK'
  BY <1>1, <1>4, <1>5, PassKeeps DEF WatchInv, TypeOK
<1>7. CurIsOwed'
  BY <1>1, <1>4, <1>5 DEF CurIsOwed, MayCharge, Cur, Repairing
<1>8. ASSUME NEW s \in Symbols PROVE SymbolOK(s)'
  <2>1. SymbolOK(s) /\ s # None
    BY NoneFresh DEF WatchInv
  <2> QED BY <1>1, <1>2, <1>4, <1>5, <2>1
       DEF SymbolOK, Claimed, Audited, Queued, Repaired, Paid, Queueing
<1> QED BY <1>6, <1>7, <1>8 DEF WatchInv

-----------------------------------------------------------------------------
(* The repair.                                                             *)

LEMMA GiveUpStep == ASSUME WatchInv, GiveUp PROVE WatchInv'
<1>1. watch.pc = "next" /\ watch \in Pass /\ PassStep /\ watch.todo # {}
        /\ UNCHANGED <<row, bar, claimed, unpaid, checkpoint, quarantine>>
        /\ watch.todo \subseteq Symbols /\ point \in Rows
  BY DEF GiveUp, Waiting, WatchInv, TypeOK, PassStep, refreshVars, market,
         history, Pass, Rows
<1>2. PICK s : s = Min(watch.todo)
  OBVIOUS
<1>3. s \in watch.todo /\ s \in Symbols
  <2>1. PICK S : S = watch.todo
    OBVIOUS
  <2> QED BY <1>1, <1>2, <2>1, MinIn
<1>4. "UNRESOLVED" \in Dispositions /\ "UNRESOLVED" \in Verdicts
  BY DEF Dispositions, Verdicts
<1>5. point' = [point EXCEPT ![s].disposition = "UNRESOLVED"]
  BY <1>2 DEF GiveUp, Settle
<1>6. /\ point' \in Rows
      /\ \A t \in Symbols :
           /\ point'[t].attempts = point[t].attempts
           /\ point'[t].disposition = IF t = s THEN "UNRESOLVED"
                                      ELSE point[t].disposition
  BY <1>1, <1>3, <1>4, <1>5, RowSettled
<1>7. PICK w : w = [watch EXCEPT !.todo = watch.todo \ {s}, !.escalated = TRUE]
  OBVIOUS
<1>8. w \in Pass /\ w.pc = "next" /\ w.deferred = watch.deferred
        /\ w.class = watch.class /\ w.cur = watch.cur /\ w.todo = watch.todo \ {s}
  BY <1>1, <1>7 DEF Pass
<1>9. watch' = w
  BY <1>2, <1>7 DEF GiveUp
<1>10. Inv' /\ TypeOK'
  BY <1>1, <1>6, <1>8, <1>9, PassKeeps DEF WatchInv, TypeOK, Rows
<1>11. watch.cur = None
  BY <1>1 DEF WatchInv, CurIsOwed, MayCharge, Cur, Repairing
<1>12. CurIsOwed'
  BY <1>8, <1>9, <1>11 DEF CurIsOwed, MayCharge, Cur, Repairing
<1>13. ASSUME NEW t \in Symbols PROVE SymbolOK(t)'
  <2>1. SymbolOK(t) /\ t # None
    BY NoneFresh DEF WatchInv
  <2> QED BY <1>1, <1>3, <1>4, <1>6, <1>8, <1>9, <1>11, <2>1
       DEF SymbolOK, Claimed, Audited, Queued, Repaired, Paid, Placed, Queueing,
           Verdicts
<1> QED BY <1>10, <1>12, <1>13 DEF WatchInv

LEMMA TakeSymbolStep == ASSUME WatchInv, TakeSymbol PROVE WatchInv'
<1>1. watch.pc = "next" /\ watch \in Pass /\ PassStep /\ watch.todo # {}
        /\ UNCHANGED <<row, bar, claimed, unpaid, point, checkpoint, quarantine>>
        /\ watch.todo \subseteq Symbols /\ point \in Rows
  BY DEF TakeSymbol, Waiting, WatchInv, TypeOK, PassStep, refreshVars, market,
         history, stores, Pass, Rows
<1>2. PICK s : s = Min(watch.todo)
  OBVIOUS
<1>3. s \in watch.todo /\ s \in Symbols
  <2>1. PICK S : S = watch.todo
    OBVIOUS
  <2> QED BY <1>1, <1>2, <2>1, MinIn
<1>4. PICK n \in Nat : n = point[s].attempts /\ n < MaxTotal
  BY <1>1, <1>2, <1>3 DEF TakeSymbol, Rows
<1>5. PICK w : w = [watch EXCEPT !.pc = "try", !.todo = watch.todo \ {s}, !.cur = s,
                                 !.total = n, !.used = 0]
  OBVIOUS
<1>6. 0 \in 0..MaxPerRun /\ 0 < MaxPerRun
  BY WatchAssumption
<1>7. w \in Pass /\ w.pc = "try" /\ w.deferred = watch.deferred
        /\ w.class = watch.class /\ w.cur = s /\ w.todo = watch.todo \ {s}
        /\ w.total = n /\ w.used = 0
  BY <1>1, <1>3, <1>4, <1>5, <1>6 DEF Pass, Steps
<1>8. watch' = w
  BY <1>2, <1>4, <1>5 DEF TakeSymbol
<1>9. Inv' /\ TypeOK'
  BY <1>1, <1>7, <1>8, PassKeeps DEF WatchInv, TypeOK
<1>10. point[s].disposition = "PENDING"
  BY <1>1, <1>3 DEF WatchInv, SymbolOK, Queued, Queueing
<1>11. CurIsOwed'
  BY <1>1, <1>3, <1>4, <1>6, <1>7, <1>8, <1>10 DEF CurIsOwed, MayCharge, Cur, Repairing
<1>12. ASSUME NEW t \in Symbols PROVE SymbolOK(t)'
  <2>1. SymbolOK(t)
    BY DEF WatchInv
  <2> QED BY <1>1, <1>7, <1>8, <2>1
       DEF SymbolOK, Claimed, Audited, Queued, Repaired, Paid, Placed, Queueing
<1> QED BY <1>9, <1>11, <1>12 DEF WatchInv

LEMMA LeaveQueueStep == ASSUME WatchInv, LeaveQueue PROVE WatchInv'
<1>1. watch.pc = "next" /\ watch \in Pass /\ PassStep
        /\ UNCHANGED <<row, bar, claimed, unpaid, point, checkpoint, quarantine>>
  BY DEF LeaveQueue, Waiting, WatchInv, TypeOK, PassStep, refreshVars, market,
         history, stores
<1>2. PICK w : w = [watch EXCEPT !.pc = "close", !.todo = {}]
  OBVIOUS
<1>3. w \in Pass /\ w.pc = "close" /\ w.deferred = watch.deferred
        /\ w.class = watch.class /\ w.cur = watch.cur /\ w.todo = {}
  BY <1>1, <1>2 DEF Pass, Steps
<1>4. watch' = w
  BY <1>2 DEF LeaveQueue
<1>5. Inv' /\ TypeOK'
  BY <1>1, <1>3, <1>4, PassKeeps DEF WatchInv, TypeOK
<1>6. CurIsOwed'
  BY <1>3, <1>4 DEF CurIsOwed, MayCharge, Cur, Repairing
<1>7. ASSUME NEW t \in Symbols PROVE SymbolOK(t)'
  <2>1. SymbolOK(t)
    BY DEF WatchInv
  <2> QED BY <1>1, <1>3, <1>4, <2>1
       DEF SymbolOK, Claimed, Audited, Queued, Repaired, Paid, Placed, Queueing
<1> QED BY <1>5, <1>6, <1>7 DEF WatchInv

\* A step outside the refresh that leaves its row and its invocations alone.
LEMMA MarketMoves ==
  ASSUME Inv, UNCHANGED <<row, inv, retired>>, bar' \in [Symbols -> Bars],
         reserved' \subseteq Symbols, ledger' \in [Symbols -> Attempts],
         failing' \subseteq Symbols
  PROVE  Inv'
<1>1. RefreshTypeOK'
  BY DEF Inv, RefreshTypeOK
<1>2. \A i \in Invocations : AccountOK(inv[i])'
  BY DEF Inv, AccountOK, InActive
<1>3. ReportIsNewest'
  BY DEF Inv, ReportIsNewest, At
<1> QED BY <1>1, <1>2, <1>3 DEF Inv

LEMMA FetchedKeepsNow ==
  ASSUME Inv, NEW s \in Symbols, NEW result \in Attempts, Fetched(s, result)
  PROVE  \A t \in Symbols : bar[t] = "now" => bar'[t] = "now"
<1>1. CASE UNCHANGED bar
  BY <1>1
<1>2. CASE \E b \in Advanced(bar[s]) : bar' = [bar EXCEPT ![s] = b]
  <2>1. PICK b \in Advanced(bar[s]) : bar' = [bar EXCEPT ![s] = b]
    BY <1>2
  <2>2. bar[s] = "now" => b = "now"
    BY DEF Advanced
  <2> QED BY <2>1, <2>2 DEF Inv, RefreshTypeOK
<1> QED BY <1>1, <1>2 DEF Fetched

LEMMA TryFetchStep == ASSUME WatchInv, TryFetch PROVE WatchInv'
<1>1. watch.pc = "try" /\ watch \in Pass /\ point \in Rows
        /\ UNCHANGED <<row, ledger, failing, retired, inv, point, checkpoint,
                       quarantine, claimed>>
  BY DEF TryFetch, Waiting, WatchInv, TypeOK, Rows, stores
<1>2. PICK s : s = watch.cur
  OBVIOUS
<1>3. /\ s \in Symbols /\ s \notin watch.todo /\ point[s].disposition = "PENDING"
      /\ watch.total = point[s].attempts /\ watch.total < MaxTotal
      /\ watch.used < MaxPerRun
  BY <1>1, <1>2 DEF WatchInv, CurIsOwed, MayCharge, Cur, Repairing
<1>a. PICK result \in Attempts :
        /\ Fetched(s, result)
        /\ unpaid' = [unpaid EXCEPT ![s] =
                        IF result = "QUOTA" THEN @ ELSE Least(@ + 1, 2)]
        /\ \E seen \in {result} \cup (IF result = "ERROR" /\ s \in reserved
                                       THEN {"FATAL"} ELSE {}) :
             watch' = [watch EXCEPT
               !.used = @ + 1, !.result = seen,
               !.pc = IF seen \in {"ERROR", "FATAL"} THEN "failed"
                      ELSE IF seen = "QUOTA" THEN "close" ELSE "verify",
               !.todo = IF seen = "QUOTA" THEN {} ELSE @]
  BY <1>2 DEF TryFetch, Cur
<1>4. PICK seen \in Attempts \cup {"FATAL"} :
        /\ Fetched(s, result)
        /\ unpaid' = [unpaid EXCEPT ![s] =
                        IF result = "QUOTA" THEN @ ELSE Least(@ + 1, 2)]
        /\ seen = result \/ (seen = "FATAL" /\ result = "ERROR")
        /\ watch' = [watch EXCEPT
              !.used = @ + 1, !.result = seen,
              !.pc = IF seen \in {"ERROR", "FATAL"} THEN "failed"
                     ELSE IF seen = "QUOTA" THEN "close" ELSE "verify",
              !.todo = IF seen = "QUOTA" THEN {} ELSE @]
  BY <1>a
<1>5. result \in {"SUCCESS", "EMPTY", "ERROR", "QUOTA"}
  BY <1>4 DEF Fetched, Attempts
<1>6. PICK used : used = watch.used + 1 /\ used \in 0..MaxPerRun
  BY <1>1, <1>3, WatchAssumption DEF Pass
<1>7. PICK pc \in Steps : pc = IF seen \in {"ERROR", "FATAL"} THEN "failed"
                               ELSE IF seen = "QUOTA" THEN "close" ELSE "verify"
  BY DEF Steps
<1>8. PICK todo \in SUBSET Symbols : todo = IF seen = "QUOTA" THEN {} ELSE watch.todo
  BY <1>1 DEF Pass
<1>9. PICK w : w = [watch EXCEPT !.used = used, !.result = seen, !.pc = pc,
                                 !.todo = todo]
  OBVIOUS
<1>10. w \in Pass /\ w.pc = pc /\ w.deferred = watch.deferred
         /\ w.class = watch.class /\ w.cur = s /\ w.todo = todo
         /\ w.total = watch.total /\ w.result = seen
  BY <1>1, <1>2, <1>6, <1>9 DEF Pass
<1>11. watch' = w
  BY <1>4, <1>6, <1>7, <1>8, <1>9
<1>12. bar' \in [Symbols -> Bars] /\ reserved' \subseteq Symbols
         /\ \A t \in Symbols : bar[t] = "now" => bar'[t] = "now"
  BY <1>3, <1>4, FetchedType, FetchedKeepsNow DEF WatchInv
<1>13. Inv'
  BY <1>1, <1>12, MarketMoves DEF WatchInv, Inv, RefreshTypeOK
<1>14. unpaid[s] = 0
  <2>1. Paid(s) /\ unpaid[s] \in 0..2
    BY <1>3 DEF WatchInv, SymbolOK, TypeOK
  <2> QED BY <1>1, <1>3, <2>1 DEF Paid
<1>15. PICK n \in {0, 1} : n = IF result = "QUOTA" THEN 0 ELSE 1
  OBVIOUS
<1>16. unpaid' = [unpaid EXCEPT ![s] = n] /\ unpaid \in [Symbols -> 0..2]
  BY <1>4, <1>14, <1>15 DEF Least, WatchInv, TypeOK
<1>17. unpaid' \in [Symbols -> 0..2]
         /\ \A t \in Symbols : unpaid'[t] = IF t = s THEN n ELSE unpaid[t]
  BY <1>3, <1>16
<1>18. TypeOK'
  BY <1>1, <1>10, <1>11, <1>13, <1>17 DEF WatchInv, TypeOK, Inv
<1>19. CurIsOwed'
  <2>1. w.todo \subseteq watch.todo /\ w.total < MaxTotal /\ UNCHANGED point
    BY <1>1, <1>3, <1>8, <1>10
  <2>2. \/ w.pc = "failed" /\ w.result \in {"ERROR", "FATAL"}
        \/ w.pc = "close"
        \/ w.pc = "verify" /\ w.result \in {"SUCCESS", "EMPTY"}
    BY <1>4, <1>5, <1>7, <1>10
  <2> QED BY <1>3, <1>10, <1>11, <2>1, <2>2 DEF CurIsOwed, MayCharge, Cur, Repairing
<1>20. ASSUME NEW t \in Symbols PROVE SymbolOK(t)'
  <2>1. SymbolOK(t)
    BY DEF WatchInv
  <2>2. Claimed(t)' /\ Audited(t)' /\ Queued(t)'
    BY <1>1, <1>7, <1>8, <1>10, <1>11, <2>1
    DEF SymbolOK, Claimed, Audited, Queued, Placed, Queueing
  <2>3. Repaired(t)'
    BY <1>1, <1>7, <1>10, <1>11, <1>12, <2>1 DEF SymbolOK, Repaired
  <2>4. Paid(t)'
    <3>1. CASE t = s
      <4>1. n = 1 => pc = "failed" \/ (pc = "verify" /\ seen \in {"SUCCESS", "EMPTY"})
        BY <1>4, <1>5, <1>7, <1>15
      <4>2. unpaid'[s] = n /\ n <= 1 /\ point'[s].attempts <= MaxTotal
        BY <1>1, <1>3, <1>15, <1>17, <2>1, <3>1 DEF SymbolOK, Paid
      <4> QED BY <1>10, <1>11, <3>1, <4>1, <4>2 DEF Paid
    <3>2. CASE t # s
      BY <1>1, <1>2, <1>10, <1>11, <1>17, <2>1, <3>2 DEF SymbolOK, Paid
    <3> QED BY <3>1, <3>2
  <2> QED BY <2>2, <2>3, <2>4 DEF SymbolOK
<1> QED BY <1>13, <1>18, <1>19, <1>20 DEF WatchInv

\* One attempt more in the row, one request less to account for.
LEMMA ChargeKeeps ==
  ASSUME WatchInv, NEW s \in Symbols, AddAttempt(s), watch' \in Pass
  PROVE  /\ Inv' /\ TypeOK'
         /\ UNCHANGED <<row, bar, claimed>>
         /\ \A t \in Symbols :
              /\ point'[t].disposition = point[t].disposition
              /\ point'[t].attempts = IF t = s THEN point[t].attempts + 1
                                      ELSE point[t].attempts
              /\ unpaid'[t] = IF t = s THEN 0 ELSE unpaid[t]
<1>1. point \in Rows /\ unpaid \in [Symbols -> 0..2]
  BY DEF WatchInv, TypeOK, Rows
<1>2. UNCHANGED refreshVars /\ UNCHANGED <<row, bar, claimed, checkpoint, quarantine>>
  BY DEF AddAttempt, refreshVars, market
<1>3. Inv'
  BY <1>2, InvNext DEF WatchInv
<1>4. /\ point' \in Rows
      /\ \A t \in Symbols :
           /\ point'[t].disposition = point[t].disposition
           /\ point'[t].attempts = IF t = s THEN point[t].attempts + 1
                                   ELSE point[t].attempts
  BY <1>1, RowCharged DEF AddAttempt
<1>5. unpaid[s] \in {0, 1}
  BY <1>1 DEF WatchInv, SymbolOK, Paid
<1>6. PICK b \in Int : b = unpaid[s] - 1 /\ b <= 0
  BY <1>5
<1>7. PICK S : S = {0, b}
  OBVIOUS
<1>8. Max(S) = 0
  <2>1. 0 \in Int
    OBVIOUS
  <2>2. Max(S) \in {0, b} /\ Max(S) >= 0
    BY <1>7, <2>1, GreaterOf
  <2> QED BY <1>6, <2>2
<1>9. unpaid' = [unpaid EXCEPT ![s] = 0]
  BY <1>6, <1>7, <1>8 DEF AddAttempt
<1>10. unpaid' \in [Symbols -> 0..2]
         /\ \A t \in Symbols : unpaid'[t] = IF t = s THEN 0 ELSE unpaid[t]
  BY <1>1, <1>9
<1>11. TypeOK'
  BY <1>2, <1>3, <1>4, <1>10 DEF WatchInv, TypeOK, Rows, Inv
<1> QED BY <1>2, <1>3, <1>4, <1>10, <1>11

LEMMA RecordFailureStep == ASSUME WatchInv, RecordFailure PROVE WatchInv'
<1>1. watch.pc = "failed" /\ watch \in Pass /\ point \in Rows
  BY DEF RecordFailure, Waiting, WatchInv, TypeOK, Rows
<1>2. PICK s : s = watch.cur
  OBVIOUS
<1>3. /\ s \in Symbols /\ s \notin watch.todo /\ point[s].disposition = "PENDING"
      /\ watch.total = point[s].attempts /\ watch.total < MaxTotal
      /\ watch.result \in {"ERROR", "FATAL"}
  BY <1>1, <1>2 DEF WatchInv, CurIsOwed, MayCharge, Cur, Repairing
<1>4. PICK total \in Nat : total = point[s].attempts + 1 /\ total <= MaxTotal
  BY <1>1, <1>3, WatchAssumption DEF Rows
<1>5. PICK pc \in {"verify", "try"} :
        pc = IF watch.result = "FATAL" \/ total >= MaxTotal
                 \/ watch.used = MaxPerRun
               THEN "verify" ELSE "try"
  OBVIOUS
<1>6. pc = "try" => total < MaxTotal /\ watch.used < MaxPerRun
  BY <1>1, <1>4, <1>5, WatchAssumption DEF Pass
<1>7. PICK w : w = [watch EXCEPT !.total = total, !.pc = pc]
  OBVIOUS
<1>8. w \in Pass /\ w.pc = pc /\ w.deferred = watch.deferred
        /\ w.class = watch.class /\ w.cur = s /\ w.todo = watch.todo
        /\ w.total = total /\ w.result = watch.result /\ w.used = watch.used
  BY <1>1, <1>2, <1>5, <1>7 DEF Pass, Steps
<1>9. watch' = w /\ AddAttempt(s)
  BY <1>2, <1>4, <1>5, <1>7 DEF RecordFailure, Cur
<1>10. /\ Inv' /\ TypeOK'
       /\ UNCHANGED <<row, bar, claimed>>
       /\ \A t \in Symbols :
            /\ point'[t].disposition = point[t].disposition
            /\ point'[t].attempts = IF t = s THEN point[t].attempts + 1
                                    ELSE point[t].attempts
            /\ unpaid'[t] = IF t = s THEN 0 ELSE unpaid[t]
  BY <1>3, <1>8, <1>9, ChargeKeeps
<1>11. CurIsOwed'
  BY <1>3, <1>4, <1>5, <1>6, <1>8, <1>9, <1>10
  DEF CurIsOwed, MayCharge, Cur, Repairing
<1>12. ASSUME NEW t \in Symbols PROVE SymbolOK(t)'
  <2>1. SymbolOK(t)
    BY DEF WatchInv
  <2>2. Claimed(t)' /\ Audited(t)' /\ Queued(t)' /\ Repaired(t)'
    BY <1>1, <1>5, <1>8, <1>9, <1>10, <2>1
    DEF SymbolOK, Claimed, Audited, Queued, Repaired, Placed, Queueing
  <2>3. Paid(t)'
    BY <1>1, <1>2, <1>4, <1>8, <1>9, <1>10, <2>1 DEF SymbolOK, Paid
  <2> QED BY <2>2, <2>3 DEF SymbolOK
<1> QED BY <1>10, <1>11, <1>12 DEF WatchInv

LEMMA VerifyStep == ASSUME WatchInv, Verify PROVE WatchInv'
<1>1. watch.pc = "verify" /\ watch \in Pass /\ PassStep
        /\ UNCHANGED <<row, bar, claimed, unpaid, point, checkpoint, quarantine>>
  BY DEF Verify, Waiting, WatchInv, TypeOK, PassStep, refreshVars, market,
         history, stores
<1>2. PICK s : s = watch.cur
  OBVIOUS
<1>3. /\ s \in Symbols /\ s \notin watch.todo /\ point[s].disposition = "PENDING"
      /\ watch.total = point[s].attempts
      /\ watch.result \in {"SUCCESS", "EMPTY"} => watch.total < MaxTotal
      /\ watch.result \in {"SUCCESS", "EMPTY", "ERROR", "FATAL"}
  BY <1>1, <1>2 DEF WatchInv, CurIsOwed, MayCharge, Cur, Repairing
<1>4. PICK pc \in {"log", "charge", "settle"} :
        pc = IF watch.result = "EMPTY" \/ bar[s] = "now" THEN "log"
             ELSE IF watch.total < MaxTotal THEN "charge" ELSE "settle"
  OBVIOUS
<1>5. PICK result \in {"SUCCESS", "EMPTY", "ERROR"} :
        result = IF watch.result # "EMPTY" /\ bar[s] = "now" THEN "SUCCESS"
                 ELSE IF watch.result = "EMPTY" THEN watch.result ELSE "ERROR"
  OBVIOUS
<1>6. PICK w : w = [watch EXCEPT !.pc = pc, !.result = result]
  OBVIOUS
<1>7. w \in Pass /\ w.pc = pc /\ w.deferred = watch.deferred
        /\ w.class = watch.class /\ w.cur = s /\ w.todo = watch.todo
        /\ w.total = watch.total /\ w.result = result
  BY <1>1, <1>2, <1>6 DEF Pass, Steps, Attempts
<1>8. watch' = w
  BY <1>2, <1>4, <1>5, <1>6 DEF Verify, Cur
<1>9. Inv' /\ TypeOK'
  BY <1>1, <1>7, <1>8, PassKeeps DEF WatchInv, TypeOK
<1>10. CurIsOwed'
  BY <1>1, <1>3, <1>4, <1>5, <1>7, <1>8 DEF CurIsOwed, MayCharge, Cur, Repairing
<1>11. ASSUME NEW t \in Symbols PROVE SymbolOK(t)'
  <2>1. SymbolOK(t)
    BY DEF WatchInv
  <2>2. Claimed(t)' /\ Audited(t)' /\ Queued(t)' /\ Repaired(t)'
    BY <1>1, <1>4, <1>7, <1>8, <2>1
    DEF SymbolOK, Claimed, Audited, Queued, Repaired, Placed, Queueing
  <2>3. Paid(t)'
    <3>1. CASE t = s
      <4>1. unpaid[s] = 1 => watch.result \in {"SUCCESS", "EMPTY"}
        BY <1>1, <1>2, <1>3, <2>1, <3>1 DEF SymbolOK, Paid
      <4>2. unpaid[s] = 1 => pc = "charge" \/ (pc = "log" /\ result \in {"SUCCESS", "EMPTY"})
        BY <1>3, <1>4, <1>5, <4>1
      <4> QED BY <1>1, <1>7, <1>8, <2>1, <3>1, <4>2 DEF SymbolOK, Paid
    <3>2. CASE t # s
      BY <1>1, <1>2, <1>7, <1>8, <2>1, <3>2 DEF SymbolOK, Paid
    <3> QED BY <3>1, <3>2
  <2> QED BY <2>2, <2>3 DEF SymbolOK
<1> QED BY <1>9, <1>10, <1>11 DEF WatchInv

LEMMA LogOutcomeStep == ASSUME WatchInv, LogOutcome PROVE WatchInv'
<1>1. watch.pc = "log" /\ watch \in Pass
        /\ UNCHANGED <<row, bar, retired, reserved, inv, point, checkpoint,
                       quarantine, claimed, unpaid>>
  BY DEF LogOutcome, Waiting, WatchInv, TypeOK, stores, history
<1>2. PICK s : s = watch.cur
  OBVIOUS
<1>3. /\ s \in Symbols /\ s \notin watch.todo /\ point[s].disposition = "PENDING"
      /\ watch.total = point[s].attempts
      /\ watch.result = "EMPTY" => watch.total < MaxTotal
      /\ watch.result \in {"SUCCESS", "EMPTY"}
      /\ watch.result = "SUCCESS" => bar[s] = "now"
  BY <1>1, <1>2 DEF WatchInv, CurIsOwed, MayCharge, Cur, Repairing
<1>4. ledger' \in [Symbols -> Attempts] /\ failing' \subseteq Symbols
  <2>1. ledger \in [Symbols -> Attempts] /\ failing \subseteq Symbols
    BY DEF WatchInv, TypeOK, RefreshTypeOK
  <2>2. watch.result \in Attempts
    BY <1>3 DEF Attempts
  <2> QED BY <1>2, <1>3, <2>1, <2>2 DEF LogOutcome, Logged, Cur
<1>5. PICK pc \in {"charge", "settle"} :
        pc = IF watch.result = "EMPTY" THEN "charge" ELSE "settle"
  OBVIOUS
<1>6. PICK w : w = [watch EXCEPT !.pc = pc]
  OBVIOUS
<1>7. w \in Pass /\ w.pc = pc /\ w.deferred = watch.deferred
        /\ w.class = watch.class /\ w.cur = s /\ w.todo = watch.todo
        /\ w.total = watch.total /\ w.result = watch.result
  BY <1>1, <1>2, <1>5, <1>6 DEF Pass, Steps
<1>8. watch' = w
  BY <1>5, <1>6 DEF LogOutcome
<1>9. Inv'
  BY <1>1, <1>4, MarketMoves DEF WatchInv, Inv, RefreshTypeOK
<1>10. TypeOK'
  BY <1>1, <1>7, <1>8, <1>9 DEF WatchInv, TypeOK, Inv
<1>11. CurIsOwed'
  BY <1>1, <1>3, <1>5, <1>7, <1>8 DEF CurIsOwed, MayCharge, Cur, Repairing
<1>12. ASSUME NEW t \in Symbols PROVE SymbolOK(t)'
  <2>1. SymbolOK(t)
    BY DEF WatchInv
  <2>2. Claimed(t)' /\ Audited(t)' /\ Queued(t)' /\ Repaired(t)'
    BY <1>1, <1>5, <1>7, <1>8, <2>1
    DEF SymbolOK, Claimed, Audited, Queued, Repaired, Placed, Queueing
  <2>3. Paid(t)'
    BY <1>1, <1>2, <1>3, <1>5, <1>7, <1>8, <2>1 DEF SymbolOK, Paid
  <2> QED BY <2>2, <2>3 DEF SymbolOK
<1> QED BY <1>9, <1>10, <1>11, <1>12 DEF WatchInv

\* The pass goes on to its next symbol.
LEMMA NextSymbolFits ==
  ASSUME watch \in Pass
  PROVE  /\ NextSymbol \in Pass /\ NextSymbol.pc = "next"
         /\ NextSymbol.cur = None /\ NextSymbol.deferred = watch.deferred
         /\ NextSymbol.class = watch.class /\ NextSymbol.todo = watch.todo
<1>1. 0 \in 0..MaxPerRun
  BY WatchAssumption
<1> QED BY <1>1 DEF NextSymbol, Pass, Steps, Attempts

LEMMA ChargeAttemptStep == ASSUME WatchInv, ChargeAttempt PROVE WatchInv'
<1>1. watch.pc = "charge" /\ watch \in Pass /\ point \in Rows
  BY DEF ChargeAttempt, Waiting, WatchInv, TypeOK, Rows
<1>2. PICK s : s = watch.cur
  OBVIOUS
<1>3. /\ s \in Symbols /\ s \notin watch.todo /\ point[s].disposition = "PENDING"
      /\ point[s].attempts \in Nat /\ point[s].attempts < MaxTotal
      /\ watch.result \in {"EMPTY", "ERROR"}
  BY <1>1, <1>2 DEF WatchInv, CurIsOwed, MayCharge, Cur, Repairing, Rows
<1>4. PICK w \in Pass :
        /\ w = watch'
        /\ w.deferred = watch.deferred /\ w.class = watch.class
        /\ w.todo = watch.todo
        /\ \/ w.pc = "settle" /\ w.cur = s /\ w.result = watch.result
           \/ w.pc = "next" /\ w.cur = None
  <2>1. CASE watch' = NextSymbol
    BY <1>1, <2>1, NextSymbolFits
  <2>2. CASE watch' = [watch EXCEPT !.pc = "settle"]
    BY <1>1, <1>2, <2>2 DEF Pass, Steps
  <2> QED BY <2>1, <2>2 DEF ChargeAttempt
<1>5. AddAttempt(s) /\ watch' \in Pass
  BY <1>2, <1>4 DEF ChargeAttempt, Cur
<1>6. /\ Inv' /\ TypeOK'
      /\ UNCHANGED <<row, bar, claimed>>
      /\ \A t \in Symbols :
           /\ point'[t].disposition = point[t].disposition
           /\ point'[t].attempts = IF t = s THEN point[t].attempts + 1
                                   ELSE point[t].attempts
           /\ unpaid'[t] = IF t = s THEN 0 ELSE unpaid[t]
  BY <1>3, <1>5, ChargeKeeps
<1>7. CurIsOwed'
  BY <1>3, <1>4, <1>6 DEF CurIsOwed, MayCharge, Cur, Repairing
<1>8. ASSUME NEW t \in Symbols PROVE SymbolOK(t)'
  <2>1. SymbolOK(t)
    BY DEF WatchInv
  <2>2. Claimed(t)' /\ Audited(t)' /\ Queued(t)' /\ Repaired(t)'
    BY <1>1, <1>4, <1>6, <2>1
    DEF SymbolOK, Claimed, Audited, Queued, Repaired, Placed, Queueing
  <2>3. Paid(t)'
    <3>1. CASE t = s
      <4>1. point[s].attempts + 1 <= MaxTotal
        BY <1>3, WatchAssumption
      <4> QED BY <1>6, <3>1, <4>1 DEF Paid
    <3>2. CASE t # s
      <4>1. unpaid[t] = 1 => point[t].disposition = "REPAIRED"
        BY <1>2, <2>1, <3>2 DEF SymbolOK, Paid
      <4> QED BY <1>6, <2>1, <3>2, <4>1 DEF SymbolOK, Paid
    <3> QED BY <3>1, <3>2
  <2> QED BY <2>2, <2>3 DEF SymbolOK
<1> QED BY <1>6, <1>7, <1>8 DEF WatchInv

LEMMA SettleSymbolStep == ASSUME WatchInv, SettleSymbol PROVE WatchInv'
<1>1. watch.pc = "settle" /\ watch \in Pass /\ PassStep /\ point \in Rows
        /\ UNCHANGED <<row, bar, claimed, unpaid, checkpoint, quarantine>>
  BY DEF SettleSymbol, Waiting, WatchInv, TypeOK, PassStep, refreshVars, market,
         history, Rows
<1>2. PICK s : s = watch.cur
  OBVIOUS
<1>3. /\ s \in Symbols /\ s \notin watch.todo /\ point[s].disposition = "PENDING"
      /\ watch.result = "SUCCESS" => bar[s] = "now"
  BY <1>1, <1>2 DEF WatchInv, CurIsOwed, MayCharge, Cur, Repairing
<1>4. PICK d \in Verdicts : d = Verdict /\ (d = "REPAIRED" <=> watch.result = "SUCCESS")
  <2>1. CASE watch.result = "EMPTY"
    BY <2>1 DEF Verdict, Verdicts
  <2>2. CASE watch.result = "SUCCESS"
    BY <2>2 DEF Verdict, Verdicts
  <2>3. CASE watch.result \notin {"EMPTY", "SUCCESS"}
    BY <2>3 DEF Verdict, Verdicts
  <2> QED BY <2>1, <2>2, <2>3
<1>5. d \in Dispositions /\ d # "DEFERRED" /\ d # "PENDING"
  BY DEF Dispositions, Verdicts
<1>6. point' = [point EXCEPT ![s].disposition = d]
  BY <1>2, <1>4 DEF SettleSymbol, Settle, Cur
<1>7. /\ point' \in Rows
      /\ \A t \in Symbols :
           /\ point'[t].attempts = point[t].attempts
           /\ point'[t].disposition = IF t = s THEN d ELSE point[t].disposition
  BY <1>1, <1>3, <1>5, <1>6, RowSettled
<1>8. PICK n \in Pass : n = NextSymbol
  BY <1>1, NextSymbolFits
<1>9. n.pc = "next" /\ n.cur = None /\ n.deferred = watch.deferred
        /\ n.class = watch.class /\ n.todo = watch.todo
  BY <1>1, <1>8, NextSymbolFits
<1>10. PICK w : w = [n EXCEPT !.escalated = @ \/ Verdict = "UNRESOLVED"]
  OBVIOUS
<1>11. w \in Pass /\ w.pc = "next" /\ w.cur = None /\ w.deferred = watch.deferred
         /\ w.class = watch.class /\ w.todo = watch.todo
  <2>1. PICK e \in BOOLEAN : e = (n.escalated \/ Verdict = "UNRESOLVED")
    OBVIOUS
  <2>2. w = [n EXCEPT !.escalated = e]
    BY <1>10, <2>1
  <2> QED BY <1>9, <2>2 DEF Pass
<1>12. watch' = w
  BY <1>8, <1>10 DEF SettleSymbol
<1>13. Inv' /\ TypeOK'
  BY <1>1, <1>7, <1>11, <1>12, PassKeeps DEF WatchInv, TypeOK, Rows
<1>14. CurIsOwed'
  BY <1>11, <1>12 DEF CurIsOwed, MayCharge, Cur, Repairing
<1>15. ASSUME NEW t \in Symbols PROVE SymbolOK(t)'
  <2>1. SymbolOK(t)
    BY DEF WatchInv
  <2>2. CASE t = s
    <3>1. unpaid[s] = 1 => d = "REPAIRED"
      BY <1>1, <1>3, <1>4, <2>1, <2>2 DEF SymbolOK, Paid
    <3>2. Placed(watch.class[s], d)
      BY <1>1, <1>3, <2>1, <2>2 DEF SymbolOK, Queued, Placed, Queueing
    <3> QED BY <1>1, <1>3, <1>4, <1>5, <1>7, <1>11, <1>12, <2>1, <2>2, <3>1, <3>2
         DEF SymbolOK, Claimed, Audited, Queued, Repaired, Paid, Queueing
  <2>3. CASE t # s
    BY <1>1, <1>2, <1>7, <1>11, <1>12, <2>1, <2>3
    DEF SymbolOK, Claimed, Audited, Queued, Repaired, Paid, Placed, Queueing
  <2> QED BY <2>2, <2>3
<1> QED BY <1>13, <1>14, <1>15 DEF WatchInv

LEMMA CloseCheckpointStep == ASSUME WatchInv, CloseCheckpoint PROVE WatchInv'
<1>1. watch.pc = "close" /\ PassStep
        /\ UNCHANGED <<row, bar, claimed, unpaid, point, quarantine>>
  BY DEF CloseCheckpoint, Waiting, PassStep, refreshVars, market, history
<1>2. PICK n : n = NoPass
  OBVIOUS
<1>3. n \in Pass /\ n.todo = {} /\ n.cur = None
        /\ \A s \in Symbols : n.class[s] = "clear" /\ n.deferred[s] = "none"
  BY <1>2, NoPassFits
<1>4. PICK w : w = [n EXCEPT !.pc = "snapshot", !.after = TRUE]
  OBVIOUS
<1>5. w \in Pass /\ w.pc = "snapshot" /\ w.todo = {} /\ w.cur = None
        /\ w.class = n.class /\ w.deferred = n.deferred
  BY <1>3, <1>4 DEF Pass, Steps
<1>6. watch' = w
  BY <1>2, <1>4 DEF CloseCheckpoint
<1>7. checkpoint' \in {"none", "RUNNING", "ESCALATED", "COMPLETED"}
  BY DEF CloseCheckpoint
<1>8. Inv' /\ TypeOK'
  BY <1>1, <1>5, <1>6, <1>7, PassKeeps DEF WatchInv, TypeOK
<1>9. CurIsOwed' /\ \A s \in Symbols : SymbolOK(s)'
  BY <1>1, <1>3, <1>5, <1>6, NoPassOK
<1> QED BY <1>8, <1>9 DEF WatchInv

LEMMA PassDiesStep == ASSUME WatchInv, PassDies PROVE WatchInv'
<1>1. UNCHANGED refreshVars
        /\ UNCHANGED <<row, bar, claimed, point, checkpoint, quarantine>>
        /\ unpaid' = [s \in Symbols |-> 0]
  BY DEF PassDies, refreshVars, market, stores
<1>2. PICK n : n = NoPass
  OBVIOUS
<1>3. n \in Pass /\ n.pc = "idle" /\ n.todo = {} /\ n.cur = None
        /\ \A s \in Symbols : n.class[s] = "clear" /\ n.deferred[s] = "none"
  BY <1>2, NoPassFits
<1>4. watch' = n
  BY <1>2 DEF PassDies
<1>5. Inv'
  BY <1>1, InvNext DEF WatchInv
<1>6. unpaid' \in [Symbols -> 0..2] /\ \A s \in Symbols : unpaid'[s] = 0
  BY <1>1
<1>7. TypeOK'
  BY <1>1, <1>3, <1>4, <1>5, <1>6 DEF WatchInv, TypeOK, Inv
<1>8. CurIsOwed'
  BY <1>3, <1>4 DEF CurIsOwed, MayCharge, Cur, Repairing
<1>9. ASSUME NEW s \in Symbols PROVE SymbolOK(s)'
  <2>1. SymbolOK(s)
    BY DEF WatchInv
  <2> QED BY <1>1, <1>3, <1>4, <1>6, <2>1
       DEF SymbolOK, Claimed, Audited, Queued, Repaired, Paid, Placed, Queueing
<1> QED BY <1>5, <1>7, <1>8, <1>9 DEF WatchInv

-----------------------------------------------------------------------------
(* The theorems.                                                           *)

\* No refresh takes the session's bar back.
LEMMA RefreshKeepsNow ==
  ASSUME Inv, NEW i \in Invocations, RefreshStep(i)
  PROVE  \A s \in Symbols : bar[s] = "now" => bar'[s] = "now"
<1>1. CASE Fetch(i)
  <2>1. PICK s \in Left(i), result \in Attempts, q \in Invocation :
          FetchMoves(inv[i], s, q) /\ Fetched(s, result)
    BY <1>1, FetchEffect
  <2> QED BY <2>1, FetchedKeepsNow DEF FetchMoves
<1>2. CASE UNCHANGED bar
  BY <1>2
<1> QED BY <1>1, <1>2
     DEF RefreshStep, OpenRun, Record, Plan, FinishRun, InvocationDies, market

LEMMA RefreshMovesStep == ASSUME WatchInv, RefreshMoves PROVE WatchInv'
<1>1. PICK i \in Invocations : RefreshStep(i)
  BY DEF RefreshMoves
<1>2. Inv'
  BY <1>1, InvNext DEF WatchInv
<1>3. \A s \in Symbols : bar[s] = "now" => bar'[s] = "now"
  BY <1>1, RefreshKeepsNow DEF WatchInv
<1>4. UNCHANGED <<point, checkpoint, quarantine, watch, unpaid>>
        /\ claimed \subseteq claimed' /\ claimed' \subseteq Symbols
        /\ \A s \in Symbols :
             row'.status = "COMPLETED" /\ row'.outcomes[s] \in Deferred => s \in claimed'
  BY DEF RefreshMoves, stores, WatchInv, TypeOK
<1>5. TypeOK'
  BY <1>2, <1>4 DEF WatchInv, TypeOK, Inv
<1>6. CurIsOwed'
  BY <1>3, <1>4 DEF WatchInv, CurIsOwed, MayCharge, Cur, Repairing
<1>7. ASSUME NEW s \in Symbols PROVE SymbolOK(s)'
  <2>1. SymbolOK(s)
    BY DEF WatchInv
  <2> QED BY <1>3, <1>4, <2>1
       DEF SymbolOK, Claimed, Audited, Queued, Repaired, Paid, Placed, Queueing
<1> QED BY <1>2, <1>5, <1>6, <1>7 DEF WatchInv

LEMMA WatchInit == Init => WatchInv
<1> SUFFICES ASSUME Init PROVE WatchInv
  OBVIOUS
<1>1. PICK n : n = NoPass
  OBVIOUS
<1>2. n \in Pass /\ n.pc = "idle" /\ n.todo = {} /\ n.cur = None
        /\ \A s \in Symbols : n.class[s] = "clear" /\ n.deferred[s] = "none"
  BY <1>1, NoPassFits
<1>3. /\ watch = n /\ checkpoint = "none" /\ quarantine = {} /\ claimed = {}
      /\ point = [s \in Symbols |-> [disposition |-> "none", attempts |-> 0]]
      /\ unpaid = [s \in Symbols |-> 0] /\ row.status = "RUNNING"
  BY <1>1 DEF Init, RefreshInit
<1>4. Inv
  BY InvInit DEF Init
<1>5. point \in Rows
        /\ \A s \in Symbols : point[s].disposition = "none" /\ point[s].attempts = 0
  BY <1>3 DEF Rows, Dispositions
<1>6. unpaid \in [Symbols -> 0..2] /\ \A s \in Symbols : unpaid[s] = 0
  BY <1>3
<1>7. TypeOK
  BY <1>2, <1>3, <1>4, <1>5, <1>6 DEF TypeOK, Inv, Rows
<1>8. CurIsOwed
  BY <1>2, <1>3 DEF CurIsOwed, MayCharge, Cur, Repairing
<1>9. ASSUME NEW s \in Symbols PROVE SymbolOK(s)
  BY <1>2, <1>3, <1>5, <1>6, WatchAssumption
  DEF SymbolOK, Claimed, Audited, Queued, Repaired, Paid, Placed, Queueing
<1> QED BY <1>4, <1>7, <1>8, <1>9 DEF WatchInv

LEMMA WatchNext == WatchInv /\ [Next]_vars => WatchInv'
<1> SUFFICES ASSUME WatchInv, [Next]_vars PROVE WatchInv'
  OBVIOUS
<1>1. CASE RefreshMoves
  BY <1>1, RefreshMovesStep
<1>2. CASE WatchStep
  BY <1>2, StartPassStep, SnapshotStep, AuditStep, SyncQuarantineStep,
     OpenCheckpointStep, SeedSymbolStep, MarkSymbolStep, ReadPendingStep,
     GiveUpStep, TakeSymbolStep, LeaveQueueStep, TryFetchStep,
     RecordFailureStep, VerifyStep, LogOutcomeStep, ChargeAttemptStep,
     SettleSymbolStep, CloseCheckpointStep
  DEF WatchStep
<1>3. CASE PassDies
  BY <1>3, PassDiesStep
<1>4. CASE UNCHANGED vars
  <2>1. UNCHANGED refreshVars
          /\ UNCHANGED <<row, bar, point, checkpoint, quarantine, watch, claimed, unpaid>>
    BY <1>4 DEF vars, refreshVars, market, stores, history
  <2>2. Inv'
    BY <2>1, InvNext DEF WatchInv
  <2>3. TypeOK' /\ CurIsOwed'
    BY <2>1, <2>2 DEF WatchInv, TypeOK, Inv, CurIsOwed, MayCharge, Cur
  <2>4. ASSUME NEW s \in Symbols PROVE SymbolOK(s)'
    <3>1. SymbolOK(s)
      BY DEF WatchInv
    <3> QED BY <2>1, <3>1 DEF SymbolOK, Claimed, Audited, Queued, Repaired, Paid
  <2> QED BY <2>2, <2>3, <2>4 DEF WatchInv
<1> QED BY <1>1, <1>2, <1>3, <1>4 DEF Next

THEOREM WatchHolds == Spec => []WatchInv
BY WatchInit, WatchNext, PTL DEF Spec

\* The retry budget of a symbol holds over all passes, killed anywhere; a pass
\* does not fetch what a completed run scheduled for later; what is called
\* repaired has its bar (CheckpointStore, remediate and audit_universe).
THEOREM EarnedRepairs == Spec => []RepairsAreEarned
<1>1. WatchInv => RepairsAreEarned
  <2> SUFFICES ASSUME WatchInv PROVE RepairsAreEarned
    OBVIOUS
  <2>1. RetriesAreBounded
    BY DEF WatchInv, SymbolOK, Paid, RetriesAreBounded
  <2>2. RepairedHasBar
    BY DEF WatchInv, SymbolOK, Repaired, RepairedHasBar
  <2>3. ScheduledIsNotFetched
    <3> SUFFICES ASSUME watch.pc = "try", ~Starved, watch.class[Cur] # "clear"
                 PROVE  watch.deferred[Cur] = "none"
      BY DEF ScheduledIsNotFetched, Waiting
    <3>1. Cur \in Symbols /\ point[Cur].disposition = "PENDING"
      BY DEF WatchInv, CurIsOwed, Repairing
    <3>2. SymbolOK(Cur) /\ watch.class[Cur] \in Classes
      BY <3>1 DEF WatchInv, TypeOK, Pass
    <3>3. watch.class[Cur] = "work"
      BY <3>1, <3>2 DEF SymbolOK, Queued, Placed, Queueing, Classes
    <3> QED BY <3>2, <3>3 DEF SymbolOK, Audited
  <2> QED BY <2>1, <2>2, <2>3 DEF RepairsAreEarned
<1> QED BY <1>1, WatchHolds, PTL

\* A symbol is set aside only if a completed run deferred it, and what a pass
\* targets is in its queue or has its verdict (seed_symbol, reopen_deferred
\* and settle).
THEOREM NothingOverlooked == Spec => []NothingIsOverlooked
<1>1. WatchInv => NothingIsOverlooked
  <2> SUFFICES ASSUME WatchInv PROVE NothingIsOverlooked
    OBVIOUS
  <2>1. DeferralWasCompleted
    BY DEF WatchInv, SymbolOK, Claimed, DeferralWasCompleted
  <2>2. TargetsAreQueued
    BY DEF WatchInv, SymbolOK, Queued, Placed, Queueing, TargetsAreQueued
  <2> QED BY <2>1, <2>2 DEF NothingIsOverlooked
<1> QED BY <1>1, WatchHolds, PTL
=============================================================================
