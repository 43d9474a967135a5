------------------------------ MODULE Backfill ------------------------------
(***************************************************************************)
(* The resumable backfill of the frozen cohort from Tiingo                 *)
(* (backfill/tiingo_driver.py) and the quota store that every process with *)
(* a Tiingo adapter shares (adapters/tiingo.py, the requests of            *)
(* adapters/base.py).  Drivers are runs of --run and --smoke; they overlap,*)
(* are suspended and die anywhere.  A ticker is a number, in the order of  *)
(* processing, and has the same records in every answer.  A rolling month  *)
(* passes, so symbols are only added.                                      *)
(***************************************************************************)
EXTENDS Integers, Sequences, FiniteSets, SequencesExt

CONSTANTS
  Drivers,            \* runs of the backfill driver
  Tickers,            \* the cohort's tickers
  CanonicalTickers,   \* those that are canonical for an eligible security
  AnswerRecords,      \* the records of an answer: 1 .. AnswerRecords
  HourSpan, DaySpan,  \* in ticks
  HourlyReserve,      \* int(hourly_limit * 0.9)
  DailyReserve,       \* int(daily_limit * 0.9)
  SymbolCeiling,      \* symbols of a rolling month
  MaxTries,           \* of one fetch
  LastTick            \* bounds the clock

ASSUME BackfillAssumption ==
  /\ IsFiniteSet(Drivers) /\ IsFiniteSet(Tickers) /\ Tickers \subseteq Nat
  /\ CanonicalTickers \subseteq Tickers
  /\ AnswerRecords \in Nat /\ HourSpan \in Nat /\ DaySpan \in Nat /\ HourSpan <= DaySpan
  /\ {HourlyReserve, DailyReserve, SymbolCeiling, LastTick} \subseteq Nat
  /\ MaxTries \in Nat \ {0}

VARIABLES
  tick,       \* the clock
  request,    \* request_event, each row with the number of the acquisition it is of
  symbol,     \* bootstrap_symbol
  stored,     \* ticker -> its records in evidence_event
  attempted,  \* backfill_attempt: driver, ticker, result
  driver,     \* each driver: pc, what it has left to do, the fetch it is in
  sent        \* history: the requests that left, and when

backfillVars == <<tick, request, symbol, stored, attempted, driver, sent>>

-----------------------------------------------------------------------------
Recent(rows, span) == {e \in rows : e.at > tick - span}

(* classify_error: what becomes of an answer that is not retried, or not   *)
(* any more.  Of the errors a driver goes on after, the transient ones get *)
(* a second fetch.                                                         *)
Retried == {"forbidden", "busy"}
Answers == Retried \cup {"ok", "unauthorised", "gone", "bad"}
Class(answer) ==
  CASE answer \in {"unauthorised", "forbidden"} -> "AUTH"
    [] answer = "gone" -> "UNKNOWN_SYMBOL"
    [] answer \in {"bad", "busy"} -> "TRANSIENT"

Waiting == [pc |-> "idle", kind |-> "run", left |-> <<>>, again |-> <<>>, pass |-> 1,
            ticker |-> 0, attempt |-> 0, now |-> 0, number |-> 0, ingested |-> 0,
            result |-> "none"]

Does(d, pc) == driver[d].pc = pc
Turns(d, r) == driver' = [driver EXCEPT ![d] = r]
Finishes(d, result) ==
  Turns(d, [driver[d] EXCEPT !.pc = "record", !.result = result,
                             !.attempt = 0, !.now = 0, !.ingested = 0])
Over(d, pc) == [Waiting EXCEPT !.pc = pc, !.kind = driver[d].kind, !.number = driver[d].number]

HasEvidence(t) == stored[t] # {}
InOrder(S) == SetToSortSeq(S, <)
Attempt(d, t, result) == attempted' = attempted \cup {[by |-> d, ticker |-> t, result |-> result]}

BackfillInit ==
  /\ tick = 0 /\ request = {} /\ symbol = {} /\ attempted = {} /\ sent = {}
  /\ stored = [t \in Tickers |-> {}]
  /\ driver = [d \in Drivers |-> Waiting]

TickPasses ==
  /\ tick < LastTick /\ tick' = tick + 1
  /\ UNCHANGED <<request, symbol, stored, attempted, driver, sent>>

-----------------------------------------------------------------------------
(* run_backfill goes through the cohort; run_smoke takes the first         *)
(* canonical ticker.                                                       *)
StartRun(d) ==
  /\ Does(d, "idle")
  /\ Turns(d, [Waiting EXCEPT !.pc = "plan", !.left = InOrder(Tickers)])
  /\ UNCHANGED <<tick, request, symbol, stored, attempted, sent>>

StartSmoke(d) ==
  /\ Does(d, "idle") /\ CanonicalTickers # {}
  /\ Turns(d, [Waiting EXCEPT !.pc = "reserve", !.kind = "smoke",
                              !.ticker = Head(InOrder(CanonicalTickers))])
  /\ UNCHANGED <<tick, request, symbol, stored, attempted, sent>>

\* Mutant: a ticker somebody has attempted is done, too.
PlanTickerByAttempts(d) ==
  LET t == Head(driver[d].left)
      r == [driver[d] EXCEPT !.left = Tail(@)]
  IN  /\ Does(d, "plan") /\ driver[d].left # <<>>
      /\ IF t \notin CanonicalTickers
         THEN Attempt(d, t, "DUPLICATE_CIK") /\ Turns(d, r)
         ELSE /\ Turns(d, IF \E a \in attempted : a.ticker = t THEN r
                           ELSE [r EXCEPT !.again = Append(@, t)])
              /\ UNCHANGED attempted
      /\ UNCHANGED <<tick, request, symbol, stored, sent>>

(* A ticker that is not canonical is recorded, one with evidence is done,  *)
(* the others are pending.                                                 *)
PlanTicker(d) ==
  LET t == Head(driver[d].left)
      r == [driver[d] EXCEPT !.left = Tail(@)]
  IN  /\ Does(d, "plan") /\ driver[d].left # <<>>
      /\ IF t \notin CanonicalTickers
         THEN Attempt(d, t, "DUPLICATE_CIK") /\ Turns(d, r)
         ELSE /\ Turns(d, IF HasEvidence(t) THEN r ELSE [r EXCEPT !.again = Append(@, t)])
              /\ UNCHANGED attempted
      /\ UNCHANGED <<tick, request, symbol, stored, sent>>

EndPlan(d) ==
  /\ Does(d, "plan") /\ driver[d].left = <<>>
  /\ Turns(d, [driver[d] EXCEPT !.pc = "next", !.left = driver[d].again, !.again = <<>>])
  /\ UNCHANGED <<tick, request, symbol, stored, attempted, sent>>

(* The pending tickers, then once more those whose error was transient,    *)
(* unless somebody has fetched them.                                       *)
NextTicker(d) ==
  LET t == Head(driver[d].left)
      r == [driver[d] EXCEPT !.left = Tail(@)]
  IN  /\ Does(d, "next") /\ driver[d].left # <<>>
      /\ Turns(d, IF driver[d].pass = 2 /\ HasEvidence(t) THEN r
                  ELSE [r EXCEPT !.pc = "reserve", !.ticker = t])
      /\ UNCHANGED <<tick, request, symbol, stored, attempted, sent>>

EndPass(d) ==
  /\ Does(d, "next") /\ driver[d].left = <<>>
  /\ Turns(d, IF driver[d].pass = 1
              THEN [driver[d] EXCEPT !.pass = 2, !.left = driver[d].again, !.again = <<>>]
              ELSE Over(d, "done"))
  /\ UNCHANGED <<tick, request, symbol, stored, attempted, sent>>

-----------------------------------------------------------------------------
(* fetch_one and fetch_prices: a place among the month's symbols,          *)
ReserveSymbol(d) ==
  LET t == driver[d].ticker
  IN  /\ Does(d, "reserve")
      /\ IF t \in symbol \/ Cardinality(symbol) < SymbolCeiling
         THEN /\ symbol' = symbol \cup {t}
              /\ Turns(d, [driver[d] EXCEPT !.pc = "clock", !.attempt = 1])
         ELSE Finishes(d, "CAPACITY") /\ UNCHANGED symbol
      /\ UNCHANGED <<tick, request, stored, attempted, sent>>

(* then for each attempt the clock, read before the transaction            *)
ReadClock(d) ==
  /\ Does(d, "clock") /\ Turns(d, [driver[d] EXCEPT !.pc = "acquire", !.now = tick])
  /\ UNCHANGED <<tick, request, symbol, stored, attempted, sent>>

\* Mutant: one request more than the reserve has.
AcquireOneMore(d) ==
  LET now == driver[d].now
      kept == {e \in request : e.at > now - DaySpan}
      e0 == [by |-> d, number |-> driver[d].number + 1, at |-> now]
  IN  /\ Does(d, "acquire")
      /\ IF \/ Cardinality({e \in kept : e.at > now - HourSpan}) > HourlyReserve
            \/ Cardinality(kept) > DailyReserve
         THEN Turns(d, [driver[d] EXCEPT !.pc = "wait", !.now = 0]) /\ UNCHANGED request
         ELSE /\ request' = kept \cup {e0}
              /\ Turns(d, [driver[d] EXCEPT !.pc = "send", !.number = @ + 1])
      /\ UNCHANGED <<tick, symbol, stored, attempted, sent>>

(* that forgets what is older than a day, counts, and adds a row or raises.*)
Acquire(d) ==
  LET now == driver[d].now
      kept == {e \in request : e.at > now - DaySpan}
      e0 == [by |-> d, number |-> driver[d].number + 1, at |-> now]
  IN  /\ Does(d, "acquire")
      /\ IF \/ Cardinality({e \in kept : e.at > now - HourSpan}) >= HourlyReserve
            \/ Cardinality(kept) >= DailyReserve
         THEN Turns(d, [driver[d] EXCEPT !.pc = "wait", !.now = 0]) /\ UNCHANGED request
         ELSE /\ request' = kept \cup {e0}
              /\ Turns(d, [driver[d] EXCEPT !.pc = "send", !.number = @ + 1])
      /\ UNCHANGED <<tick, symbol, stored, attempted, sent>>

(* _wait_for_quota_window looks at the hour only; the fetch begins again.  *)
(* Its bound of twelve hours is left out.                                  *)
WaitForQuota(d) ==
  /\ Does(d, "wait") /\ Cardinality(Recent(request, HourSpan)) < HourlyReserve
  /\ Turns(d, [driver[d] EXCEPT !.pc = "reserve", !.attempt = 0])
  /\ UNCHANGED <<tick, request, symbol, stored, attempted, sent>>

(* NetworkClient.fetch: a timeout is busy, too.                            *)
Tries(d) == IF driver[d].kind = "smoke" THEN 1 ELSE MaxTries

SendRequest(d) ==
  /\ Does(d, "send")
  /\ sent' = sent \cup {[by |-> d, number |-> driver[d].number, stamp |-> driver[d].now,
                         at |-> tick]}
  /\ \E answer \in Answers :
       IF answer = "ok"
       THEN Turns(d, [driver[d] EXCEPT !.pc = "ingest", !.attempt = 0, !.now = 0])
       ELSE IF answer \in Retried /\ driver[d].attempt < Tries(d)
       THEN Turns(d, [driver[d] EXCEPT !.pc = "clock", !.attempt = @ + 1, !.now = 0])
       ELSE Finishes(d, Class(answer))
  /\ UNCHANGED <<tick, request, symbol, stored, attempted>>

(* ingest_records: a transaction for each record; one that is stored       *)
(* already is the same.  The smoke run only resolves them.                 *)
IngestRecord(d) ==
  LET i == driver[d].ingested + 1
  IN  /\ Does(d, "ingest") /\ i <= AnswerRecords
      /\ stored' = IF driver[d].kind = "smoke" THEN stored
                   ELSE [stored EXCEPT ![driver[d].ticker] = @ \cup {i}]
      /\ Turns(d, [driver[d] EXCEPT !.ingested = i])
      /\ UNCHANGED <<tick, request, symbol, attempted, sent>>

EndIngest(d) ==
  /\ Does(d, "ingest") /\ driver[d].ingested = AnswerRecords /\ Finishes(d, "SUCCESS")
  /\ UNCHANGED <<tick, request, symbol, stored, attempted, sent>>

(* Bytes, parsing, a record or the database may raise on the way.          *)
AnswerRaises(d) ==
  /\ Does(d, "ingest") /\ \E result \in {"PARSE", "TRANSIENT"} : Finishes(d, result)
  /\ UNCHANGED <<tick, request, symbol, stored, attempted, sent>>

(* Every attempt is recorded; a refusal of the token ends the run.         *)
RecordResult(d) ==
  LET r == driver[d]
      t == r.ticker
  IN  /\ Does(d, "record")
      /\ Attempt(d, t, r.result)
      /\ Turns(d, IF r.kind = "smoke" THEN Over(d, "done")
                  ELSE IF r.result = "AUTH" THEN Over(d, IF r.pass = 1 THEN "stopped" ELSE "done")
                  ELSE [r EXCEPT !.pc = "next", !.ticker = 0, !.result = "none",
                          !.again = IF r.result = "TRANSIENT" /\ r.pass = 1
                                    THEN Append(@, t) ELSE @])
      /\ UNCHANGED <<tick, request, symbol, stored, sent>>

DriverDies(d) ==
  /\ driver[d].pc \notin {"idle", "done", "stopped"}
  /\ Turns(d, Over(d, "stopped"))
  /\ UNCHANGED <<tick, request, symbol, stored, attempted, sent>>

DriverStep(d) ==
  \/ StartRun(d) \/ StartSmoke(d) \/ PlanTicker(d) \/ EndPlan(d) \/ NextTicker(d) \/ EndPass(d)
  \/ ReserveSymbol(d) \/ ReadClock(d) \/ Acquire(d) \/ WaitForQuota(d) \/ SendRequest(d)
  \/ IngestRecord(d) \/ EndIngest(d) \/ AnswerRaises(d) \/ RecordResult(d) \/ DriverDies(d)

BackfillNext == TickPasses \/ \E d \in Drivers : DriverStep(d)
BackfillSpec == BackfillInit /\ [][BackfillNext]_backfillVars

-----------------------------------------------------------------------------
(* Whatever overlaps or is suspended between its clock, its reservation and*)
(* its request: the requests of the last hour and of the last day stay     *)
(* within the reserve, but for one of each driver.                         *)
RequestsWithinReserve ==
  /\ Cardinality(Recent(sent, HourSpan)) <= HourlyReserve + Cardinality(Drivers)
  /\ Cardinality(Recent(sent, DaySpan)) <= DailyReserve + Cardinality(Drivers)

(* A success of a run stands for all records of its ticker, and a run that *)
(* went to its end leaves no ticker without records or an attempt of its   *)
(* own that says why.                                                      *)
CohortIsAccounted ==
  /\ \A a \in attempted : a.result = "SUCCESS" /\ driver[a.by].kind = "run" =>
       stored[a.ticker] = 1 .. AnswerRecords
  /\ \A d \in Drivers : Does(d, "done") /\ driver[d].kind = "run" =>
       \A t \in Tickers : HasEvidence(t) \/ \E a \in attempted : a.by = d /\ a.ticker = t
=============================================================================
