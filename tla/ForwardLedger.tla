---------------------------- MODULE ForwardLedger ---------------------------
(***************************************************************************)
(* Forward predictions and their outcomes over the evidence ledger:        *)
(* capture of the screened population, the nightly maturation job (several *)
(* runs may overlap and die), the horizon rules on the market calendar,    *)
(* the shared outcome pricing, and the frozen label builder that prices    *)
(* the same window for research.                                           *)
(***************************************************************************)
EXTENDS EvidenceLedger

CONSTANTS
  Variants,      \* the screen families whose predictions are captured
  Horizons,      \* horizons, in sessions
  SessionDays,   \* the days the market calendar calls sessions
  Runs,          \* runs of the maturation job
  Features,      \* what a screening may have computed for a prediction
  Delistings     \* how a delisting may be known: [row, event], days, 0 = not there

(* A bar's session is a day.                                                *)
ASSUME ForwardAssumption ==
  \A r \in Records : r.body.type = "price_bar" => r.body.session \in Nat

VARIABLES
  recorded,   \* forward_prediction: prediction -> features, "none" while absent
  capturing,  \* the predictions the running capture still has to record, and what it carries
  outcome,    \* forward_outcome: prediction -> row, NoOutcome while absent
  run,        \* the state of each maturation run
  delisted    \* security.delisted_at (day, 0 = null) and the delisting event's day

forwardVars == <<events, batch, now, recorded, capturing, outcome, run, delisted>>

Predictions == [variant : Variants, h : Horizons]

(* Every prediction of this model is made on day 0.                         *)
AsOf == 0

Day(moment) == (moment + 1) \div 2

(* A session is complete after its publication boundary, the even moment.   *)
Cutoff(moment) == LET done == {s \in SessionDays : 2 * s <= moment} IN IF done = {} THEN 0 ELSE Max(done)

NextSession(day) == Min({s \in SessionDays : s > day})

EntrySession == NextSession(AsOf)

RequiredExit(h) ==
  LET after[n \in Nat] == IF n = 0 THEN EntrySession ELSE NextSession(after[n - 1]) IN after[h]

NoOutcome == [status |-> "none"]
NotRunning == [pc |-> "idle"]
NoPick == [variant |-> "none", h |-> 0]

-----------------------------------------------------------------------------
(* validation.outcome_prices over resolved records: the bodies of the rows  *)
(* a reader returned.                                                       *)

Resolve(t) == [i \in VisibleRecords(t) |-> events[i].body]

BarsUpTo(rows, day) ==
  {rows[i] : i \in {k \in DOMAIN rows : rows[k].type = "price_bar" /\ rows[k].session <= day}}

(* The canonical bar of a session: none when its bars conflict.             *)
BarAt(rows, day, s) ==
  LET same == {bar \in BarsUpTo(rows, day) : bar.session = s}
  IN  IF Cardinality(same) = 1 THEN same ELSE {}

(* The entry price: the session's open, else its close; 0 is unusable.      *)
EntryPrice(bar) == IF bar.open > 0 THEN bar.open ELSE bar.close

Splits(rows, from, to) ==
  {i \in DOMAIN rows : rows[i].type = "split" /\ from < rows[i].session /\ rows[i].session <= to}

(* Raw and total return, as <<value at exit, value at entry>>; dividends    *)
(* are left out.                                                            *)
Returns(rows, entry, exit) ==
  LET factor == FoldSet(LAMBDA i, product : rows[i].factor * product, 1,
                        Splits(rows, entry.session, exit.session))
  IN  [raw |-> <<exit.close, EntryPrice(entry)>>, total |-> <<exit.close * factor, EntryPrice(entry)>>]

(* What is observed from the one entry bar and the one exit bar.            *)
Observed(rows, entryBar, exitBar) ==
  [status |-> "OBSERVED",
   returns |-> Returns(rows, CHOOSE bar \in entryBar : TRUE, CHOOSE bar \in exitBar : TRUE)]

Unusable(entryBar) == entryBar = {} \/ \E bar \in entryBar : EntryPrice(bar) <= 0
NoExit(exitBar) == exitBar = {} \/ \E bar \in exitBar : bar.close <= 0

-----------------------------------------------------------------------------
(* outcome_maturation._evaluate: terminal on a verified delisting (the day  *)
(* gone), pending while the window is not whole, else observed.             *)

Delisting == [status |-> "DELISTING_OUTCOME_UNKNOWN"]
Pending(why) == [status |-> why]

(* Mutant: a missing entry bar is replaced by the next session's.            *)
EvaluateShifted(h, rows, bound, gone) ==
  LET entries == {s \in SessionDays : s >= EntrySession /\ BarAt(rows, Day(bound), s) # {}}
      exitBar == BarAt(rows, Day(bound), RequiredExit(h))
  IN  IF entries = {} \/ exitBar = {} THEN Pending("AWAITING_EXIT_BAR")
      ELSE Observed(rows, BarAt(rows, Day(bound), Min(entries)), exitBar)

Evaluate(h, rows, bound, gone) ==
  LET exit == RequiredExit(h)
      entryBar == BarAt(rows, Day(bound), EntrySession)
      exitBar == BarAt(rows, Day(bound), exit)
  IN  IF gone # 0 /\ gone <= exit THEN Delisting
      ELSE IF Unusable(entryBar) THEN Pending("AWAITING_ENTRY_BAR")
      ELSE IF Cutoff(bound) < exit THEN Pending("AWAITING_HORIZON")
      ELSE IF NoExit(exitBar) THEN Pending("AWAITING_EXIT_BAR")
      ELSE Observed(rows, entryBar, exitBar)

(* outcome_builder.build_outcome_label: the frozen plane, with every row    *)
(* of the snapshot in view.                                                 *)
FarFuture == 2 * LastMoment + 2

Label(p) ==
  LET rows == Resolve(FarFuture)
      exit == RequiredExit(p.h)
      entryBar == BarAt(rows, FarFuture, EntrySession)
      exitBar == BarAt(rows, FarFuture, exit)
      Gone(day) == day # 0 /\ (exitBar = {} \/ day <= exit)
  IN  IF Unusable(entryBar) THEN [status |-> "ENTRY_UNAVAILABLE"]
      ELSE IF Gone(delisted.row) \/ Gone(delisted.event) THEN Delisting
      ELSE IF NoExit(exitBar) THEN [status |-> "CENSORED_INSUFFICIENT_HORIZON"]
      ELSE Observed(rows, entryBar, exitBar)

-----------------------------------------------------------------------------
(* Capture: one transaction per prediction; a stored prediction with other  *)
(* features aborts the capture.                                             *)

StartCapture(f) ==
  /\ capturing.todo = {}
  /\ Day(now) >= AsOf
  /\ capturing' = [todo |-> Predictions, features |-> f]
  /\ UNCHANGED <<events, batch, now, recorded, outcome, run, delisted>>

RecordPrediction(p) ==
  /\ p \in capturing.todo
  /\ \/ /\ recorded[p] = "none"
        /\ recorded' = [recorded EXCEPT ![p] = capturing.features]
        /\ capturing' = [capturing EXCEPT !.todo = @ \ {p}]
     \/ /\ recorded[p] = capturing.features
        /\ capturing' = [capturing EXCEPT !.todo = @ \ {p}]
        /\ UNCHANGED recorded
     \/ /\ recorded[p] \notin {"none", capturing.features}
        /\ capturing' = [capturing EXCEPT !.todo = {}]
        /\ UNCHANGED recorded
  /\ UNCHANGED <<events, batch, now, outcome, run, delisted>>

(* The maturation job reads what is due, then takes one prediction at a     *)
(* time; rows are resolved once per run and a result once per horizon.      *)
Due(p) == RequiredExit(p.h)

Begin(r) ==
  /\ run[r] = NotRunning
  /\ run' = [run EXCEPT ![r] =
       [pc |-> "evaluate", bound |-> now, rows |-> <<>>, at |-> 0, known |-> <<>>, pick |-> NoPick,
        todo |-> {p \in Predictions : recorded[p] # "none" /\ Due(p) <= Day(now) /\ outcome[p] = NoOutcome}]]
  /\ UNCHANGED <<events, batch, now, recorded, capturing, outcome, delisted>>

End(r) ==
  /\ run[r].pc = "evaluate" /\ run[r].todo = {}
  /\ run' = [run EXCEPT ![r] = NotRunning]
  /\ UNCHANGED <<events, batch, now, recorded, capturing, outcome, delisted>>

(* The result of p's unit: cached, or computed from the run's cached rows.  *)
(* `at` counts the rows there were when the run resolved them.              *)
EvaluateNext(r, p) ==
  LET rows == IF run[r].at = 0 THEN Resolve(run[r].bound) ELSE run[r].rows
      results == [h \in DOMAIN run[r].known \cup {p.h} |->
                    IF h \in DOMAIN run[r].known THEN run[r].known[h]
                    ELSE Evaluate(h, rows, run[r].bound, delisted.row)]
  IN  /\ run[r].pc = "evaluate" /\ p \in run[r].todo
      /\ run' = [run EXCEPT ![r] =
            [run[r] EXCEPT !.pc = "append", !.pick = p, !.rows = rows, !.known = results,
                           !.at = IF run[r].at = 0 THEN Len(events) + 1 ELSE run[r].at]]
      /\ UNCHANGED <<events, batch, now, recorded, capturing, outcome, delisted>>

Terminal == {"OBSERVED", "DELISTING_OUTCOME_UNKNOWN"}

(* A terminal result is appended in its own transaction; a pending one is   *)
(* left for a later run.  UNIQUE(prediction_id) aborts the run whose        *)
(* prediction another run has settled meanwhile.                            *)
AppendOutcome(r) ==
  LET p == run[r].pick
      result == run[r].known[p.h]
  IN  /\ run[r].pc = "append"
      /\ IF result.status \in Terminal /\ outcome[p] = NoOutcome
         THEN outcome' = [outcome EXCEPT ![p] =
                [status |-> result.status, result |-> result, at |-> run[r].at - 1, bound |-> run[r].bound]]
         ELSE UNCHANGED outcome
      /\ run' = IF result.status \in Terminal /\ outcome[p] # NoOutcome
                THEN [run EXCEPT ![r] = NotRunning]
                ELSE [run EXCEPT ![r] =
                       [run[r] EXCEPT !.pc = "evaluate", !.todo = run[r].todo \ {p}, !.pick = NoPick]]
      /\ UNCHANGED <<events, batch, now, recorded, capturing, delisted>>

(* A maturation run dies between two transactions.                          *)
RunDies(r) ==
  /\ run[r] # NotRunning
  /\ run' = [run EXCEPT ![r] = NotRunning]
  /\ UNCHANGED <<events, batch, now, recorded, capturing, outcome, delisted>>

(* Outside this component: the security is delisted on a day that is past,  *)
(* in its row, by an identity event, or in both.                            *)
Delist(d) ==
  /\ delisted = [row |-> 0, event |-> 0]
  /\ d.row <= Day(now) /\ d.event <= Day(now)
  /\ delisted' = d
  /\ UNCHANGED <<events, batch, now, recorded, capturing, outcome, run>>

-----------------------------------------------------------------------------
ForwardInit ==
  /\ LedgerInit
  /\ recorded = [p \in Predictions |-> "none"]
  /\ capturing = [todo |-> {}, features |-> "none"]
  /\ outcome = [p \in Predictions |-> NoOutcome]
  /\ run = [r \in Runs |-> NotRunning]
  /\ delisted = [row |-> 0, event |-> 0]

Ledger == LedgerNext /\ UNCHANGED <<recorded, capturing, outcome, run, delisted>>

ForwardNext ==
  \/ Ledger
  \/ \E f \in Features : StartCapture(f)
  \/ \E p \in Predictions : RecordPrediction(p)
  \/ \E r \in Runs : Begin(r) \/ End(r) \/ AppendOutcome(r) \/ RunDies(r)
  \/ \E r \in Runs, p \in Predictions : EvaluateNext(r, p)
  \/ \E d \in Delistings : Delist(d)

ForwardSpec == ForwardInit /\ [][ForwardNext]_forwardVars

-----------------------------------------------------------------------------
(* The live ledger claims pricing "identical to the frozen research         *)
(* builder" (ops/outcome_maturation.py:150).  An observed outcome, written  *)
(* by whichever of several overlapping runs from rows resolved earlier, is  *)
(* what the frozen builder computes from the ledger, unless evidence came   *)
(* in after the run had read, was published after the moment the run        *)
(* prices as of, or a delisting became known.                               *)
FrozenPlaneAgrees ==
  \A p \in Predictions :
    (/\ outcome[p].status = "OBSERVED" /\ outcome[p].at = Len(events)
     /\ \A i \in Ids : events[i].pat <= outcome[p].bound
     /\ delisted = [row |-> 0, event |-> 0])
      => Label(p) = outcome[p].result
=============================================================================
