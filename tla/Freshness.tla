------------------------------ MODULE Freshness ------------------------------
(***************************************************************************)
(* The freshness watch over the refresh of RefreshRun.tla: the audit and   *)
(* the bounded remediation of ops/data_freshness.py, its checkpoint        *)
(* database, and the quarantine of ops/downstream_guard.py, driven by      *)
(* check_data_freshness of ops/health_watch.py.                            *)
(*                                                                         *)
(* A pass audits every symbol, reconciles the quarantine, seeds the        *)
(* checkpoint, repairs what is pending, closes the checkpoint, and audits  *)
(* and reconciles once more. Every checkpoint method is a transaction of   *)
(* its own and an action here; refresh invocations run between any two of  *)
(* them, and a pass may be killed at each. Passes do not overlap: the      *)
(* watch has one scheduler.                                                *)
(***************************************************************************)
EXTENDS RefreshRun

CONSTANTS
  MaxPerRun,  \* MAX_ATTEMPTS_PER_RUN
  MaxTotal,   \* MAX_ATTEMPTS_TOTAL
  Starved,    \* is the rotation budget below what the window requires?
  Killable    \* may a pass be killed?

ASSUME WatchAssumption == MaxPerRun \in Nat \ {0} /\ MaxTotal \in Nat \ {0}

VARIABLES
  point,      \* symbol |-> its row of remediation_symbol
  checkpoint, \* status of the remediation_run row
  quarantine, \* symbols with an active quarantine record
  watch,      \* the pass: program point and locals
  claimed,    \* history: symbols that some completed run deferred
  unpaid      \* history: symbol |-> requests a live pass has sent for it and
              \*   not counted in its row; 2 stands for more

stores == <<point, checkpoint, quarantine>>
history == <<claimed, unpaid>>
vars == <<refreshVars, stores, watch, history>>

Verdicts == {"EXCLUDED", "REPAIRED", "UNRESOLVED"}
Dispositions == {"none", "PENDING", "DEFERRED"} \cup Verdicts
Classes == {"clear", "work", "scheduled", "exception"}

\* The points of a pass, named for what comes next.
Steps == {"idle", "snapshot", "audit", "guard", "open", "seed", "mark", "queue",
          "next", "try", "failed", "verify", "log", "charge", "settle", "close"}

Pass == [pc : Steps, after : BOOLEAN, deferred : [Symbols -> Outcomes],
         class : [Symbols -> Classes], todo : SUBSET Symbols,
         cur : Symbols \cup {None}, total : Nat, used : 0..MaxPerRun,
         result : Attempts \cup {"FATAL"}, escalated : BOOLEAN]

NoPass == [pc |-> "idle", after |-> FALSE, deferred |-> NoOutcomes,
           class |-> [s \in Symbols |-> "clear"], todo |-> {}, cur |-> None,
           total |-> 0, used |-> 0, result |-> "none", escalated |-> FALSE]

Waiting(p) == watch.pc = p
Cur == watch.cur

\* The pass goes on to its next symbol.
NextSymbol == [watch EXCEPT !.pc = "next", !.cur = None, !.total = 0,
                            !.used = 0, !.result = "none"]

\* Only the pass moves.
PassStep == UNCHANGED <<refreshVars, history>>

-----------------------------------------------------------------------------
(* The audit.                                                              *)

StartPass ==
  /\ Waiting("idle")
  /\ watch' = [NoPass EXCEPT !.pc = "snapshot"]
  /\ UNCHANGED stores /\ PassStep

\* snapshot(): status and outcomes from one read; only a completed run defers.
Deferrals ==
  [s \in Symbols |-> IF row.status = "COMPLETED" /\ row.outcomes[s] \in Deferred
                       THEN row.outcomes[s] ELSE "none"]

Snapshot ==
  /\ Waiting("snapshot")
  /\ watch' = [watch EXCEPT !.pc = "audit", !.deferred = Deferrals]
  /\ UNCHANGED stores /\ PassStep

\* audit_universe for one symbol. Precedence for a symbol past the contract:
\* a capacity deferral, a starved rotation, another deferral, its last attempt
\* (an empty answer is a delisting), an interruption.
Classify(s, reason) ==
  CASE bar[s] \in {"now", "lag"} -> "clear"
    [] bar[s] = "none" \/ (bar[s] = "old" /\ s \in retired) -> "exception"
    [] OTHER -> IF reason = "CAPACITY_DEFERRED" THEN "scheduled"
                ELSE IF Starved THEN "work"
                ELSE IF reason # "none" THEN "scheduled"
                ELSE IF ledger[s] = "EMPTY" THEN "exception" ELSE "work"

Audit ==
  /\ Waiting("audit")
  /\ watch' = [watch EXCEPT
       !.pc = "guard",
       !.class = [s \in Symbols |-> Classify(s, watch.deferred[s])]]
  /\ UNCHANGED stores /\ PassStep

Stale == {s \in Symbols : watch.class[s] \in {"work", "scheduled"}}
Exceptions == {s \in Symbols : watch.class[s] = "exception"}

\* sync_quarantine, after either audit. A pass with nothing stale ends there.
SyncQuarantine ==
  /\ Waiting("guard")
  /\ quarantine' = Stale
  /\ watch' = IF watch.after \/ Stale = {} THEN NoPass
              ELSE [watch EXCEPT !.pc = "open"]
  /\ UNCHANGED <<point, checkpoint>> /\ PassStep

-----------------------------------------------------------------------------
(* The checkpoint.                                                         *)

\* open_run: a run that was closed is not opened again.
OpenCheckpoint ==
  /\ Waiting("open")
  /\ checkpoint' = IF checkpoint = "none" THEN "RUNNING" ELSE checkpoint
  /\ watch' = [watch EXCEPT !.pc = "seed", !.todo = Stale \cup Exceptions]
  /\ UNCHANGED <<point, quarantine>> /\ PassStep

\* seed_symbol is INSERT OR IGNORE. Stale symbols come before exceptions.
SeedSymbol ==
  /\ Waiting("seed") /\ watch.todo # {}
  /\ LET s == IF watch.todo \cap Stale # {} THEN Min(watch.todo \cap Stale)
              ELSE Min(watch.todo) IN
       /\ point' = [point EXCEPT ![s].disposition =
                                   IF @ = "none" THEN "PENDING" ELSE @]
       /\ watch' = [watch EXCEPT !.pc = "mark", !.cur = s, !.todo = @ \ {s}]
  /\ UNCHANGED <<checkpoint, quarantine>> /\ PassStep

\* Mutant: a deferral that has become work again is left alone.
MarkedOnce(class, d) ==
  CASE class = "scheduled" -> "DEFERRED"
    [] class = "exception" -> "EXCLUDED"
    [] OTHER -> d

\* settle() writes whatever was there; reopen_deferred only undoes a deferral.
Marked(class, d) ==
  CASE class = "scheduled" -> "DEFERRED"
    [] class = "exception" -> "EXCLUDED"
    [] OTHER -> IF d = "DEFERRED" THEN "PENDING" ELSE d

MarkSymbol ==
  /\ Waiting("mark")
  /\ point' = [point EXCEPT ![Cur].disposition = Marked(watch.class[Cur], @)]
  /\ watch' = [watch EXCEPT !.pc = "seed", !.cur = None]
  /\ UNCHANGED <<checkpoint, quarantine>> /\ PassStep

\* pending(): the symbols owed work, whose backoff, once they have failed, may
\* or may not have elapsed.
ReadPending ==
  /\ Waiting("seed") /\ watch.todo = {}
  /\ LET pending == {s \in Symbols : point[s].disposition = "PENDING"}
         tried == {s \in pending : point[s].attempts > 0} IN
       \E waiting \in SUBSET tried :
         watch' = [watch EXCEPT !.pc = "next", !.todo = pending \ waiting]
  /\ UNCHANGED stores /\ PassStep

-----------------------------------------------------------------------------
(* The repair of one symbol.                                               *)

Settle(s, d) == point' = [point EXCEPT ![s].disposition = d]

\* The attempts were spent earlier, or the last was over 72 hours ago.
GiveUp ==
  /\ Waiting("next") /\ watch.todo # {}
  /\ LET s == Min(watch.todo) IN
       /\ point[s].attempts > 0
       /\ Settle(s, "UNRESOLVED")
       /\ watch' = [watch EXCEPT !.todo = @ \ {s}, !.escalated = TRUE]
  /\ UNCHANGED <<checkpoint, quarantine>> /\ PassStep

TakeSymbol ==
  /\ Waiting("next") /\ watch.todo # {}
  /\ LET s == Min(watch.todo) IN
       /\ point[s].attempts < MaxTotal
       /\ watch' = [watch EXCEPT !.pc = "try", !.todo = @ \ {s}, !.cur = s,
                                 !.total = point[s].attempts, !.used = 0]
  /\ UNCHANGED stores /\ PassStep

\* The queue is done, or the time or the hourly quota is.
LeaveQueue ==
  /\ Waiting("next")
  /\ watch' = [watch EXCEPT !.pc = "close", !.todo = {}]
  /\ UNCHANGED stores /\ PassStep

\* One request. An error is counted and, unless the symbol ceiling or the
\* network caused it, may be permanent; a quota refusal ends the pass.
TryFetch ==
  /\ Waiting("try")
  /\ \E result \in Attempts :
       /\ Fetched(Cur, result)
       /\ unpaid' = [unpaid EXCEPT ![Cur] =
                       IF result = "QUOTA" THEN @ ELSE Least(@ + 1, 2)]
       /\ \E seen \in {result} \cup (IF result = "ERROR" /\ Cur \in reserved
                                      THEN {"FATAL"} ELSE {}) :
            watch' = [watch EXCEPT
              !.used = @ + 1, !.result = seen,
              !.pc = IF seen \in {"ERROR", "FATAL"} THEN "failed"
                     ELSE IF seen = "QUOTA" THEN "close" ELSE "verify",
              !.todo = IF seen = "QUOTA" THEN {} ELSE @]
  /\ UNCHANGED <<row, ledger, failing, retired, inv, stores, claimed>>

\* record_attempt adds one to what the row holds.
AddAttempt(s) ==
  /\ point' = [point EXCEPT ![s].attempts = @ + 1]
  /\ unpaid' = [unpaid EXCEPT ![s] = Max({0, @ - 1})]
  /\ UNCHANGED <<checkpoint, quarantine, refreshVars, claimed>>

RecordFailure ==
  /\ Waiting("failed")
  /\ AddAttempt(Cur)
  /\ LET total == point[Cur].attempts + 1 IN
       watch' = [watch EXCEPT
         !.total = total,
         !.pc = IF watch.result = "FATAL" \/ total >= MaxTotal
                     \/ watch.used = MaxPerRun
                  THEN "verify" ELSE "try"]

\* The bar itself decides: a repair is what can be read back, whoever did it.
Verify ==
  /\ Waiting("verify")
  /\ watch' = [watch EXCEPT
       !.pc = IF watch.result = "EMPTY" \/ bar[Cur] = "now" THEN "log"
              ELSE IF watch.total < MaxTotal THEN "charge" ELSE "settle",
       !.result = IF @ # "EMPTY" /\ bar[Cur] = "now" THEN "SUCCESS"
                  ELSE IF @ = "EMPTY" THEN @ ELSE "ERROR"]
  /\ UNCHANGED stores /\ PassStep

\* _ledger_write: a finding of no data must be recorded, a repair may fail to.
LogOutcome ==
  /\ Waiting("log")
  /\ \/ Logged(Cur, watch.result)
     \/ watch.result = "SUCCESS" /\ UNCHANGED <<ledger, failing>>
  /\ watch' = [watch EXCEPT !.pc = IF watch.result = "EMPTY" THEN "charge"
                                   ELSE "settle"]
  /\ UNCHANGED <<row, bar, retired, reserved, inv, stores, history>>

\* Mutant: a fetch without an error is not charged.
ChargeAttemptNever ==
  /\ Waiting("charge")
  /\ watch' = IF watch.result = "EMPTY" THEN [watch EXCEPT !.pc = "settle"]
              ELSE NextSymbol
  /\ UNCHANGED stores /\ PassStep

\* The attempt that found no data, or no bar where one was due.
ChargeAttempt ==
  /\ Waiting("charge")
  /\ AddAttempt(Cur)
  /\ watch' = IF watch.result = "EMPTY" \/ point[Cur].attempts + 1 >= MaxTotal
                THEN [watch EXCEPT !.pc = "settle"] ELSE NextSymbol

\* Mutant: any answer that raised no error counts as a repair.
VerdictByAnswer == CASE watch.result = "EMPTY" -> "EXCLUDED"
                     [] watch.result \in {"SUCCESS", "ERROR"} -> "REPAIRED"
                     [] OTHER -> "UNRESOLVED"

Verdict == CASE watch.result = "EMPTY" -> "EXCLUDED"
             [] watch.result = "SUCCESS" -> "REPAIRED"
             [] OTHER -> "UNRESOLVED"

SettleSymbol ==
  /\ Waiting("settle")
  /\ Settle(Cur, Verdict)
  /\ watch' = [NextSymbol EXCEPT !.escalated = @ \/ Verdict = "UNRESOLVED"]
  /\ UNCHANGED <<checkpoint, quarantine>> /\ PassStep

\* close_run, then the second audit. Only this pass's escalations count.
CloseCheckpoint ==
  /\ Waiting("close")
  /\ checkpoint' =
       IF watch.escalated \/ \E s \in Symbols : point[s].disposition = "PENDING"
         THEN "ESCALATED" ELSE "COMPLETED"
  /\ watch' = [NoPass EXCEPT !.pc = "snapshot", !.after = TRUE]
  /\ UNCHANGED <<point, quarantine>> /\ PassStep

PassDies ==
  /\ ~Waiting("idle") /\ Killable
  /\ watch' = NoPass
  /\ unpaid' = [s \in Symbols |-> 0]
  /\ UNCHANGED <<refreshVars, stores, claimed>>

WatchStep ==
  \/ StartPass \/ Snapshot \/ Audit \/ SyncQuarantine
  \/ OpenCheckpoint \/ SeedSymbol \/ MarkSymbol \/ ReadPending
  \/ GiveUp \/ TakeSymbol \/ LeaveQueue \/ TryFetch \/ RecordFailure \/ Verify
  \/ LogOutcome \/ ChargeAttempt \/ SettleSymbol \/ CloseCheckpoint

\* A refresh step; what a completed run deferred is remembered.
RefreshMoves ==
  /\ \E i \in Invocations : RefreshStep(i)
  /\ claimed' = IF row'.status = "COMPLETED"
                  THEN claimed \cup {s \in Symbols : row'.outcomes[s] \in Deferred}
                  ELSE claimed
  /\ UNCHANGED <<stores, watch, unpaid>>

Init == /\ RefreshInit
        /\ point = [s \in Symbols |-> [disposition |-> "none", attempts |-> 0]]
        /\ checkpoint = "none" /\ quarantine = {}
        /\ watch = NoPass
        /\ claimed = {} /\ unpaid = [s \in Symbols |-> 0]

Next == RefreshMoves \/ WatchStep \/ PassDies

Spec == Init /\ [][Next]_vars

\* The watch is run again and again and a pass not killed goes on; now and then
\* no symbol is in backoff, neither time nor quota runs out before a symbol,
\* and the provider answers.
Fairness ==
  /\ WF_vars(WatchStep)
  /\ SF_vars(ReadPending /\ watch'.todo = {s \in Symbols :
                                             point[s].disposition = "PENDING"})
  /\ SF_vars(TakeSymbol \/ GiveUp)
  /\ SF_vars(TryFetch /\ watch'.result # "QUOTA")

FairSpec == Spec /\ Fairness

-----------------------------------------------------------------------------
(* Properties.                                                             *)

\* Every variable keeps its type.
TypeOK == /\ RefreshTypeOK
          /\ point \in [Symbols -> [disposition : Dispositions, attempts : Nat]]
          /\ checkpoint \in {"none", "RUNNING", "ESCALATED", "COMPLETED"}
          /\ quarantine \subseteq Symbols /\ claimed \subseteq Symbols
          /\ watch \in Pass
          /\ unpaid \in [Symbols -> 0..2]

\* The retry budget of a symbol holds over all passes, and of the requests of a
\* pass that lives at most one is not counted: the one in progress, or the one
\* that repaired the symbol.
RetriesAreBounded ==
  \A s \in Symbols : /\ point[s].attempts <= MaxTotal
                     /\ unpaid[s] <= 1

\* A symbol is set aside as deferred only if a completed run deferred it; an
\* unfinished one never suppresses a repair.
DeferralWasCompleted ==
  \A s \in Symbols : point[s].disposition = "DEFERRED" => s \in claimed

\* A pass does not fetch a stale symbol that, by the record it read, the refresh
\* has scheduled for later, whatever the symbol's last attempt was.
ScheduledIsNotFetched ==
  Waiting("try") /\ ~Starved /\ watch.class[Cur] # "clear" =>
    watch.deferred[Cur] = "none"

\* What a pass targets is in its queue or has its verdict: a symbol that was
\* deferred before and is work now is not overlooked.
TargetsAreQueued ==
  watch.pc \in {"next", "try", "failed", "verify", "log", "charge", "settle",
                "close"} =>
    \A s \in Symbols : watch.class[s] = "work" =>
      point[s].disposition \in {"PENDING"} \cup Verdicts

\* What is called repaired has the session's bar.
RepairedHasBar ==
  \A s \in Symbols : point[s].disposition = "REPAIRED" => bar[s] = "now"

\* A repair spends what it may, on what is due, and succeeds by the bar alone.
RepairsAreEarned == RetriesAreBounded /\ ScheduledIsNotFetched /\ RepairedHasBar

\* Nothing stale is set aside or left out of the queue without a cause.
NothingIsOverlooked == DeferralWasCompleted /\ TargetsAreQueued

\* A symbol owed work that remains work is decided at last. (A symbol that
\* becomes an exception, or fresh, may keep its open row: a watch that finds
\* nothing stale leaves the checkpoint alone.)
PendingIsSettled ==
  \A s \in Symbols :
    LET owed == /\ point[s].disposition = "PENDING"
                /\ Classify(s, "none") = "work"
    IN owed ~> ~owed

\* A symbol that has the session's bar returns to service.
RepairedIsReleased ==
  \A s \in Symbols : bar[s] = "now" ~> s \notin quarantine

\* What owes a repair is settled, and what was repaired is used again.
RepairsEnd == PendingIsSettled /\ RepairedIsReleased
=============================================================================
