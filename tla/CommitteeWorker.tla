--------------------------- MODULE CommitteeWorker ---------------------------
(***************************************************************************)
(* The model worker of ops/committee_worker.py. A timer and operators      *)
(* start invocations; each reads the worker's state file, waits for the    *)
(* lock, selects the outstanding runs of the newest cycle in order of id,  *)
(* and drives one after another: it fetches the role's work, calls a model *)
(* and submits what it made of the answer. The state file is written back  *)
(* when the invocation ends; one that dies leaves it as it was.            *)
(*                                                                         *)
(* The committee service is reduced to what the worker can see of a run:   *)
(* the role it asks for, the attempts of that role, its final state. That  *)
(* part is modelled in full by CommitteeRun.                               *)
(***************************************************************************)
EXTENDS Assessment

CONSTANTS
  Runs,           \* committee runs, numbered in the order of their ids
  Cycle,          \* run |-> its research cycle, 1 for the first
  LastCycle,      \* bound: cycles
  RoleOrder,      \* the roles a run goes through
  RoleProvider,          \* role |-> its provider
  Workers,        \* invocations of the worker
  ModelAnswers,    \* what a model may return
  MaxRuns,        \* max_runs, max_model_calls of an invocation
  MaxModelCalls,
  MaxCorrections, \* MAX_CORRECTIONS_PER_ROLE
  ScanFactor,     \* SCAN_FACTOR
  MaxRoles,       \* MAX_ROLES_PER_RUN
  MaxTries,       \* attempts the service allows a role
  Modes,          \* is an invocation a dry run?
  Faults          \* may an invocation be disturbed (Disturb)?

\* What the proofs need of the constants.
WorkerConstants ==
  /\ Runs \subseteq Nat /\ Cycle \in [Runs -> Nat]
  /\ MaxCorrections \in Nat /\ Absent \notin Workers

\* assert_independent: the worker refuses to run with other routes.
ProvidersDiffer(a, b) == RoleProvider[a] # RoleProvider[b]
RoutesAreIndependent == ProvidersDiffer("neutral_analyst_a", "neutral_analyst_b")
                          /\ ProvidersDiffer("red_team", "arbiter")

VARIABLES
  newest,   \* the newest research cycle
  service,  \* run |-> its state, the number of its role, the attempts spent
  file,     \* the state file: provider |-> the verdict on its readiness: ready and
            \* fresh, failed and waiting for its backoff, or neither
  lock,     \* the invocation that holds the lock, or Absent
  worker,   \* invocation |-> program point and locals
  late,     \* history: runs a timer's invocation moved after a newer cycle came
  refused   \* history: invocation |-> the answers refused since it got the work it
            \* drives, one without JSON counted as all it takes

workerVars == <<newest, service, file, lock, worker, late, refused>>

RoutedProviders == {RoleProvider[r] : r \in DOMAIN RoleProvider}
FinalStates == {"SCORED", "BLOCKED", "ESCALATE"}

Resting == [pc |-> "idle", dry |-> FALSE, asked |-> FALSE,
            state |-> [p \in RoutedProviders |-> "unknown"],
            cycle |-> 0, todo |-> {}, run |-> Absent, runs |-> 0, calls |-> 0,
            obtained |-> FALSE, roles |-> 0, tried |-> 0, unready |-> FALSE,
            outcome |-> Absent]

WorkerAt(w, p) == worker[w].pc = p
WorkerBecomes(w, x) == worker' = [worker EXCEPT ![w] = x]
WorkerGoto(w, p) == WorkerBecomes(w, [worker[w] EXCEPT !.pc = p])
\* To the writing of the state file: nothing else is used any more.
Leave(w) == WorkerBecomes(w, [Resting EXCEPT !.pc = "finish", !.state = worker[w].state])
Outside == UNCHANGED <<newest, service, file, lock, late, refused>>

-----------------------------------------------------------------------------
(* The research cycle and time.                                            *)

\* A new genuine pipeline run, then its committee runs one by one.
NewCycle ==
  /\ newest < LastCycle
  /\ newest' = newest + 1
  /\ UNCHANGED <<service, file, lock, worker, late, refused>>

CreateRun(r) ==
  /\ service[r].state = "none" /\ Cycle[r] = newest
  /\ service' = [service EXCEPT ![r].state = "OPEN"]
  /\ UNCHANGED <<newest, file, lock, worker, late, refused>>

\* A readiness verdict is no longer fresh, or its backoff has elapsed.
Aged(state, p) == [state EXCEPT ![p] = "unknown"]
Age(p) ==
  /\ file' = Aged(file, p)
  /\ worker' = [w \in Workers |-> [worker[w] EXCEPT !.state = Aged(@, p)]]
  /\ UNCHANGED <<newest, service, lock, late, refused>>

-----------------------------------------------------------------------------
(* An invocation.                                                          *)

\* main reads the state file before it waits for the lock.
Start(w) ==
  /\ WorkerAt(w, "idle")
  /\ \E dry \in Modes :
       WorkerBecomes(w, [Resting EXCEPT !.pc = "wait", !.dry = dry, !.state = file])
  /\ Outside

Lock(w) ==
  /\ WorkerAt(w, "wait") /\ lock = Absent
  /\ lock' = w
  /\ WorkerGoto(w, "select")
  /\ UNCHANGED <<newest, service, file, late, refused>>

\* --probe-only: every provider's readiness is established anew or reused.
ProbeOnly(w) ==
  /\ WorkerAt(w, "select")
  /\ \E state \in [RoutedProviders -> {"ready", "waiting"}] :
       WorkerBecomes(w, [worker[w] EXCEPT !.pc = "finish", !.state =
         [p \in RoutedProviders |-> IF @[p] = "unknown" THEN state[p] ELSE @[p]]])
  /\ Outside

\* outstanding_runs: the first MaxRuns * ScanFactor of the cycle's runs without
\* a score, the ones that will never have one included.
Window == MaxRuns * ScanFactor
Outstanding(cycle) ==
  LET unscored == {r \in Runs : Cycle[r] = cycle /\ service[r].state \notin {"none", "SCORED"}}
  IN {r \in unscored : Cardinality({x \in unscored : x < r}) < Window}

Select(w) ==
  /\ WorkerAt(w, "select")
  /\ LET todo == Outstanding(newest) IN
     IF todo = {} THEN Leave(w)
     ELSE WorkerBecomes(w, [worker[w] EXCEPT !.pc = "scan", !.cycle = newest, !.todo = todo])
  /\ Outside

\* --run-id: the operator names the run, of whatever cycle.
SelectOne(w, r) ==
  /\ WorkerAt(w, "select") /\ service[r].state # "none"
  /\ WorkerBecomes(w, [worker[w] EXCEPT !.pc = "scan", !.cycle = newest, !.todo = {r},
                                        !.asked = TRUE])
  /\ Outside

\* Budget.exhausted, the time left aside.
BudgetSpent(w) == worker[w].runs >= MaxRuns \/ worker[w].calls >= MaxModelCalls

\* Mutant: the cycle is compared once, when the runs are selected.
StaleNever(w) == FALSE

\* superseded
Superseded(w) == worker[w].cycle # newest

\* The head of the loop over the runs: the budget, the cycle, the next run.
Scan(w) ==
  /\ WorkerAt(w, "scan")
  /\ LET x == worker[w] r == Min(x.todo) IN
     IF BudgetSpent(w) \/ Superseded(w) \/ x.todo = {} THEN Leave(w)
     ELSE WorkerBecomes(w, [x EXCEPT !.pc = "work", !.run = r, !.todo = @ \ {r}])
  /\ Outside

\* max_seconds has passed: at the head of either loop, or before a call.
OutOfTime(w) ==
  /\ worker[w].pc \in {"scan", "work", "call"}
  /\ IF WorkerAt(w, "scan") THEN Leave(w) ELSE WorkerGoto(w, "account")
  /\ Outside

\* A request to the service or the artifact server fails: the exception leaves
\* drive_run, and with it the record that work was obtained.
Lost(w) == WorkerBecomes(w, [worker[w] EXCEPT !.pc = "account", !.obtained = FALSE])

RequestFails(w) ==
  /\ worker[w].pc \in {"work", "pack"}
  /\ Lost(w)
  /\ Outside

Service(w) == service[worker[w].run]
Role(w) == RoleOrder[Service(w).stage]

\* The head of the loop over the roles: get_work.
GetWork(w) ==
  /\ WorkerAt(w, "work")
  /\ LET x == worker[w] IN
     IF x.roles = MaxRoles \/ BudgetSpent(w) \/ Service(w).state \in FinalStates
     THEN WorkerGoto(w, "account")
     ELSE WorkerBecomes(w, [x EXCEPT !.pc = "ready", !.obtained = TRUE, !.roles = @ + 1,
                                     !.tried = 0])
  /\ refused' = [refused EXCEPT ![w] = 0]
  /\ UNCHANGED <<newest, service, file, lock, late>>

\* provider_ready: a fresh verdict is reused, a failed one waits for its
\* backoff, else the route is probed.
Verdict(w) == worker[w].state[RoleProvider[Role(w)]]
NotReady(w, verdict) ==
  WorkerBecomes(w, [worker[w] EXCEPT !.pc = "account", !.state[RoleProvider[Role(w)]] = verdict,
                                     !.unready = TRUE])

StillReady(w) == WorkerAt(w, "ready") /\ Verdict(w) = "ready" /\ WorkerGoto(w, "pack") /\ Outside
StillWaiting(w) ==
  WorkerAt(w, "ready") /\ Verdict(w) = "waiting" /\ NotReady(w, "waiting") /\ Outside
ProbeFails(w) ==
  WorkerAt(w, "ready") /\ Verdict(w) = "unknown" /\ NotReady(w, "waiting") /\ Outside
ProbeSucceeds(w) ==
  /\ WorkerAt(w, "ready") /\ Verdict(w) = "unknown"
  /\ WorkerBecomes(w, [worker[w] EXCEPT !.pc = "pack", !.state[RoleProvider[Role(w)]] = "ready"])
  /\ Outside

\* The artifact server has the pinned artifact, or another one or an unpinned one.
PackFetched(w) == WorkerAt(w, "pack") /\ WorkerGoto(w, "call") /\ Outside
PackRefused(w) == WorkerAt(w, "pack") /\ WorkerGoto(w, "account") /\ Outside

\* One more call, and what the worker goes on to do.
Called(w, x) == WorkerBecomes(w, [x EXCEPT !.calls = @ + 1])
Sends(w, outcome) ==
  Called(w, [worker[w] EXCEPT !.pc = "submit", !.outcome = outcome])

\* An attempt costs one answer without JSON, or one more rejected answer than
\* there are corrections.
Price == MaxCorrections + 1
AnswersRefused(w, n) == refused' = [refused EXCEPT ![w] = @ + n]

CanCall(w) == WorkerAt(w, "call") /\ ~BudgetSpent(w)
ModelAnswer(w, a) == CanCall(w) /\ a.object /\ a.list

NoCallLeft(w) == WorkerAt(w, "call") /\ BudgetSpent(w) /\ WorkerGoto(w, "account") /\ Outside

\* Mutant: what the runner printed is read as the model's answer.
TransportIsAnswer(w) == CanCall(w) /\ Sends(w, "malformed") /\ Outside

\* The runner or its provider failed: the verdict on the route is dropped and
\* nothing is sent.
TransportFails(w) ==
  /\ CanCall(w)
  /\ Called(w, [worker[w] EXCEPT !.pc = "account", !.state[RoleProvider[Role(w)]] = "unknown"])
  /\ Outside

\* Not a JSON object: the attempt is spent at once.
Unparseable(w) ==
  /\ CanCall(w) /\ \E a \in ModelAnswers : ~a.object
  /\ Sends(w, "malformed") /\ AnswersRefused(w, Price)
  /\ UNCHANGED <<newest, service, file, lock, late>>

\* Claims that are not a list: the harness raises, and the run is left.
NotAList(w) ==
  /\ CanCall(w) /\ \E a \in ModelAnswers : a.object /\ ~a.list
  /\ Called(w, [worker[w] EXCEPT !.pc = "account", !.obtained = FALSE])
  /\ Outside

AnswerPasses(w) ==
  /\ \E a \in ModelAnswers : ModelAnswer(w, a) /\ Preflight(Role(w), a) = Absent
  /\ Sends(w, "accepted")
  /\ Outside

\* A rejected answer is corrected MaxCorrections times before the last one is
\* sent as malformed.
AnswerFails(w) ==
  /\ \E a \in ModelAnswers :
       /\ ModelAnswer(w, a)
       /\ Preflight(Role(w), a) # Absent /\ ~HarnessOwned(Preflight(Role(w), a))
       /\ IF worker[w].tried < MaxCorrections
            THEN Called(w, [worker[w] EXCEPT !.tried = @ + 1])
            ELSE Sends(w, "malformed")
  /\ AnswersRefused(w, 1)
  /\ UNCHANGED <<newest, service, file, lock, late>>

\* A rejection that names a field of the harness ends the drive, unsent.
HarnessDefect(w) ==
  /\ \E a \in ModelAnswers : ModelAnswer(w, a) /\ HarnessOwned(Preflight(Role(w), a))
  /\ Called(w, [worker[w] EXCEPT !.pc = "account"])
  /\ Outside

-----------------------------------------------------------------------------
(* The submission.                                                         *)

\* What the service makes of an attempt: CommitteeRun in short. The neutrals
\* come first, and agree or not; a reviewer resolves the rest or not.
Ended(state) == [state |-> state, stage |-> 1, tries |-> 0]
Routed(s, outcome) ==
  IF outcome = "malformed"
  THEN {IF s.tries + 1 < MaxTries THEN [s EXCEPT !.tries = @ + 1] ELSE Ended("ESCALATE")}
  ELSE (IF s.stage < Len(RoleOrder) THEN {[s EXCEPT !.stage = @ + 1, !.tries = 0]} ELSE {})
       \cup (IF s.stage > 1 THEN {Ended("SCORED")} ELSE {})
       \cup (IF RoleOrder[s.stage] = "arbiter" THEN {Ended("ESCALATE")} ELSE {})

\* The service records the attempt.
AttemptRecorded(w) ==
  LET x == worker[w] r == x.run IN
  /\ WorkerAt(w, "submit") /\ ~x.dry /\ Service(w).state = "OPEN"
  /\ \E s \in Routed(Service(w), x.outcome) : service' = [service EXCEPT ![r] = s]
  /\ refused' = IF x.outcome = "malformed" THEN [refused EXCEPT ![w] = @ - Price]
                ELSE refused
  /\ late' = IF Cycle[r] # newest /\ ~x.asked THEN late \cup {r} ELSE late
  /\ UNCHANGED <<newest, file, lock>>

\* Its reply arrives, or is lost on the way.
SubmitAttempt(w) ==
  /\ AttemptRecorded(w)
  /\ WorkerGoto(w, IF service'[worker[w].run].state \in FinalStates THEN "account" ELSE "work")
ReplyLost(w) == AttemptRecorded(w) /\ Lost(w)

\* The service refuses it, or never receives it; a dry run does not send it.
NotSubmitted(w) ==
  /\ WorkerAt(w, "submit")
  /\ WorkerGoto(w, "account") \/ (~worker[w].dry /\ Lost(w))
  /\ Outside

-----------------------------------------------------------------------------
(* The end of a run and of the invocation.                                 *)

\* Mutant: a run that had no work to give is counted as well.
AccountEveryRun(w) ==
  /\ WorkerAt(w, "account")
  /\ LET x == worker[w] IN
     IF x.unready THEN Leave(w)
     ELSE WorkerBecomes(w, [Resting EXCEPT !.pc = "scan", !.asked = x.asked, !.dry = x.dry,
            !.state = x.state, !.cycle = x.cycle, !.todo = x.todo, !.calls = x.calls,
            !.runs = x.runs + 1])
  /\ refused' = [refused EXCEPT ![w] = 0]
  /\ UNCHANGED <<newest, service, file, lock, late>>

\* _account_run, and the way out when a provider is unready.
Account(w) ==
  /\ WorkerAt(w, "account")
  /\ LET x == worker[w] IN
     IF x.unready THEN Leave(w)
     ELSE WorkerBecomes(w, [Resting EXCEPT !.pc = "scan", !.asked = x.asked, !.dry = x.dry,
            !.state = x.state, !.cycle = x.cycle, !.todo = x.todo, !.calls = x.calls,
            !.runs = IF x.obtained THEN x.runs + 1 ELSE x.runs])
  /\ refused' = [refused EXCEPT ![w] = 0]
  /\ UNCHANGED <<newest, service, file, lock, late>>

\* write_state, and the lock goes with the process.
Finish(w) ==
  /\ WorkerAt(w, "finish")
  /\ file' = worker[w].state /\ lock' = Absent
  /\ WorkerBecomes(w, Resting)
  /\ UNCHANGED <<newest, service, late, refused>>

\* A kill, or a model call that outlives its timeout: nothing is written.
Die(w) ==
  /\ ~WorkerAt(w, "idle")
  /\ lock' = IF lock = w THEN Absent ELSE lock
  /\ WorkerBecomes(w, Resting)
  /\ UNCHANGED <<newest, service, file, late, refused>>

-----------------------------------------------------------------------------

WorkerInit ==
  /\ RoutesAreIndependent
  /\ newest = 1
  /\ service = [r \in Runs |-> Ended("none")]
  /\ file = [p \in RoutedProviders |-> "unknown"]
  /\ lock = Absent
  /\ worker = [w \in Workers |-> Resting]
  /\ late = {} /\ refused = [w \in Workers |-> 0]

Drive(w) ==
  \/ Start(w) \/ Lock(w) \/ Select(w) \/ Scan(w)
  \/ GetWork(w) \/ StillReady(w) \/ StillWaiting(w) \/ ProbeFails(w) \/ ProbeSucceeds(w)
  \/ PackFetched(w) \/ PackRefused(w) \/ NoCallLeft(w) \/ TransportFails(w)
  \/ Unparseable(w) \/ NotAList(w)
  \/ AnswerPasses(w) \/ AnswerFails(w) \/ HarnessDefect(w)
  \/ SubmitAttempt(w) \/ ReplyLost(w) \/ NotSubmitted(w) \/ Account(w) \/ Finish(w)

Disturb(w) ==
  \/ ProbeOnly(w) \/ OutOfTime(w) \/ RequestFails(w) \/ Die(w)
  \/ \E r \in Runs : SelectOne(w, r)

WorkerNext ==
  \/ NewCycle
  \/ \E r \in Runs : CreateRun(r)
  \/ \E p \in RoutedProviders : Age(p)
  \/ \E w \in Workers : Drive(w) \/ (Faults /\ Disturb(w))

WorkerSpec == WorkerInit /\ [][WorkerNext]_workerVars

\* The timer starts an invocation again and again and a started one proceeds. What
\* the worker asks of others does not fail for ever: a probe, the artifact server,
\* the model, the service.
FairWorkerSpec ==
  /\ WorkerSpec
  /\ \A p \in RoutedProviders : WF_workerVars(Age(p))
  /\ \A w \in Workers : WF_workerVars(Drive(w))
  /\ \A w \in Workers : SF_workerVars(ProbeSucceeds(w))
  /\ \A w \in Workers : SF_workerVars(PackFetched(w))
  /\ \A w \in Workers : SF_workerVars(AnswerPasses(w))
  /\ \A w \in Workers : SF_workerVars(SubmitAttempt(w))

-----------------------------------------------------------------------------
(* Properties.                                                             *)

\* The attempts of a role are bounded and escalate the run, so one is spent only
\* on the model's answers: one without JSON, or three the validator refused.
\* Failures of the runner, the provider, the transport or the budget cost none.
AttemptsAreEarned == \A w \in Workers : refused[w] >= 0

\* A run of the newest cycle is driven to its end as long as no newer cycle comes,
\* whatever runs before it in the order have ended without a score, or are in
\* trouble: the worker passes over them and does not spend its budget on them.
ActionableIsDriven ==
  \A r \in Runs : (service[r].state = "OPEN" /\ Cycle[r] = newest)
                    ~> (service[r].state \in FinalStates \/ Cycle[r] # newest)

\* superseded: of a cycle with a successor, at most the run that was being
\* driven when the successor came moves on; no superseded cycle races it.
SupersededIsLeft ==
  \A r, q \in late : Cycle[r] = Cycle[q] => r = q
=============================================================================
