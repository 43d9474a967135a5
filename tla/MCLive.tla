------------------------------- MODULE MCLive --------------------------------
(***************************************************************************)
(* What must happen in the end, for TLC.  A behaviour chooses one part and *)
(* the others rest in their initial states: "review", one request at a     *)
(* time on a committee run (CommitteeRun); "worker", the timer's           *)
(* invocations of the model worker (CommitteeWorker); "watch", the passes  *)
(* of the freshness watch (Freshness).                                     *)
(***************************************************************************)
EXTENDS CommitteeRun, MCAnswers

CONSTANTS
  Pack, Taxonomy, Runs, Cycle, RoleOrder, RoleProvider, ModelAnswers,    \* CommitteeWorker
  Workers, Modes,
  Symbols, Active, Invocations                                      \* Freshness

VARIABLES
  part,
  newest, service, file, lock, worker, late, refused,
  row, bar, ledger, failing, retired, reserved, inv,
  point, checkpoint, quarantine, watch, claimed, unpaid

workerVars == <<newest, service, file, lock, worker, late, refused>>
watchVars == <<row, bar, ledger, failing, retired, reserved, inv,
               point, checkpoint, quarantine, watch, claimed, unpaid>>
liveVars == <<part, vars, workerVars, watchVars>>

MCCycle == [r \in Runs |-> 1]

Worker == INSTANCE CommitteeWorker WITH
  ClaimsTotal <- 2, MaterialClaims <- 1, MaterialThreshold <- 3, LastCycle <- 1,
  MaxRuns <- 1, MaxModelCalls <- 1, MaxCorrections <- 0,
  ScanFactor <- 2, MaxRoles <- 3, MaxTries <- 2, Faults <- FALSE
Watch == INSTANCE MCFreshness WITH
  Budget <- 1, Ceiling <- 1, MaxPerRun <- 1, MaxTotal <- 2, Starved <- FALSE, Killable <- FALSE

LiveInit ==
  /\ part \in {"review", "worker", "watch"}
  /\ Init /\ Worker!WorkerInit /\ Watch!MCInit
  /\ part # "watch" => retired = {}

(* A step of one part, during which the others rest.                        *)
ReviewStep(A) ==
  part = "review" /\ A /\ UNCHANGED <<part, workerVars, watchVars>>
WorkerStep(A) ==
  part = "worker" /\ A /\ UNCHANGED <<part, vars, watchVars>>
WatchStep(A) ==
  part = "watch" /\ A /\ UNCHANGED <<part, vars, workerVars>>

LiveNext ==
  \/ ReviewStep(Next)
  \/ WorkerStep(Worker!WorkerNext)
  \/ WatchStep(Watch!Next)

-----------------------------------------------------------------------------
(* The fairness of each part, as its own module states it.  The parts never *)
(* mix, so one condition can carry one action of each.                      *)
Mine(review, timer, pass) == ReviewStep(review) \/ WorkerStep(timer) \/ WatchStep(pass)

FirstStep ==
  Mine(State = "none" /\ Create("r1"), Worker!ProbeSucceeds("w1"),
       Watch!ReadPending /\ watch'.todo = {s \in Symbols : point[s].disposition = "PENDING"})
SecondStep == Mine(Poll("r1"), Worker!PackFetched("w1"), Watch!TakeSymbol \/ Watch!GiveUp)
ThirdStep ==
  Mine(Answer("r1"), Worker!AnswerPasses("w1"), Watch!TryFetch /\ watch'.result # "QUOTA")
FourthStep == WorkerStep(Worker!SubmitAttempt("w1"))

RunsOn == Mine(Advance("r1"), Worker!Drive("w1"), Watch!WatchStep)
TimePasses(provider) == WorkerStep(Worker!Age(provider))

LiveSpec ==
  /\ LiveInit /\ [][LiveNext]_liveVars
  /\ WF_liveVars(RunsOn) /\ WF_liveVars(TimePasses("p1")) /\ WF_liveVars(TimePasses("p2"))
  /\ SF_liveVars(FirstStep) /\ SF_liveVars(SecondStep)
  /\ SF_liveVars(ThirdStep) /\ SF_liveVars(FourthStep)
  /\ <>[][Stop("r1") => Advance("r1")]_liveVars

-----------------------------------------------------------------------------
\* Every committee run is scored, escalated or blocked (CommitteeRun.tla).
EveryRunIsDecided == (part = "review") ~> (part = "review" /\ RunIsOver)

\* A run of the newest cycle is driven to its end (CommitteeWorker.tla).
ActionableIsDriven == Worker!ActionableIsDriven

\* What owes a repair is settled, what is repaired returns (Freshness.tla).
RepairsEnd == Watch!RepairsEnd
=============================================================================
