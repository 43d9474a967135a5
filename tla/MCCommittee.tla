----------------------------- MODULE MCCommittee -----------------------------
(***************************************************************************)
(* The committee for TLC, in two parts that a behaviour chooses between:   *)
(* "run", overlapping requests on one run (CommitteeRun), and "worker",    *)
(* one invocation of the model worker after another over two runs and two  *)
(* cycles (CommitteeWorker).  The other part rests in its initial state.   *)
(***************************************************************************)
EXTENDS MCCommitteeRun, CommitteeWorker

INSTANCE MCAnswers

VARIABLE part

MCCycle == [r \in Runs |-> 1]

ASSUME WorkerConstantsFit == WorkerConstants

MCInit == part \in {"run", "worker"} /\ Init /\ WorkerInit

RunMoves == part = "run" /\ Next /\ UNCHANGED <<part, workerVars>>
WorkerMoves == part = "worker" /\ WorkerNext /\ UNCHANGED <<part, vars>>

MCSpec == MCInit /\ [][RunMoves \/ WorkerMoves]_<<part, vars, workerVars>>
=============================================================================
