----------------------------- MODULE Screening ------------------------------
(***************************************************************************)
(* The ledger of screening runs: processes that overlap, die and are run   *)
(* again, each loading the evidence as of one moment (live or through a    *)
(* snapshot of it), registering its screens, beginning or resuming the run *)
(* its inputs hash to, storing one population per screen, completing the   *)
(* run and then, in transactions of their own, its candidates and flags.   *)
(*                                                                         *)
(* Evidence that was public before the moment but arrives later changes    *)
(* the view, and with it the run.  A process runs a version of the code: a *)
(* screen specification and a body that computes a result or raises.       *)
(***************************************************************************)
EXTENDS Integers, Sequences, FiniteSets

CONSTANTS
  Processes, Screens,
  Codes,      \* the deployed versions: [spec, body], body = "raises" for one that does
  LastView,   \* bound: how often the evidence as of the moment changes
  Missing

VARIABLES
  view,         \* the current evidence as of the moment
  definitions,  \* screen_definition: the specification stored for each screen
  pipelineRuns, \* pipeline_run: status, input_snapshot_id, flags
  results,      \* screen_result: the populations of each run
  stored,       \* candidate: what the funnel of each run stored
  proc          \* each process: its step, code, run and current screen

screenVars == <<view, definitions, pipelineRuns, results, stored, proc>>

Specs == {c.spec : c \in Codes}
Keys == (0 .. LastView) \X Specs
Bodies == {c.body : c \in Codes}
Population == [1 .. Screens -> Bodies]
RunStatus == {"RUNNING", "FAILED", "COMPLETE"}
RunRecord == [status : RunStatus, via : {Missing, "snapshot"}, flags : BOOLEAN]

(* There is a screen to run, and Missing, the absent row, is no row.        *)
ASSUME ScreeningAssumption ==
  /\ LastView \in Nat /\ Screens \in Nat \ {0}
  /\ Missing \notin Bodies \cup Population \cup RunStatus \cup RunRecord

Waiting == [pc |-> "idle", code |-> Missing, via |-> Missing, key |-> Missing, screen |-> 0, funnel |-> Missing]

ScreeningInit ==
  /\ view = 0
  /\ definitions = [s \in 1 .. Screens |-> Missing]
  /\ pipelineRuns = [k \in Keys |-> Missing]
  /\ results = [k \in Keys |-> [s \in 1 .. Screens |-> Missing]]
  /\ stored = [k \in Keys |-> Missing]
  /\ proc = [p \in Processes |-> Waiting]

AtStep(p, pc) == proc[p].pc = pc
Go(p, pc) == proc' = [proc EXCEPT ![p].pc = pc]
Stop(p) == proc' = [proc EXCEPT ![p] = Waiting]
Status(k) == IF pipelineRuns[k] = Missing THEN Missing ELSE pipelineRuns[k].status
Key(p) == proc[p].key

-----------------------------------------------------------------------------
LateEvidence ==
  /\ view < LastView
  /\ view' = view + 1
  /\ UNCHANGED <<definitions, pipelineRuns, results, stored, proc>>

(* The view is read in one transaction, or from the snapshot of the first. *)
Load(p) ==
  /\ AtStep(p, "idle")
  /\ \E code \in Codes, via \in {Missing, "snapshot"} :
       proc' = [proc EXCEPT ![p] =
         [Waiting EXCEPT !.pc = "save", !.code = code, !.via = via, !.screen = 1,
                      !.key = <<IF via = Missing THEN view ELSE 0, code.spec>>]]
  /\ UNCHANGED <<view, definitions, pipelineRuns, results, stored>>

(* save_screen_definition: a version of a screen is reused with its bytes   *)
(* or not at all.                                                           *)
SaveDefinition(p) ==
  LET s == proc[p].screen  spec == proc[p].code.spec
  IN  /\ AtStep(p, "save")
      /\ IF definitions[s] \in {Missing, spec}
         THEN /\ definitions' = [definitions EXCEPT ![s] = spec]
              /\ proc' = [proc EXCEPT ![p].pc = IF s < Screens THEN "save" ELSE "begin",
                                      ![p].screen = IF s < Screens THEN s + 1 ELSE 1]
         ELSE Stop(p) /\ UNCHANGED definitions
      /\ UNCHANGED <<view, pipelineRuns, results, stored>>

(* begin_run: the snapshot is an immutable input of the run although it is  *)
(* not part of what identifies it.                                          *)
BeginRun(p) ==
  LET k == Key(p)
  IN  /\ AtStep(p, "begin")
      /\ \/ /\ pipelineRuns[k] = Missing
            /\ pipelineRuns' = [pipelineRuns EXCEPT ![k] = [status |-> "RUNNING", via |-> proc[p].via, flags |-> FALSE]]
            /\ Go(p, "verify")
         \/ /\ pipelineRuns[k] # Missing
            /\ IF pipelineRuns[k].via = proc[p].via /\ pipelineRuns[k].status # "FAILED" THEN Go(p, "verify") ELSE Stop(p)
            /\ UNCHANGED pipelineRuns
      /\ UNCHANGED <<view, definitions, results, stored>>

NextScreen(p) ==
  proc' = [proc EXCEPT ![p].pc = IF proc[p].screen < Screens THEN "verify" ELSE "complete",
                       ![p].screen = IF proc[p].screen < Screens THEN proc[p].screen + 1 ELSE 1]

(* verify_screen_population: a population that is there is not recomputed.  *)
VerifyPopulation(p) ==
  /\ AtStep(p, "verify")
  /\ IF results[Key(p)][proc[p].screen] # Missing THEN NextScreen(p)
     ELSE Go(p, IF proc[p].code.body = "raises" THEN "failing" ELSE "persist")
  /\ UNCHANGED <<view, definitions, pipelineRuns, results, stored>>

(* persist_screen_population: insert or verify, the whole population in one *)
(* transaction; a difference rolls it back and then fails the run.          *)
PersistPopulation(p) ==
  LET k == Key(p)  s == proc[p].screen  body == proc[p].code.body
  IN  /\ AtStep(p, "persist")
      /\ \/ /\ Status(k) # "FAILED" /\ results[k][s] = Missing /\ Status(k) # "COMPLETE"
            /\ results' = [results EXCEPT ![k][s] = body]
            /\ NextScreen(p)
         \/ /\ Status(k) # "FAILED" /\ results[k][s] = body
            /\ NextScreen(p) /\ UNCHANGED results
         \/ /\ \/ Status(k) = "FAILED"
               \/ results[k][s] \notin {Missing, body}
               \/ results[k][s] = Missing /\ Status(k) = "COMPLETE"
            /\ Go(p, "failing") /\ UNCHANGED results
      /\ UNCHANGED <<view, definitions, pipelineRuns, stored>>

\* Mutant: a run that is already complete can still be failed.
CompletedToo(k) == Status(k) \in {"RUNNING", "COMPLETE"}

CanFail(k) == Status(k) = "RUNNING"

FailRun(p) ==
  LET k == Key(p)
  IN  /\ AtStep(p, "failing")
      /\ pipelineRuns' = IF CanFail(k) THEN [pipelineRuns EXCEPT ![k].status = "FAILED"] ELSE pipelineRuns
      /\ Stop(p)
      /\ UNCHANGED <<view, definitions, results, stored>>

(* complete_run: the counts are verified in a transaction before it.        *)
VerifyCounts(p) ==
  /\ AtStep(p, "complete")
  /\ IF \A s \in 1 .. Screens : results[Key(p)][s] # Missing THEN Go(p, "finish") ELSE Stop(p)
  /\ UNCHANGED <<view, definitions, pipelineRuns, results, stored>>

CompleteRun(p) ==
  LET k == Key(p)
  IN  /\ AtStep(p, "finish")
      /\ IF Status(k) = "FAILED" THEN Stop(p) /\ UNCHANGED pipelineRuns
         ELSE pipelineRuns' = [pipelineRuns EXCEPT ![k].status = "COMPLETE"] /\ Go(p, "funnel")
      /\ UNCHANGED <<view, definitions, results, stored>>

(* The funnel is a function of the stored results and of the run's inputs.  *)
ApplyFunnel(p) ==
  /\ AtStep(p, "funnel")
  /\ proc' = [proc EXCEPT ![p].pc = "candidates", ![p].funnel = results[Key(p)]]
  /\ UNCHANGED <<view, definitions, pipelineRuns, results, stored>>

PersistCandidates(p) ==
  LET k == Key(p)
  IN  /\ AtStep(p, "candidates")
      /\ IF Status(k) = "COMPLETE" /\ stored[k] \in {Missing, proc[p].funnel}
         THEN stored' = [stored EXCEPT ![k] = proc[p].funnel] /\ Go(p, "flags")
         ELSE Stop(p) /\ UNCHANGED stored
      /\ UNCHANGED <<view, definitions, pipelineRuns, results>>

PersistFlags(p) ==
  LET k == Key(p)
  IN  /\ AtStep(p, "flags")
      /\ pipelineRuns' = IF Status(k) = "COMPLETE" THEN [pipelineRuns EXCEPT ![k].flags = TRUE] ELSE pipelineRuns
      /\ Stop(p)
      /\ UNCHANGED <<view, definitions, results, stored>>

ProcessDies(p) ==
  /\ ~AtStep(p, "idle")
  /\ Stop(p)
  /\ UNCHANGED <<view, definitions, pipelineRuns, results, stored>>

Step(p) ==
  \/ Load(p) \/ SaveDefinition(p) \/ BeginRun(p) \/ VerifyPopulation(p) \/ PersistPopulation(p)
  \/ FailRun(p) \/ VerifyCounts(p) \/ CompleteRun(p) \/ ApplyFunnel(p) \/ PersistCandidates(p)
  \/ PersistFlags(p) \/ ProcessDies(p)

ScreeningNext == LateEvidence \/ \E p \in Processes : Step(p)

ScreeningSpec == ScreeningInit /\ [][ScreeningNext]_screenVars

-----------------------------------------------------------------------------
(* Candidates are those of a finished population: a complete run has every  *)
(* screen's population, a run with candidates is complete and they are the  *)
(* funnel of exactly what it stores, flags come after the candidates, and a *)
(* run that failed has neither, whatever overlaps, dies or is run again by  *)
(* another version of the code (run_screening and ScreenStore).             *)
CandidatesAreTheFunnel ==
  \A k \in Keys :
    /\ Status(k) = "COMPLETE" => \A s \in 1 .. Screens : results[k][s] # Missing
    /\ stored[k] # Missing => Status(k) = "COMPLETE" /\ stored[k] = results[k]
    /\ Status(k) # Missing /\ pipelineRuns[k].flags => stored[k] # Missing
=============================================================================
