--------------------------- MODULE ScreeningProofs --------------------------
(***************************************************************************)
(* For every number of processes, screens, code versions and late arrivals *)
(* of evidence: the candidates of a run are the funnel of its complete     *)
(* population.                                                             *)
(*                                                                         *)
(* CandidatesAreTheFunnel is not inductive: each of the three transactions *)
(* that follow complete_run relies on what its process saw in an earlier   *)
(* one.  The invariant says why that is still true when it is used.  A     *)
(* population is only ever written where it is missing and no row leaves   *)
(* COMPLETE, so what VerifyCounts counted, the funnel that was computed    *)
(* and the candidates that were stored stay current.                       *)
(*                                                                         *)
(* For every universe, budget and population: the choice of candidates is  *)
(* fair.  A list sorted by a key holds each element at its rank, the       *)
(* number of those before it, and the ranks are the numbers below the size *)
(* of the set (RanksCount).  So the first m turns of the round-robin are   *)
(* closed towards the front, of the whole and of each sector (RoundRobin). *)
(*                                                                         *)
(* For any number of pipelines, baselines, ablations, folds and horizons:  *)
(* the holdout of a regime is final.  A holdout relies on what its         *)
(* pipeline did long before.  The invariant follows a pipeline: what it    *)
(* holds open belongs to its phase, every attempt it left running is held  *)
(* open, and after the first phase every baseline is measured for good.    *)
(***************************************************************************)
EXTENDS Screening, Funnel, Experiments, Sums

Started == {"verify", "persist", "failing", "complete"}
Counted == {"finish", "funnel", "candidates", "flags"}
Steps == {"save", "begin"} \cup Started \cup Counted

Populated(k) == \A s \in 1 .. Screens : results[k][s] # Missing

PossiblyPopulated == [1 .. Screens -> Bodies \cup {Missing}]
ProcessState ==
  [pc : Steps \cup {"idle"}, code : Codes \cup {Missing}, via : {Missing, "snapshot"},
   key : Keys \cup {Missing}, screen : 0 .. Screens, funnel : PossiblyPopulated \cup {Missing}]

RowsOK ==
  /\ pipelineRuns \in [Keys -> RunRecord \cup {Missing}]
  /\ results \in [Keys -> PossiblyPopulated]
  /\ stored \in [Keys -> Population \cup {Missing}]

TypeOK == view \in 0 .. LastView /\ RowsOK /\ proc \in [Processes -> ProcessState]

(* A process that has begun has a run to work on.                          *)
Working(r) ==
  /\ r.pc \in Steps => r.key \in Keys /\ r.code \in Codes /\ r.screen \in 1 .. Screens
  /\ r.pc \in Started \cup Counted => pipelineRuns[r.key] # Missing

(* What a process learnt in one transaction holds in the next.             *)
Learnt(r) ==
  /\ r.pc \in Counted => Populated(r.key)
  /\ r.pc \in {"funnel", "candidates", "flags"} => Status(r.key) = "COMPLETE"
  /\ r.pc = "candidates" => r.funnel = results[r.key]
  /\ r.pc = "flags" => stored[r.key] # Missing

Sound(r) == Working(r) /\ Learnt(r)

Inv ==
  /\ TypeOK
  /\ \A p \in Processes : Sound(proc[p])
  /\ CandidatesAreTheFunnel

-----------------------------------------------------------------------------
LEMMA InitInv == ScreeningInit => Inv
<1> SUFFICES ASSUME ScreeningInit PROVE Inv
  OBVIOUS
<1> USE ScreeningAssumption DEF ScreeningInit
<1>1. TypeOK
  BY DEF TypeOK, RowsOK, ProcessState, PossiblyPopulated, Waiting
<1>2. \A p \in Processes : Sound(proc[p])
  BY DEF Sound, Working, Learnt, Waiting, Steps, Started, Counted
<1>3. CandidatesAreTheFunnel
  BY DEF CandidatesAreTheFunnel, Status, RunStatus
<1> QED BY <1>1, <1>2, <1>3 DEF Inv

(* Rows only move forward: a complete run stays complete with its          *)
(* populations, and candidates that are there stay there.                  *)
Forward ==
  \A k \in Keys :
    /\ pipelineRuns[k] # Missing => pipelineRuns'[k] # Missing
    /\ Status(k) = "COMPLETE" => Status(k)' = "COMPLETE"
    /\ Populated(k) => results'[k] = results[k]
    /\ stored[k] # Missing => stored'[k] = stored[k]

(* A process that does not move keeps what it learnt.                      *)
LEMMA SoundStays ==
  ASSUME Forward, NEW r \in ProcessState, Sound(r)
  PROVE  Sound(r)'
<1>1. CASE r.pc \notin Steps
  BY <1>1 DEF Sound, Working, Learnt, Steps, Started, Counted
<1>2. CASE r.pc \in Steps
  <2>1. PICK k \in Keys : k = r.key
    BY <1>2 DEF Sound, Working
  <2>2. /\ pipelineRuns[k] # Missing => pipelineRuns'[k] # Missing
        /\ Status(k) = "COMPLETE" => Status(k)' = "COMPLETE"
        /\ Populated(k) => results'[k] = results[k]
        /\ stored[k] # Missing => stored'[k] = stored[k]
    BY DEF Forward
  <2>3. Populated(k) => Populated(k)'
    BY <2>2 DEF Populated
  <2>4. Working(r)'
    BY <2>1, <2>2 DEF Sound, Working
  <2>5. Learnt(r)'
    <3>1. r.pc \in Counted => Populated(r.key)'
      BY <2>1, <2>3 DEF Sound, Learnt
    <3>2. r.pc \in {"funnel", "candidates", "flags"} => Status(r.key)' = "COMPLETE"
      BY <2>1, <2>2 DEF Sound, Learnt
    <3>3. r.pc = "candidates" => r.funnel = results'[r.key]
      BY <2>1, <2>2 DEF Sound, Learnt, Counted
    <3>4. r.pc = "flags" => stored'[r.key] # Missing
      BY <2>1, <2>2 DEF Sound, Learnt
    <3> QED BY <3>1, <3>2, <3>3, <3>4 DEF Learnt
  <2> QED BY <2>4, <2>5 DEF Sound
<1> QED BY <1>1, <1>2

(* One process moves; what it writes moves rows forward.                   *)
LEMMA OneMoves ==
  ASSUME Inv, view' = view, RowsOK', Forward, CandidatesAreTheFunnel',
         NEW p \in Processes, NEW r \in ProcessState, proc' = [proc EXCEPT ![p] = r], Sound(r)'
  PROVE  Inv'
<1> USE DEF Inv, TypeOK
<1>1. TypeOK'
  OBVIOUS
<1>2. ASSUME NEW q \in Processes PROVE Sound(proc[q])'
  <2>1. CASE q = p
    <3>1. proc'[q] = r
      BY <2>1
    <3> QED BY <3>1 DEF Sound, Working, Learnt
  <2>2. CASE q # p
    <3>1. PICK o \in ProcessState : o = proc[q] /\ o = proc'[q]
      BY <2>2
    <3>2. Sound(o)'
      BY <3>1, SoundStays
    <3> QED BY <3>1, <3>2 DEF Sound, Working, Learnt
  <2> QED BY <2>1, <2>2
<1> QED BY <1>1, <1>2

LEMMA Reads ==
  ASSUME Inv, UNCHANGED <<view, pipelineRuns, results, stored>>,
         NEW p \in Processes, NEW r \in ProcessState, proc' = [proc EXCEPT ![p] = r], Sound(r)
  PROVE  Inv'
<1>1. Forward
  BY DEF Forward, Status
<1>2. RowsOK' /\ CandidatesAreTheFunnel'
  BY DEF Inv, TypeOK, RowsOK, CandidatesAreTheFunnel, Status
<1>3. Sound(r)'
  BY DEF Sound, Working, Learnt, Populated, Status
<1> QED BY <1>1, <1>2, <1>3, OneMoves

LEMMA IdleIsSound == Waiting \in ProcessState /\ Sound(Waiting) /\ Sound(Waiting)'
  BY ScreeningAssumption DEF Waiting, ProcessState, Sound, Working, Learnt, Steps, Started, Counted

LEMMA State == ASSUME Inv, NEW p \in Processes PROVE proc[p] \in ProcessState /\ Sound(proc[p]) /\ RowsOK
  BY DEF Inv, TypeOK

LEMMA Begun ==
  ASSUME Inv, NEW p \in Processes, proc[p].pc \in Steps
  PROVE  /\ proc[p].key \in Keys /\ proc[p].code \in Codes /\ proc[p].screen \in 1 .. Screens
         /\ proc[p].pc \in Started \cup Counted => pipelineRuns[proc[p].key] # Missing
  BY State DEF Sound, Working

(* A process that has begun, after a change of its step.                   *)
LEMMA Moved ==
  ASSUME Inv, NEW p \in Processes, proc[p].pc \in Steps, NEW pc \in Steps, NEW s \in 1 .. Screens,
         proc' \in {[proc EXCEPT ![p].pc = pc], [proc EXCEPT ![p].pc = pc, ![p].screen = s]}
  PROVE  \E r \in ProcessState :
           /\ proc' = [proc EXCEPT ![p] = r] /\ r.pc = pc
           /\ r.key = proc[p].key /\ r.code = proc[p].code /\ r.screen \in 1 .. Screens
<1>1. PICK o \in ProcessState : o = proc[p] /\ o.screen \in 1 .. Screens
  BY State, Begun
<1>2. CASE proc' = [proc EXCEPT ![p].pc = pc]
  <2>1. PICK r : r = [o EXCEPT !.pc = pc]
    OBVIOUS
  <2>2. r \in ProcessState /\ r.pc = pc /\ r.key = o.key /\ r.code = o.code /\ r.screen = o.screen
    BY <2>1 DEF ProcessState
  <2>3. proc' = [proc EXCEPT ![p] = r]
    BY <1>1, <1>2, <2>1
  <2> QED BY <1>1, <2>2, <2>3
<1>3. CASE proc' = [proc EXCEPT ![p].pc = pc, ![p].screen = s]
  <2>1. PICK r : r = [o EXCEPT !.pc = pc, !.screen = s]
    OBVIOUS
  <2>2. r \in ProcessState /\ r.pc = pc /\ r.key = o.key /\ r.code = o.code /\ r.screen = s
    <3>1. s \in 0 .. Screens
      BY ScreeningAssumption
    <3> QED BY <2>1, <3>1 DEF ProcessState
  <2>3. proc' = [proc EXCEPT ![p] = r]
    <3>1. proc' = [[proc EXCEPT ![p].pc = pc] EXCEPT ![p].screen = s]
      BY <1>3
    <3> QED BY <1>1, <2>1, <3>1
  <2> QED BY <1>1, <2>2, <2>3
<1> QED BY <1>2, <1>3

LEMMA Gone ==
  ASSUME Inv, NEW p \in Processes, proc[p].pc \in Steps, NEW pc \in Steps, Go(p, pc)
  PROVE  \E r \in ProcessState :
           /\ proc' = [proc EXCEPT ![p] = r] /\ r.pc = pc
           /\ r.key = proc[p].key /\ r.code = proc[p].code /\ r.screen \in 1 .. Screens
<1>1. PICK s \in 1 .. Screens : s = proc[p].screen
  BY Begun
<1>2. proc' \in {[proc EXCEPT ![p].pc = pc], [proc EXCEPT ![p].pc = pc, ![p].screen = s]}
  BY DEF Go
<1> QED BY <1>2, Moved

-----------------------------------------------------------------------------
(* The actions that write no row of the run.                               *)
LEMMA LoadInv == ASSUME Inv, NEW p \in Processes, Load(p) PROVE Inv'
<1> USE ScreeningAssumption
<1>1. PICK code \in Codes, via \in {Missing, "snapshot"} :
        proc' = [proc EXCEPT ![p] =
          [Waiting EXCEPT !.pc = "save", !.code = code, !.via = via, !.screen = 1,
                       !.key = <<IF via = Missing THEN view ELSE 0, code.spec>>]]
  BY DEF Load
<1>2. PICK k \in Keys : k = <<IF via = Missing THEN view ELSE 0, code.spec>>
  <2>1. (IF via = Missing THEN view ELSE 0) \in 0 .. LastView
    BY DEF Inv, TypeOK
  <2> QED BY <2>1 DEF Keys, Specs
<1>3. PICK r : r = [Waiting EXCEPT !.pc = "save", !.code = code, !.via = via, !.screen = 1, !.key = k]
  OBVIOUS
<1>4. r = [pc |-> "save", code |-> code, via |-> via, key |-> k, screen |-> 1, funnel |-> Missing]
  BY <1>3 DEF Waiting
<1>5. r \in ProcessState
  BY <1>4 DEF ProcessState, Steps
<1>6. Sound(r)
  BY <1>4 DEF Sound, Working, Learnt, Steps, Started, Counted
<1>7. proc' = [proc EXCEPT ![p] = r]
  BY <1>1, <1>2, <1>3
<1> QED BY <1>7, <1>5, <1>6, Reads DEF Load

LEMMA StopInv ==
  ASSUME Inv, NEW p \in Processes, Stop(p), UNCHANGED <<view, pipelineRuns, results, stored>>
  PROVE  Inv'
  BY IdleIsSound, Reads DEF Stop

(* A step of a process that has begun and has not counted.                 *)
LEMMA ReadOn ==
  ASSUME Inv, NEW p \in Processes, proc[p].pc \in Steps,
         NEW pc \in Steps \ Counted, pc \in Started => proc[p].pc \in Started, NEW s \in 1 .. Screens,
         proc' \in {[proc EXCEPT ![p].pc = pc], [proc EXCEPT ![p].pc = pc, ![p].screen = s]},
         UNCHANGED <<view, pipelineRuns, results, stored>>
  PROVE  Inv'
<1>1. PICK r \in ProcessState :
        /\ proc' = [proc EXCEPT ![p] = r] /\ r.pc = pc
        /\ r.key = proc[p].key /\ r.code = proc[p].code /\ r.screen \in 1 .. Screens
  BY Moved
<1>2. Sound(r)
  BY <1>1, Begun DEF Sound, Working, Learnt, Counted
<1> QED BY <1>1, <1>2, Reads

LEMMA SaveDefinitionInv == ASSUME Inv, NEW p \in Processes, SaveDefinition(p) PROVE Inv'
<1> USE ScreeningAssumption DEF SaveDefinition, AtStep
<1>1. CASE Stop(p)
  BY <1>1, StopInv
<1>2. CASE ~Stop(p)
  <2>1. proc[p].screen \in 1 .. Screens
    BY State DEF Sound, Working, Steps
  <2>2. PICK pc \in {"save", "begin"}, s \in 1 .. Screens :
          proc' = [proc EXCEPT ![p].pc = pc, ![p].screen = s]
    BY <1>2, <2>1
  <2>3. pc \in Steps \ Counted /\ pc \notin Started /\ proc[p].pc \in Steps
    BY DEF Steps, Counted, Started
  <2> QED BY <2>2, <2>3, ReadOn
<1> QED BY <1>1, <1>2

LEMMA ScreenMoves ==
  ASSUME Inv, NEW p \in Processes, proc[p].pc \in {"verify", "persist"}, NextScreen(p)
  PROVE  \E pc \in {"verify", "complete"}, s \in 1 .. Screens : proc' = [proc EXCEPT ![p].pc = pc, ![p].screen = s]
<1>1. proc[p].screen \in 1 .. Screens
  BY Begun DEF Steps, Started
<1>2. CASE proc[p].screen < Screens
  <2>1. PICK s \in 1 .. Screens : s = proc[p].screen + 1
    BY <1>1, <1>2, ScreeningAssumption
  <2>2. proc' = [proc EXCEPT ![p].pc = "verify", ![p].screen = s]
    BY <1>2, <2>1 DEF NextScreen
  <2> QED BY <2>2
<1>3. CASE ~(proc[p].screen < Screens)
  <2>1. PICK s \in 1 .. Screens : s = 1
    BY ScreeningAssumption
  <2>2. proc' = [proc EXCEPT ![p].pc = "complete", ![p].screen = s]
    BY <1>3, <2>1 DEF NextScreen
  <2> QED BY <2>2
<1> QED BY <1>2, <1>3

LEMMA VerifyPopulationInv == ASSUME Inv, NEW p \in Processes, VerifyPopulation(p) PROVE Inv'
<1> USE ScreeningAssumption DEF VerifyPopulation, AtStep
<1>1. PICK pc \in {"verify", "complete", "failing", "persist"}, s \in 1 .. Screens :
        proc' \in {[proc EXCEPT ![p].pc = pc], [proc EXCEPT ![p].pc = pc, ![p].screen = s]}
  BY ScreenMoves DEF Go
<1>2. pc \in Steps \ Counted /\ proc[p].pc \in Started /\ proc[p].pc \in Steps
  BY DEF Steps, Counted, Started
<1> QED BY <1>1, <1>2, ReadOn

(* What the counts showed is still so when the run is completed.           *)
LEMMA VerifyCountsInv == ASSUME Inv, NEW p \in Processes, VerifyCounts(p) PROVE Inv'
<1> USE DEF VerifyCounts, AtStep
<1>1. CASE Stop(p)
  BY <1>1, StopInv
<1>2. CASE Populated(proc[p].key) /\ Go(p, "finish")
  <2>1. proc[p].pc \in Steps /\ "finish" \in Steps /\ proc[p].pc \in Started
    BY DEF Steps, Started, Counted
  <2>2. PICK r \in ProcessState :
          /\ proc' = [proc EXCEPT ![p] = r] /\ r.pc = "finish"
          /\ r.key = proc[p].key /\ r.code = proc[p].code /\ r.screen \in 1 .. Screens
    BY <1>2, <2>1, Gone
  <2>3. Sound(r)
    BY <1>2, <2>1, <2>2, Begun DEF Sound, Working, Learnt
  <2> QED BY <2>2, <2>3, Reads
<1> QED BY <1>1, <1>2 DEF Populated, Key

LEMMA ApplyFunnelInv == ASSUME Inv, NEW p \in Processes, ApplyFunnel(p) PROVE Inv'
<1> USE DEF ApplyFunnel, AtStep
<1>1. PICK o \in ProcessState : o = proc[p]
  BY State
<1>2. /\ o.key \in Keys /\ o.code \in Codes /\ o.screen \in 1 .. Screens
      /\ pipelineRuns[o.key] # Missing /\ Populated(o.key) /\ Status(o.key) = "COMPLETE"
  BY <1>1, State DEF Sound, Working, Learnt, Steps, Counted
<1>3. results[o.key] \in PossiblyPopulated
  BY <1>2, State DEF RowsOK
<1>4. PICK r : r = [o EXCEPT !.pc = "candidates", !.funnel = results[o.key]] /\ proc' = [proc EXCEPT ![p] = r]
  BY <1>1 DEF Key
<1>5. /\ r \in ProcessState /\ r.pc = "candidates" /\ r.funnel = results[o.key]
      /\ r.key = o.key /\ r.code = o.code /\ r.screen = o.screen
  BY <1>3, <1>4 DEF ProcessState, Steps, Counted
<1>6. Sound(r)
  BY <1>2, <1>5 DEF Sound, Working, Learnt
<1> QED BY <1>4, <1>5, <1>6, Reads

-----------------------------------------------------------------------------
(* The actions that write.                                                 *)
LEMMA BeginRunInv == ASSUME Inv, NEW p \in Processes, BeginRun(p) PROVE Inv'
<1> USE ScreeningAssumption DEF BeginRun, AtStep
<1>1. CASE Stop(p) /\ UNCHANGED pipelineRuns
  BY <1>1, StopInv
<1>2. CASE Go(p, "verify")
  <2>1. proc[p].pc \in Steps /\ "verify" \in Steps
    BY DEF Steps, Started
  <2>2. PICK k \in Keys : k = proc[p].key
    BY <2>1, Begun
  <2>3. PICK r \in ProcessState :
          /\ proc' = [proc EXCEPT ![p] = r] /\ r.pc = "verify"
          /\ r.key = k /\ r.code = proc[p].code /\ r.code \in Codes /\ r.screen \in 1 .. Screens
    BY <1>2, <2>1, <2>2, Gone, Begun
  <2>4. CASE pipelineRuns[k] # Missing /\ UNCHANGED pipelineRuns
    <3>1. Sound(r)
      BY <2>3, <2>4 DEF Sound, Working, Learnt, Counted
    <3> QED BY <2>3, <2>4, <3>1, Reads
  <2>5. CASE pipelineRuns[k] = Missing
             /\ pipelineRuns' = [pipelineRuns EXCEPT ![k] = [status |-> "RUNNING", via |-> proc[p].via, flags |-> FALSE]]
    <3>1. PICK row : row = [status |-> "RUNNING", via |-> proc[p].via, flags |-> FALSE]
      OBVIOUS
    <3>2. row \in RunRecord /\ row.status = "RUNNING" /\ ~row.flags
      <4>1. proc[p].via \in {Missing, "snapshot"}
        BY State DEF ProcessState
      <4> QED BY <3>1, <4>1 DEF RunRecord, RunStatus
    <3>3. pipelineRuns' = [pipelineRuns EXCEPT ![k] = row] /\ row # Missing /\ pipelineRuns \in [Keys -> RunRecord \cup {Missing}]
      BY <2>5, <3>1, <3>2, State DEF RowsOK
    <3>4. RowsOK'
      <4>1. RowsOK
        BY State
      <4>2. pipelineRuns' \in [Keys -> RunRecord \cup {Missing}]
        BY <3>2, <3>3
      <4> QED BY <4>1, <4>2 DEF RowsOK
    <3>5. Status(k) = Missing /\ Status(k)' = "RUNNING" /\ \A j \in Keys \ {k} : pipelineRuns'[j] = pipelineRuns[j] /\ Status(j)' = Status(j)
      BY <2>5, <3>2, <3>3 DEF Status
    <3>6. Forward
      BY <3>3, <3>5 DEF Forward, RunStatus
    <3>7. CandidatesAreTheFunnel'
      <4>1. CandidatesAreTheFunnel
        BY DEF Inv
      <4>2. stored[k] = Missing
        BY <3>5, <4>1 DEF CandidatesAreTheFunnel, RunStatus
      <4>3. ~pipelineRuns'[k].flags
        BY <3>2, <3>3
      <4> QED BY <3>5, <4>1, <4>2, <4>3 DEF CandidatesAreTheFunnel
    <3>8. Sound(r)'
      BY <2>3, <3>3 DEF Sound, Working, Learnt, Counted
    <3> QED BY <2>3, <3>4, <3>6, <3>7, <3>8, OneMoves
  <2> QED BY <2>2, <2>4, <2>5 DEF Key
<1> QED BY <1>1, <1>2

(* A row is written where one is missing, in a run that is not complete.   *)
LEMMA PersistPopulationInv == ASSUME Inv, NEW p \in Processes, PersistPopulation(p) PROVE Inv'
<1> USE ScreeningAssumption DEF PersistPopulation, AtStep
<1>1. PICK k \in Keys : k = proc[p].key
  BY Begun DEF Steps, Started
<1>2. proc[p].screen \in 1 .. Screens /\ proc[p].code \in Codes
  BY Begun DEF Steps, Started
<1>3. PICK pc \in Started, s \in 1 .. Screens :
        proc' \in {[proc EXCEPT ![p].pc = pc], [proc EXCEPT ![p].pc = pc, ![p].screen = s]}
  BY ScreenMoves, <1>2 DEF Go, Started
<1>4. pc \in Steps \ Counted /\ proc[p].pc \in Started /\ proc[p].pc \in Steps
  BY DEF Steps, Counted, Started
<1>5. CASE UNCHANGED results
  BY <1>3, <1>4, <1>5, ReadOn
<1>6. CASE /\ results[k][proc[p].screen] = Missing /\ Status(k) # "COMPLETE"
           /\ results' = [results EXCEPT ![k][proc[p].screen] = proc[p].code.body]
  <2>1. PICK r \in ProcessState :
          /\ proc' = [proc EXCEPT ![p] = r] /\ r.pc = pc
          /\ r.key = k /\ r.code \in Codes /\ r.screen \in 1 .. Screens
    BY <1>1, <1>2, <1>3, <1>4, Moved
  <2>2. RowsOK /\ CandidatesAreTheFunnel
    BY DEF Inv, TypeOK
  <2>3. RowsOK'
    <3>1. proc[p].code.body \in Bodies
      BY <1>2 DEF Bodies
    <3>2. results' \in [Keys -> PossiblyPopulated]
      BY <1>2, <1>6, <2>2, <3>1 DEF RowsOK, PossiblyPopulated
    <3> QED BY <2>2, <3>2 DEF RowsOK
  <2>4. ~Populated(k) /\ stored[k] = Missing /\ \A j \in Keys \ {k} : results'[j] = results[j]
    BY <1>2, <1>6, <2>2 DEF Populated, CandidatesAreTheFunnel, RowsOK
  <2>5. \A j \in Keys : Status(j)' = Status(j)
    BY DEF Status
  <2>6. Forward
    BY <2>4, <2>5 DEF Forward
  <2>7. CandidatesAreTheFunnel'
    BY <1>6, <2>2, <2>4, <2>5 DEF CandidatesAreTheFunnel
  <2>8. pipelineRuns[k] # Missing
    BY <1>1, <1>4, Begun
  <2>9. Sound(r)'
    BY <1>4, <2>1, <2>8 DEF Sound, Working, Learnt, Counted
  <2> QED BY <2>1, <2>3, <2>6, <2>7, <2>9, OneMoves
<1> QED BY <1>1, <1>5, <1>6 DEF Key

(* A write to the row of one run, which was there, that keeps it complete   *)
(* or completes it.                                                         *)
LEMMA RunRowWritten ==
  ASSUME Inv, NEW k \in Keys, pipelineRuns[k] # Missing, NEW row \in RunRecord,
         pipelineRuns' = [pipelineRuns EXCEPT ![k] = row],
         Status(k) = "COMPLETE" => row.status = "COMPLETE",
         row.status = "COMPLETE" => Populated(k),
         row.flags => pipelineRuns[k].flags \/ stored[k] # Missing,
         UNCHANGED <<results, stored>>
  PROVE  RowsOK' /\ Forward /\ CandidatesAreTheFunnel' /\ pipelineRuns'[k] # Missing /\ Status(k)' = row.status
<1> USE ScreeningAssumption
<1>1. RowsOK /\ CandidatesAreTheFunnel
  BY DEF Inv, TypeOK
<1>2. PICK old \in RunRecord : old = pipelineRuns[k]
  BY <1>1 DEF RowsOK
<1>3. pipelineRuns'[k] # Missing /\ pipelineRuns'[k] = row /\ \A j \in Keys \ {k} : pipelineRuns'[j] = pipelineRuns[j]
  BY <1>1 DEF RowsOK
<1>4. Status(k)' = row.status /\ Status(k) = old.status /\ \A j \in Keys \ {k} : Status(j)' = Status(j)
  BY <1>2, <1>3 DEF Status
<1>5. RowsOK'
  <2>1. pipelineRuns' \in [Keys -> RunRecord \cup {Missing}]
    BY <1>1 DEF RowsOK
  <2> QED BY <1>1, <2>1 DEF RowsOK
<1>6. Forward
  <2>1. ASSUME NEW j \in Keys
        PROVE  /\ pipelineRuns[j] # Missing => pipelineRuns'[j] # Missing
               /\ Status(j) = "COMPLETE" => Status(j)' = "COMPLETE"
    BY <1>3, <1>4
  <2> QED BY <2>1 DEF Forward
<1>7. ASSUME NEW j \in Keys
       PROVE  /\ Status(j)' = "COMPLETE" => \A s \in 1 .. Screens : results[j][s] # Missing
              /\ stored[j] # Missing => Status(j)' = "COMPLETE" /\ stored[j] = results[j]
              /\ Status(j)' # Missing /\ pipelineRuns'[j].flags => stored[j] # Missing
  <2>1. /\ Status(j) = "COMPLETE" => \A s \in 1 .. Screens : results[j][s] # Missing
        /\ stored[j] # Missing => Status(j) = "COMPLETE" /\ stored[j] = results[j]
        /\ Status(j) # Missing /\ pipelineRuns[j].flags => stored[j] # Missing
    BY <1>1 DEF CandidatesAreTheFunnel
  <2>2. CASE j # k
    BY <1>3, <1>4, <2>1, <2>2
  <2>3. CASE j = k
    <3>1. Status(k) # Missing
      BY <1>2, <1>4 DEF RunRecord
    <3> QED BY <1>3, <1>4, <2>1, <2>3, <3>1 DEF Populated
  <2> QED BY <2>2, <2>3
<1>8. CandidatesAreTheFunnel'
  BY <1>7 DEF CandidatesAreTheFunnel
<1> QED BY <1>3, <1>4, <1>5, <1>6, <1>8

LEMMA FailRunInv == ASSUME Inv, NEW p \in Processes, FailRun(p) PROVE Inv'
<1> USE DEF FailRun, AtStep
<1>1. PICK k \in Keys : k = proc[p].key /\ pipelineRuns[k] # Missing
  BY Begun DEF Steps, Started
<1>2. CASE UNCHANGED pipelineRuns
  BY <1>2, StopInv
<1>3. CASE Status(k) = "RUNNING" /\ pipelineRuns' = [pipelineRuns EXCEPT ![k].status = "FAILED"]
  <2>1. RowsOK
    BY State
  <2>2. PICK old \in RunRecord : old = pipelineRuns[k]
    BY <1>1, <2>1 DEF RowsOK
  <2>3. PICK row : row = [old EXCEPT !.status = "FAILED"]
    OBVIOUS
  <2>4. row \in RunRecord /\ row.status = "FAILED" /\ row.flags = old.flags
    BY <2>3 DEF RunRecord, RunStatus
  <2>5. pipelineRuns' = [pipelineRuns EXCEPT ![k] = row]
    BY <1>3, <2>2, <2>3
  <2>6. RowsOK' /\ Forward /\ CandidatesAreTheFunnel'
    <3>1. Status(k) # "COMPLETE" /\ row.status # "COMPLETE" /\ (row.flags => pipelineRuns[k].flags)
      BY <1>3, <2>2, <2>4
    <3> QED BY <1>1, <2>4, <2>5, <3>1, RunRowWritten
  <2> QED BY <2>6, IdleIsSound, OneMoves DEF Stop
<1> QED BY <1>1, <1>2, <1>3 DEF CanFail, Key

LEMMA CompleteRunInv == ASSUME Inv, NEW p \in Processes, CompleteRun(p) PROVE Inv'
<1> USE DEF CompleteRun, AtStep
<1>1. PICK k \in Keys : k = proc[p].key /\ pipelineRuns[k] # Missing /\ Populated(k)
  BY Begun, State DEF Steps, Counted, Sound, Learnt
<1>2. CASE Stop(p) /\ UNCHANGED pipelineRuns
  BY <1>2, StopInv
<1>3. CASE pipelineRuns' = [pipelineRuns EXCEPT ![k].status = "COMPLETE"] /\ Go(p, "funnel")
  <2>1. RowsOK
    BY State
  <2>2. PICK old \in RunRecord : old = pipelineRuns[k]
    BY <1>1, <2>1 DEF RowsOK
  <2>3. PICK row : row = [old EXCEPT !.status = "COMPLETE"]
    OBVIOUS
  <2>4. row \in RunRecord /\ row.status = "COMPLETE" /\ row.flags = old.flags
    BY <2>3 DEF RunRecord, RunStatus
  <2>5. pipelineRuns' = [pipelineRuns EXCEPT ![k] = row]
    BY <1>3, <2>2, <2>3
  <2>6. RowsOK' /\ Forward /\ CandidatesAreTheFunnel' /\ pipelineRuns'[k] # Missing /\ Status(k)' = "COMPLETE"
    BY <1>1, <2>2, <2>4, <2>5, RunRowWritten
  <2>7. proc[p].pc \in Steps /\ "funnel" \in Steps
    BY DEF Steps, Counted
  <2>8. PICK r \in ProcessState :
          /\ proc' = [proc EXCEPT ![p] = r] /\ r.pc = "funnel"
          /\ r.key = k /\ r.code \in Codes /\ r.screen \in 1 .. Screens
    BY <1>1, <1>3, <2>7, Gone, Begun
  <2>9. Sound(r)'
    BY <1>1, <2>6, <2>8 DEF Sound, Working, Learnt, Populated
  <2> QED BY <2>6, <2>8, <2>9, OneMoves
<1> QED BY <1>1, <1>2, <1>3 DEF Key

LEMMA PersistFlagsInv == ASSUME Inv, NEW p \in Processes, PersistFlags(p) PROVE Inv'
<1> USE DEF PersistFlags, AtStep
<1>1. PICK k \in Keys : k = proc[p].key /\ pipelineRuns[k] # Missing /\ stored[k] # Missing /\ Populated(k)
  BY Begun, State DEF Steps, Counted, Sound, Learnt
<1>2. CASE UNCHANGED pipelineRuns
  BY <1>2, StopInv
<1>3. CASE pipelineRuns' = [pipelineRuns EXCEPT ![k].flags = TRUE]
  <2>1. RowsOK
    BY State
  <2>2. PICK old \in RunRecord : old = pipelineRuns[k]
    BY <1>1, <2>1 DEF RowsOK
  <2>3. PICK row : row = [old EXCEPT !.flags = TRUE]
    OBVIOUS
  <2>4. row \in RunRecord /\ row.status = old.status
    BY <2>3 DEF RunRecord, RunStatus
  <2>5. pipelineRuns' = [pipelineRuns EXCEPT ![k] = row]
    BY <1>3, <2>2, <2>3
  <2>6. Status(k) = old.status
    BY <1>1, <2>2 DEF Status
  <2>7. RowsOK' /\ Forward /\ CandidatesAreTheFunnel'
    BY <1>1, <2>4, <2>5, <2>6, RunRowWritten
  <2> QED BY <2>7, IdleIsSound, OneMoves DEF Stop
<1> QED BY <1>1, <1>2, <1>3 DEF Key

LEMMA PersistCandidatesInv == ASSUME Inv, NEW p \in Processes, PersistCandidates(p) PROVE Inv'
<1> USE ScreeningAssumption DEF PersistCandidates, AtStep
<1>1. PICK k \in Keys : /\ k = proc[p].key /\ pipelineRuns[k] # Missing /\ Populated(k)
                        /\ Status(k) = "COMPLETE" /\ proc[p].funnel = results[k]
  BY Begun, State DEF Steps, Counted, Sound, Learnt
<1>2. CASE Stop(p) /\ UNCHANGED stored
  BY <1>2, StopInv
<1>3. CASE stored[k] \in {Missing, results[k]} /\ stored' = [stored EXCEPT ![k] = results[k]] /\ Go(p, "flags")
  <2>1. RowsOK /\ CandidatesAreTheFunnel
    BY DEF Inv, TypeOK
  <2>2. results[k] \in Population
    BY <1>1, <2>1 DEF RowsOK, PossiblyPopulated, Population, Populated
  <2>3. RowsOK'
    BY <1>3, <2>1, <2>2 DEF RowsOK
  <2>4. stored'[k] = results[k] /\ stored'[k] # Missing /\ \A j \in Keys \ {k} : stored'[j] = stored[j]
    BY <1>3, <2>1, <2>2 DEF RowsOK
  <2>5. \A j \in Keys : Status(j)' = Status(j)
    BY DEF Status
  <2>6. Forward
    BY <1>3, <2>4, <2>5 DEF Forward
  <2>7. CandidatesAreTheFunnel'
    BY <1>1, <2>1, <2>4, <2>5 DEF CandidatesAreTheFunnel
  <2>8. proc[p].pc \in Steps /\ "flags" \in Steps
    BY DEF Steps, Counted
  <2>9. PICK r \in ProcessState :
          /\ proc' = [proc EXCEPT ![p] = r] /\ r.pc = "flags"
          /\ r.key = k /\ r.code \in Codes /\ r.screen \in 1 .. Screens
    BY <1>1, <1>3, <2>8, Gone, Begun
  <2>10. Sound(r)'
    BY <1>1, <2>4, <2>5, <2>9 DEF Sound, Working, Learnt, Populated
  <2> QED BY <2>3, <2>6, <2>7, <2>9, <2>10, OneMoves
<1> QED BY <1>1, <1>2, <1>3 DEF Key

LEMMA LateEvidenceInv == ASSUME Inv, LateEvidence PROVE Inv'
  BY ScreeningAssumption DEF Inv, TypeOK, RowsOK, LateEvidence, Sound, Working, Learnt, Populated, Status,
     CandidatesAreTheFunnel

-----------------------------------------------------------------------------
LEMMA StepInv == ASSUME Inv, [ScreeningNext]_screenVars PROVE Inv'
<1>1. CASE LateEvidence
  BY <1>1, LateEvidenceInv
<1>2. ASSUME NEW p \in Processes, Step(p) PROVE Inv'
  <2>1. CASE Load(p)
    BY <2>1, LoadInv
  <2>2. CASE SaveDefinition(p)
    BY <2>2, SaveDefinitionInv
  <2>3. CASE BeginRun(p)
    BY <2>3, BeginRunInv
  <2>4. CASE VerifyPopulation(p)
    BY <2>4, VerifyPopulationInv
  <2>5. CASE PersistPopulation(p)
    BY <2>5, PersistPopulationInv
  <2>6. CASE FailRun(p)
    BY <2>6, FailRunInv
  <2>7. CASE VerifyCounts(p)
    BY <2>7, VerifyCountsInv
  <2>8. CASE CompleteRun(p)
    BY <2>8, CompleteRunInv
  <2>9. CASE ApplyFunnel(p)
    BY <2>9, ApplyFunnelInv
  <2>10. CASE PersistCandidates(p)
    BY <2>10, PersistCandidatesInv
  <2>11. CASE PersistFlags(p)
    BY <2>11, PersistFlagsInv
  <2>12. CASE ProcessDies(p)
    BY <2>12, StopInv DEF ProcessDies
  <2> QED BY <1>2, <2>1, <2>2, <2>3, <2>4, <2>5, <2>6, <2>7, <2>8, <2>9, <2>10, <2>11, <2>12 DEF Step
<1>3. CASE UNCHANGED screenVars
  BY <1>3 DEF screenVars, Inv, TypeOK, RowsOK, Sound, Working, Learnt, Populated, Status, CandidatesAreTheFunnel
<1> QED BY <1>1, <1>2, <1>3 DEF ScreeningNext

(* The candidates stored for a run are the funnel of the complete          *)
(* population it stores, and flags follow them (run_screening and          *)
(* ScreenStore), whatever overlaps, dies or is run again by other code.    *)
THEOREM FunnelOfThePopulation == ScreeningSpec => []CandidatesAreTheFunnel
<1>1. Inv => CandidatesAreTheFunnel
  BY DEF Inv
<1> QED BY <1>1, InitInv, StepInv, PTL DEF ScreeningSpec

-----------------------------------------------------------------------------
(* Orders by key.                                                          *)

\* Tuples of one length are totally ordered by their first difference.
LEMMA BeforeIsOrder ==
  ASSUME NEW n \in Nat, NEW a \in [1 .. n -> Int], NEW b \in [1 .. n -> Int],
         NEW c \in [1 .. n -> Int]
  PROVE  /\ ~Before(a, a)
         /\ Before(a, b) /\ Before(b, c) => Before(a, c)
         /\ a # b => Before(a, b) \/ Before(b, a)
<1>1. ~Before(a, a)
  BY DEF Before
<1>2. ASSUME Before(a, b), Before(b, c) PROVE Before(a, c)
  <2>1. PICK k \in 1 .. n : a[k] < b[k] /\ \A j \in 1 .. k - 1 : a[j] = b[j]
    BY <1>2 DEF Before
  <2>2. PICK l \in 1 .. n : b[l] < c[l] /\ \A j \in 1 .. l - 1 : b[j] = c[j]
    BY <1>2 DEF Before
  <2>3. CASE k < l
    <3>1. a[k] < c[k]
      BY <2>1, <2>2, <2>3
    <3>2. \A j \in 1 .. k - 1 : a[j] = c[j]
      BY <2>1, <2>2, <2>3
    <3> QED BY <3>1, <3>2 DEF Before
  <2>4. CASE k = l
    <3>1. a[k] < c[k]
      BY <2>1, <2>2, <2>4
    <3>2. \A j \in 1 .. k - 1 : a[j] = c[j]
      BY <2>1, <2>2, <2>4
    <3> QED BY <3>1, <3>2 DEF Before
  <2>5. CASE l < k
    <3>1. a[l] < c[l]
      BY <2>1, <2>2, <2>5
    <3>2. \A j \in 1 .. l - 1 : a[j] = c[j]
      BY <2>1, <2>2, <2>5
    <3> QED BY <3>1, <3>2 DEF Before
  <2> QED BY <2>3, <2>4, <2>5
<1>3. ASSUME a # b PROVE Before(a, b) \/ Before(b, a)
  <2>1. PICK D : D = {k \in 1 .. n : a[k] # b[k]}
    OBVIOUS
  <2>0. \E k \in 1 .. n : a[k] # b[k]
    <3>1. SUFFICES ASSUME \A k \in 1 .. n : a[k] = b[k] PROVE a = b
      BY <1>3
    <3> QED BY <3>1
  <2>2. D \subseteq Nat /\ D # {}
    <3>1. D \subseteq Nat
      BY <2>1
    <3>2. \E k \in 1 .. n : k \in D
      BY <2>0, <2>1
    <3> QED BY <3>1, <3>2
  <2>3. PICK k \in D : \A j \in D : k <= j
    BY <2>2, LeastExists
  <2>4. \A j \in 1 .. k - 1 : a[j] = b[j]
    BY <2>1, <2>3
  <2>5. k \in 1 .. n /\ a[k] # b[k]
    BY <2>1
  <2>6. a[k] < b[k] \/ b[k] < a[k]
    BY <2>5
  <2> QED BY <2>4, <2>5, <2>6 DEF Before
<1> QED BY <1>1, <1>2, <1>3

(* The keys of S are different tuples of one length.                       *)
Keyed(S, key) ==
  /\ \E n \in Nat : \A x \in S : key[x] \in [1 .. n -> Int]
  /\ \A x, y \in S : x # y => key[x] # key[y]

Rank(S, key, x) == Cardinality({y \in S : Before(key[y], key[x])})

LEMMA RankIsNumber ==
  ASSUME NEW S, IsFiniteSet(S), NEW key, NEW x
  PROVE  Rank(S, key, x) \in Nat
<1>1. IsFiniteSet({y \in S : Before(key[y], key[x])})
  BY FS_Subset
<1> QED BY <1>1, FS_CardinalityType DEF Rank

\* What comes before by its key has the smaller rank, and conversely.
LEMMA RankIsOrder ==
  ASSUME NEW S, IsFiniteSet(S), NEW key, Keyed(S, key), NEW x \in S, NEW y \in S
  PROVE  /\ Before(key[x], key[y]) <=> Rank(S, key, x) < Rank(S, key, y)
         /\ x # y => Rank(S, key, x) # Rank(S, key, y)
<1>1. PICK n \in Nat : \A z \in S : key[z] \in [1 .. n -> Int]
  BY DEF Keyed
<1>2. \A u, v, w \in S : /\ ~Before(key[u], key[u])
                         /\ Before(key[u], key[v]) /\ Before(key[v], key[w]) => Before(key[u], key[w])
                         /\ u # v => Before(key[u], key[v]) \/ Before(key[v], key[u])
  <2> TAKE u, v, w \in S
  <2>1. key[u] \in [1 .. n -> Int] /\ key[v] \in [1 .. n -> Int] /\ key[w] \in [1 .. n -> Int]
    BY <1>1
  <2>2. u # v => key[u] # key[v]
    BY DEF Keyed
  <2> QED BY <2>1, <2>2, BeforeIsOrder
<1>3. ASSUME NEW u \in S, NEW v \in S, Before(key[u], key[v])
      PROVE  Rank(S, key, u) < Rank(S, key, v)
  <2>1. PICK U : U = {z \in S : Before(key[z], key[u])}
    OBVIOUS
  <2>2. PICK V : V = {z \in S : Before(key[z], key[v])}
    OBVIOUS
  <2>3. U \subseteq V /\ u \in V /\ u \notin U
    BY <1>2, <1>3, <2>1, <2>2
  <2>4. IsFiniteSet(V) /\ IsFiniteSet(U)
    BY <2>1, <2>2, FS_Subset
  <2>5. Cardinality(U) <= Cardinality(V) /\ Cardinality(U) # Cardinality(V)
    BY <2>3, <2>4, FS_Subset
  <2>6. Cardinality(U) \in Nat /\ Cardinality(V) \in Nat
    BY <2>4, FS_CardinalityType
  <2> QED BY <2>1, <2>2, <2>5, <2>6 DEF Rank
<1>4. Rank(S, key, x) \in Nat /\ Rank(S, key, y) \in Nat
  BY RankIsNumber
<1> QED BY <1>2, <1>3, <1>4

\* The ranks are the numbers below the size of S, each once, so the elements
\* of rank below k are k.
LEMMA RanksCount ==
  ASSUME NEW S, IsFiniteSet(S), NEW key, Keyed(S, key)
  PROVE  /\ Cardinality(S) \in Nat
         /\ \A x \in S : Rank(S, key, x) \in 0 .. Cardinality(S) - 1
         /\ \A k \in 0 .. Cardinality(S) - 1 : \E x \in S : Rank(S, key, x) = k
         /\ \A k \in 0 .. Cardinality(S) : Cardinality({x \in S : Rank(S, key, x) < k}) = k
<1>1. PICK n \in Nat : n = Cardinality(S)
  BY FS_CardinalityType
<1>2. ASSUME NEW x \in S PROVE Rank(S, key, x) \in 0 .. n - 1
  <2>1. PICK U : U = {z \in S : Before(key[z], key[x])}
    OBVIOUS
  <2>2. x \notin U
    BY <2>1 DEF Before, Keyed
  <2>3. U \in SUBSET S /\ U # S
    BY <2>1, <2>2
  <2>4. Cardinality(U) <= n /\ Cardinality(U) # n
    BY <1>1, <2>3, FS_Subset
  <2> QED BY <2>1, <2>4, RankIsNumber DEF Rank
<1>3. ASSUME NEW k \in 0 .. n - 1 PROVE \E x \in S : Rank(S, key, x) = k
  <2>1. PICK f : f = [x \in S |-> Rank(S, key, x)]
    OBVIOUS
  <2>2. f \in [S -> 0 .. n - 1]
    BY <1>2, <2>1
  <2>3. \A x, y \in S : f[x] = f[y] => x = y
    BY <2>1, RankIsOrder
  <2>4. f \in Injection(S, 0 .. n - 1)
    BY <2>2, <2>3 DEF Injection, IsInjective
  <2>5. IsFiniteSet(0 .. n - 1) /\ Cardinality(0 .. n - 1) = n
    BY FS_Interval
  <2>6. f \in Surjection(S, 0 .. n - 1)
    BY <1>1, <2>4, <2>5, FS_Injection
  <2>7. \E x \in S : f[x] = k
    BY <2>6 DEF Surjection
  <2> QED BY <2>1, <2>7
<1>4. ASSUME NEW k \in 0 .. n PROVE Cardinality({x \in S : Rank(S, key, x) < k}) = k
  <2>1. CASE k = n
    <3>1. {x \in S : Rank(S, key, x) < k} = S
      BY <1>2, <2>1
    <3> QED BY <1>1, <2>1, <3>1
  <2>2. CASE k < n
    <3>1. PICK z \in S : Rank(S, key, z) = k
      BY <1>3, <2>2
    <3>2. \A x \in S : Rank(S, key, x) < k <=> Before(key[x], key[z])
      BY <3>1, RankIsOrder
    <3>3. {x \in S : Rank(S, key, x) < k} = {x \in S : Before(key[x], key[z])}
      BY <3>2
    <3> QED BY <3>1, <3>3 DEF Rank
  <2> QED BY <2>1, <2>2
<1> QED BY <1>1, <1>2, <1>3, <1>4

-----------------------------------------------------------------------------
(* Sequences without repetition.                                           *)

Elements(seq) == {seq[k] : k \in DOMAIN seq}

Distinct(seq) == IsFiniteSet(Elements(seq)) /\ Cardinality(Elements(seq)) = Len(seq)

\* The first n of a sorted set are its elements of rank below n.
LEMMA FirstOfSorted ==
  ASSUME NEW S, IsFiniteSet(S), NEW key, Keyed(S, key), NEW n \in Nat
  PROVE  LET seq == Truncate(Sorted(S, key), n)
         IN  /\ seq \in Seq(S) /\ Distinct(seq)
             /\ Elements(seq) = {x \in S : Rank(S, key, x) < n}
             /\ Len(seq) <= n /\ Len(seq) <= Cardinality(S)
             /\ Len(seq) = n \/ Len(seq) = Cardinality(S)
<1>1. PICK c \in Nat : c = Cardinality(S)
  BY FS_CardinalityType
<1>2. PICK all : all = Sorted(S, key)
  OBVIOUS
<1>3. all = [k \in 1 .. c |-> CHOOSE x \in S : Rank(S, key, x) = k - 1]
  BY <1>1, <1>2 DEF Sorted, Rank
<1>4. \A k \in 1 .. c : all[k] \in S /\ Rank(S, key, all[k]) = k - 1
  <2> TAKE k \in 1 .. c
  <2>1. \E x \in S : Rank(S, key, x) = k - 1
    BY <1>1, RanksCount
  <2> QED BY <1>3, <2>1
<1>5. all \in Seq(S) /\ Len(all) = c
  BY <1>3, <1>4
<1>6. PICK m \in Nat : m = Smallest({n, c})
  BY DEF Smallest
<1>7. m <= n /\ m <= c /\ (m = n \/ m = c)
  BY <1>6 DEF Smallest
<1>8. PICK seq : seq = Truncate(Sorted(S, key), n)
  OBVIOUS
<1>9. seq = SubSeq(all, 1, m)
  BY <1>2, <1>5, <1>6, <1>8 DEF Truncate
<1>10. seq \in Seq(S) /\ Len(seq) = m /\ \A k \in 1 .. m : seq[k] = all[k]
  BY <1>5, <1>7, <1>9
<1>11. Elements(seq) = {x \in S : Rank(S, key, x) < m}
  <2>1. ASSUME NEW x \in Elements(seq) PROVE x \in S /\ Rank(S, key, x) < m
    <3>1. PICK k \in 1 .. m : x = all[k]
      BY <1>10, <2>1 DEF Elements
    <3> QED BY <1>4, <1>7, <3>1
  <2>2. ASSUME NEW x \in S, Rank(S, key, x) < m PROVE x \in Elements(seq)
    <3>1. PICK k \in 1 .. m : k = Rank(S, key, x) + 1
      BY <2>2, RankIsNumber
    <3>2. k \in 1 .. c
      BY <1>7, <3>1
    <3>3. all[k] \in S /\ Rank(S, key, all[k]) = Rank(S, key, x)
      BY <1>4, <3>1, <3>2, RankIsNumber
    <3>4. all[k] = x
      BY <3>3, RankIsOrder
    <3> QED BY <1>10, <3>1, <3>4 DEF Elements
  <2> QED BY <2>1, <2>2
<1>12. Elements(seq) = {x \in S : Rank(S, key, x) < n}
  <2>1. ASSUME NEW x \in S PROVE Rank(S, key, x) < m <=> Rank(S, key, x) < n
    <3>1. Rank(S, key, x) \in Nat /\ Rank(S, key, x) <= c - 1
      BY <1>1, RanksCount, RankIsNumber
    <3> QED BY <1>7, <3>1
  <2> QED BY <1>11, <2>1
<1>13. Distinct(seq)
  <2>1. Cardinality(Elements(seq)) = m
    BY <1>1, <1>7, <1>11, RanksCount
  <2>2. IsFiniteSet(Elements(seq))
    BY <1>11, FS_Subset
  <2> QED BY <1>10, <2>1, <2>2 DEF Distinct
<1> QED BY <1>1, <1>7, <1>8, <1>10, <1>12, <1>13

\* A sorted set is its own first elements.
LEMMA SortedIsFirst ==
  ASSUME NEW S, IsFiniteSet(S), NEW key, Keyed(S, key)
  PROVE  /\ Sorted(S, key) \in Seq(S) /\ Distinct(Sorted(S, key))
         /\ Elements(Sorted(S, key)) = S /\ Len(Sorted(S, key)) = Cardinality(S)
<1>1. PICK c \in Nat : c = Cardinality(S)
  BY FS_CardinalityType
<1>2. PICK all : all = Sorted(S, key)
  OBVIOUS
<1>3. all = [k \in 1 .. c |-> CHOOSE x \in S : Rank(S, key, x) = k - 1]
  BY <1>1, <1>2 DEF Sorted, Rank
<1>4. \A k \in 1 .. c : all[k] \in S
  <2> TAKE k \in 1 .. c
  <2>1. \E x \in S : Rank(S, key, x) = k - 1
    BY <1>1, RanksCount
  <2> QED BY <1>3, <2>1
<1>5. all \in Seq(S) /\ Len(all) = c
  BY <1>3, <1>4
<1>6. Smallest({c, c}) = c
  BY DEF Smallest
<1>7. SubSeq(all, 1, c) = all
  BY <1>5
<1>8. Truncate(Sorted(S, key), c) = all
  BY <1>2, <1>5, <1>6, <1>7 DEF Truncate
<1>9. /\ all \in Seq(S) /\ Distinct(all)
      /\ Elements(all) = {x \in S : Rank(S, key, x) < c}
  BY <1>8, FirstOfSorted
<1>10. Elements(all) = S
  BY <1>1, <1>9, RanksCount
<1> QED BY <1>1, <1>2, <1>5, <1>9, <1>10

\* Sequences of different elements, put together.
LEMMA Joined ==
  ASSUME NEW T, NEW a \in Seq(T), NEW b \in Seq(T), Distinct(a), Distinct(b),
         Elements(a) \cap Elements(b) = {}
  PROVE  /\ a \o b \in Seq(T) /\ Distinct(a \o b)
         /\ Elements(a \o b) = Elements(a) \cup Elements(b)
         /\ Len(a \o b) = Len(a) + Len(b)
<1>1. a \o b \in Seq(T) /\ Len(a \o b) = Len(a) + Len(b)
  OBVIOUS
<1>2. Elements(a \o b) = Elements(a) \cup Elements(b)
  <2>1. ASSUME NEW x \in Elements(a \o b) PROVE x \in Elements(a) \cup Elements(b)
    <3>1. PICK k \in 1 .. Len(a) + Len(b) : x = (a \o b)[k]
      BY <1>1, <2>1 DEF Elements
    <3>2. CASE k <= Len(a)
      BY <3>1, <3>2 DEF Elements
    <3>3. CASE k > Len(a)
      <4>1. k - Len(a) \in 1 .. Len(b) /\ x = b[k - Len(a)]
        BY <3>1, <3>3
      <4> QED BY <4>1 DEF Elements
    <3> QED BY <3>1, <3>2, <3>3
  <2>2. ASSUME NEW x \in Elements(a) PROVE x \in Elements(a \o b)
    <3>1. PICK k \in 1 .. Len(a) : x = a[k]
      BY <2>2 DEF Elements
    <3>2. k \in 1 .. Len(a \o b) /\ x = (a \o b)[k]
      BY <1>1, <3>1
    <3> QED BY <3>2 DEF Elements
  <2>3. ASSUME NEW x \in Elements(b) PROVE x \in Elements(a \o b)
    <3>1. PICK k \in 1 .. Len(b) : x = b[k]
      BY <2>3 DEF Elements
    <3>2. PICK l \in Nat : l = k + Len(a)
      OBVIOUS
    <3>3. l \in 1 .. Len(a \o b) /\ x = (a \o b)[l]
      BY <1>1, <3>1, <3>2
    <3> QED BY <3>3 DEF Elements
  <2> QED BY <2>1, <2>2, <2>3
<1>3. PICK A : A = Elements(a)
  OBVIOUS
<1>4. PICK B : B = Elements(b)
  OBVIOUS
<1>5. IsFiniteSet(A) /\ IsFiniteSet(B) /\ A \cap B = {} /\ Cardinality(A) = Len(a) /\ Cardinality(B) = Len(b)
  BY <1>3, <1>4 DEF Distinct
<1>6. IsFiniteSet(A \cup B) /\ Cardinality(A \cup B) = Cardinality(A) + Cardinality(B) - Cardinality(A \cap B)
  BY <1>5, FS_Union
<1>7. Cardinality(A \cap B) = 0
  BY <1>5, FS_EmptySet
<1>8. Cardinality(A \cup B) = Len(a) + Len(b)
  BY <1>5, <1>6, <1>7
<1> QED BY <1>1, <1>2, <1>3, <1>4, <1>6, <1>8 DEF Distinct

-----------------------------------------------------------------------------
(* The keys of the funnel.                                                 *)

\* The image of a finite set is finite.
LEMMA ImageIsFinite ==
  ASSUME NEW S, IsFiniteSet(S), NEW f
  PROVE  IsFiniteSet({f[x] : x \in S})
<1>1. PICK g : g = [x \in S |-> f[x]]
  OBVIOUS
<1>2. PICK T : T = {f[x] : x \in S}
  OBVIOUS
<1>3. g \in Surjection(S, T)
  BY <1>1, <1>2 DEF Surjection
<1> QED BY <1>2, <1>3, FS_Surjection

LEMMA LargestIsNumber ==
  ASSUME NEW S, IsFiniteSet(S), S \subseteq Nat
  PROVE  Largest(S) \in Nat
<1>1. CASE S = {}
  BY <1>1 DEF Largest
<1>2. CASE S # {}
  <2>1. PICK R : R = {p \in S \X S : p[1] < p[2]}
    OBVIOUS
  <2>2. \A x, y \in S : <<x, y>> \in R <=> x < y
    BY <2>1
  <2>3. /\ \A x \in S : <<x, x>> \notin R
        /\ \A x, y, z \in S : <<x, y>> \in R /\ <<y, z>> \in R => <<x, z>> \in R
    BY <2>2
  <2>4. PICK x \in S : \A y \in S : <<x, y>> \notin R
    BY <1>2, <2>3, LastExists
  <2>5. ASSUME NEW y \in S PROVE y <= x
    <3>1. ~(x < y)
      BY <2>2, <2>4
    <3>2. x \in Nat /\ y \in Nat
      OBVIOUS
    <3> QED BY <3>1, <3>2
  <2>6. x \in S \cup {0} /\ \A y \in S : y <= x
    BY <2>5
  <2>7. Largest(S) \in S \cup {0}
    BY <2>6 DEF Largest
  <2>8. S \cup {0} \subseteq Nat
    OBVIOUS
  <2> HIDE DEF Largest
  <2> QED BY <2>7, <2>8
<1> QED BY <1>1, <1>2

LEMMA MarketFacts ==
  ASSUME pool \in Markets, NEW s \in Universe
  PROVE  /\ s \in Int /\ SectorOf(s) \in Int /\ ControlKey[s] \in Int
         /\ IsFiniteSet(Rows(s)) /\ \A r \in Rows(s) : IsRow(r)
BY FunnelAssumption DEF SectorOf, Rows

LEMMA Groups ==
  ASSUME pool \in Markets
  PROVE  /\ Held \subseteq Universe /\ EventPasses \subseteq Universe
         /\ Signals \subseteq Universe /\ EligibleControls \subseteq Universe
         /\ IsFiniteSet(Held) /\ IsFiniteSet(EventPasses \ Held)
         /\ IsFiniteSet(Signals) /\ IsFiniteSet(EligibleControls)
         /\ (Held \cup EventPasses) \cap (Signals \cup EligibleControls) = {}
         /\ Signals \cap EligibleControls = {}
<1>1. /\ Held \subseteq Universe /\ EventPasses \subseteq Universe
      /\ Signals \subseteq Universe /\ EligibleControls \subseteq Universe
  BY DEF Held, EventPasses, Signals, EligibleControls
<1>2. IsFiniteSet(Universe)
  BY FunnelAssumption
<1>3. \A T \in SUBSET Universe : IsFiniteSet(T)
  BY <1>2, FS_Subset
<1>4. Held \in SUBSET Universe /\ EventPasses \ Held \in SUBSET Universe
      /\ Signals \in SUBSET Universe /\ EligibleControls \in SUBSET Universe
  BY <1>1
<1>5. (Held \cup EventPasses) \cap (Signals \cup EligibleControls) = {}
  BY DEF Signals, EligibleControls, IsControl, IsMandatory
<1>6. Signals \cap EligibleControls = {}
  BY DEF EligibleControls, IsControl
<1> QED BY <1>1, <1>3, <1>4, <1>5, <1>6

LEMMA IdKeyed ==
  ASSUME NEW S, S \subseteq Universe
  PROVE  Keyed(S, Id)
<1>1. \A x \in S : Id[x] = <<x>> /\ x \in Int
  BY FunnelAssumption DEF Id
<1>2. \A x \in S : Id[x] \in [1 .. 1 -> Int]
  BY <1>1
<1>3. \A x, y \in S : x # y => Id[x] # Id[y]
  BY <1>1
<1> QED BY <1>2, <1>3 DEF Keyed

LEMMA HashKeyed ==
  ASSUME NEW S, S \subseteq Universe
  PROVE  Keyed(S, HashKey)
<1>1. \A x \in S : HashKey[x] = <<ControlKey[x], x>> /\ x \in Int /\ ControlKey[x] \in Int
  BY FunnelAssumption DEF HashKey
<1>2. \A x \in S : HashKey[x] \in [1 .. 2 -> Int]
  BY <1>1
<1>3. \A x, y \in S : x # y => HashKey[x] # HashKey[y]
  BY <1>1
<1> QED BY <1>2, <1>3 DEF Keyed

RankKey == [s \in Signals |-> SignalRank(s)]
TurnKey == [s \in Signals |-> Turn(s)]
Sector(x) == {t \in Signals : SectorOf(t) = x}

LEMMA SignalRankIsTuple ==
  ASSUME pool \in Markets, NEW s \in Universe
  PROVE  SignalRank(s) \in [1 .. 6 -> Int] /\ SignalRank(s)[6] = s
<1>1. PICK passing : passing = Passing(s, BaseFamilies)
  OBVIOUS
<1>2. IsFiniteSet(passing) /\ \A r \in passing : IsRow(r)
  <2>1. passing \in SUBSET Rows(s)
    BY <1>1 DEF Passing
  <2> QED BY <2>1, MarketFacts, FS_Subset
<1>3. PICK q : q = Largest({r.quality : r \in passing})
  OBVIOUS
<1>4. PICK c : c = Largest({r.confidence : r \in passing})
  OBVIOUS
<1>5. q \in Nat
  <2>1. PICK f : f = [r \in passing |-> r.quality]
    OBVIOUS
  <2>2. {r.quality : r \in passing} = {f[r] : r \in passing}
    BY <2>1
  <2>3. IsFiniteSet({r.quality : r \in passing})
    BY <1>2, <2>2, ImageIsFinite
  <2>4. {r.quality : r \in passing} \subseteq Nat
    BY <1>2 DEF IsRow
  <2> QED BY <1>3, <2>3, <2>4, LargestIsNumber
<1>6. c \in Nat
  <2>1. PICK f : f = [r \in passing |-> r.confidence]
    OBVIOUS
  <2>2. {r.confidence : r \in passing} = {f[r] : r \in passing}
    BY <2>1
  <2>3. IsFiniteSet({r.confidence : r \in passing})
    BY <1>2, <2>2, ImageIsFinite
  <2>4. {r.confidence : r \in passing} \subseteq Nat
    BY <1>2 DEF IsRow
  <2> QED BY <1>4, <2>3, <2>4, LargestIsNumber
<1>7. PICK U : U = Cardinality(UNION {r.clusters : r \in passing})
  OBVIOUS
<1>8. U \in Nat
  <2>1. PICK f : f = [r \in passing |-> r.clusters]
    OBVIOUS
  <2>2. PICK T : T = {r.clusters : r \in passing}
    OBVIOUS
  <2>3. T = {f[r] : r \in passing}
    BY <2>1, <2>2
  <2>4. IsFiniteSet(T)
    BY <1>2, <2>3, ImageIsFinite
  <2>5. \A t \in T : IsFiniteSet(t)
    BY <1>2, <2>2 DEF IsRow
  <2>6. IsFiniteSet(UNION T)
    BY <2>4, <2>5, FS_UNION
  <2> QED BY <1>7, <2>2, <2>6, FS_CardinalityType
<1>9. Cardinality(passing) \in Nat
  BY <1>2, FS_CardinalityType
<1>10. PICK m \in {0, 1} : m = IF Passing(s, {"momentum_confirmation"}) # {} THEN 0 ELSE 1
  OBVIOUS
<1>11. SignalRank(s) = << -Cardinality(passing), -U, -q, -c, m, s >>
  BY <1>1, <1>3, <1>4, <1>7, <1>10 DEF SignalRank
<1>12. s \in Int
  BY MarketFacts
<1> QED BY <1>5, <1>6, <1>8, <1>9, <1>11, <1>12

LEMMA RankKeyed ==
  ASSUME pool \in Markets, NEW S, S \subseteq Signals
  PROVE  Keyed(S, RankKey)
<1>1. \A s \in S : RankKey[s] = SignalRank(s) /\ s \in Universe
  BY Groups DEF RankKey
<1>2. \A s \in S : RankKey[s] \in [1 .. 6 -> Int] /\ RankKey[s][6] = s
  BY <1>1, SignalRankIsTuple
<1>3. \A s, t \in S : s # t => RankKey[s] # RankKey[t]
  BY <1>2
<1> QED BY <1>2, <1>3 DEF Keyed

\* A signal's place is its rank in its sector.
LEMMA PlaceIsRank ==
  ASSUME pool \in Markets, NEW s \in Signals
  PROVE  Place(s) = Rank(Sector(SectorOf(s)), RankKey, s)
<1>1. \A t \in Signals : RankKey[t] = SignalRank(t)
  BY DEF RankKey
<1>2. {t \in Signals : SectorOf(t) = SectorOf(s) /\ Before(SignalRank(t), SignalRank(s))}
        = {t \in Sector(SectorOf(s)) : Before(RankKey[t], RankKey[s])}
  BY <1>1 DEF Sector
<1> QED BY <1>2 DEF Place, Rank

LEMMA SectorFinite ==
  ASSUME pool \in Markets, NEW x
  PROVE  Sector(x) \subseteq Signals /\ IsFiniteSet(Sector(x))
<1>1. Sector(x) \subseteq Signals
  BY DEF Sector
<1> QED BY <1>1, Groups, FS_Subset

LEMMA SectorsOrdered ==
  ASSUME pool \in Markets, NEW s \in Signals, NEW t \in Signals
  PROVE  /\ SectorIndex(s) \in Nat
         /\ SectorIndex(s) = SectorIndex(t) <=> SectorOf(s) = SectorOf(t)
<1>1. PICK X : X = {SectorOf(u) : u \in Signals}
  OBVIOUS
<1>2. IsFiniteSet(X) /\ \A x \in X : x \in Int
  <2>1. PICK f : f = [u \in Signals |-> SectorOf(u)]
    OBVIOUS
  <2>2. X = {f[u] : u \in Signals}
    BY <1>1, <2>1
  <2>3. IsFiniteSet(X)
    BY <2>2, Groups, ImageIsFinite
  <2>4. \A x \in X : x \in Int
    BY <1>1, Groups, MarketFacts
  <2> QED BY <2>3, <2>4
<1>3. PICK key : key = [x \in X |-> <<x>>]
  OBVIOUS
<1>4. \A x, y \in X : Before(key[x], key[y]) <=> x < y
  <2> TAKE x, y \in X
  <2>1. key[x] = <<x>> /\ key[y] = <<y>> /\ x \in Int /\ y \in Int
    BY <1>2, <1>3
  <2>2. /\ DOMAIN key[x] = {1} /\ key[x][1] = x /\ key[y][1] = y
        /\ \A j \in 1 .. 1 - 1 : key[x][j] = key[y][j]
    BY <2>1
  <2> QED BY <2>2 DEF Before
<1>5. Keyed(X, key)
  <2>1. \A x \in X : key[x] = <<x>> /\ x \in Int
    BY <1>2, <1>3
  <2>2. \A x \in X : key[x] \in [1 .. 1 -> Int]
    BY <2>1
  <2>3. \A x, y \in X : x # y => key[x] # key[y]
    BY <2>1
  <2> QED BY <2>2, <2>3 DEF Keyed
<1>6. \A u \in Signals : SectorOf(u) \in X /\ SectorIndex(u) = Rank(X, key, SectorOf(u))
  <2> TAKE u \in Signals
  <2>1. SectorOf(u) \in X
    BY <1>1
  <2>2. {x \in X : x < SectorOf(u)} = {x \in X : Before(key[x], key[SectorOf(u)])}
    BY <1>4, <2>1
  <2> QED BY <1>1, <2>1, <2>2 DEF SectorIndex, Rank
<1>7. Rank(X, key, SectorOf(s)) \in Nat
  BY <1>2, RankIsNumber
<1>8. SectorOf(s) # SectorOf(t) => Rank(X, key, SectorOf(s)) # Rank(X, key, SectorOf(t))
  BY <1>2, <1>5, <1>6, RankIsOrder
<1> QED BY <1>6, <1>7, <1>8

-----------------------------------------------------------------------------
(* The round-robin.                                                        *)

LEMMA PlaceIsNumber ==
  ASSUME pool \in Markets, NEW s \in Signals
  PROVE  Place(s) \in Nat
BY PlaceIsRank, SectorFinite, RankIsNumber

\* Within a sector the place says who ranks before whom.
LEMMA PlaceIsOrder ==
  ASSUME pool \in Markets, NEW s \in Signals, NEW t \in Signals, SectorOf(s) = SectorOf(t)
  PROVE  /\ Before(SignalRank(s), SignalRank(t)) <=> Place(s) < Place(t)
         /\ s # t => Place(s) # Place(t)
<1>1. PICK S : S = Sector(SectorOf(s))
  OBVIOUS
<1>2. s \in S /\ t \in S /\ S \subseteq Signals /\ IsFiniteSet(S)
  BY <1>1, SectorFinite DEF Sector
<1>3. Keyed(S, RankKey)
  BY <1>2, RankKeyed
<1>4. Place(s) = Rank(S, RankKey, s) /\ Place(t) = Rank(S, RankKey, t)
  BY <1>1, PlaceIsRank
<1>5. RankKey[s] = SignalRank(s) /\ RankKey[t] = SignalRank(t)
  BY DEF RankKey
<1> QED BY <1>2, <1>3, <1>4, <1>5, RankIsOrder

LEMMA TurnKeyed ==
  ASSUME pool \in Markets
  PROVE  Keyed(Signals, TurnKey)
<1>1. \A s \in Signals : TurnKey[s] = <<Place(s), SectorIndex(s)>>
  BY DEF TurnKey, Turn
<1>2. \A s \in Signals : Place(s) \in Nat /\ SectorIndex(s) \in Nat
  BY PlaceIsNumber, SectorsOrdered
<1>3. \A s \in Signals : TurnKey[s] \in [1 .. 2 -> Int]
  BY <1>1, <1>2
<1>4. ASSUME NEW s \in Signals, NEW t \in Signals, s # t PROVE TurnKey[s] # TurnKey[t]
  <2>1. SUFFICES ASSUME Place(s) = Place(t), SectorIndex(s) = SectorIndex(t) PROVE FALSE
    BY <1>1
  <2>2. SectorOf(s) = SectorOf(t)
    BY <2>1, SectorsOrdered
  <2> QED BY <1>4, <2>1, <2>2, PlaceIsOrder
<1> QED BY <1>3, <1>4 DEF Keyed

\* Whose turn comes before: a smaller place, or the same in an earlier sector.
LEMMA TurnsOrdered ==
  ASSUME pool \in Markets, NEW s \in Signals, NEW t \in Signals
  PROVE  Before(TurnKey[s], TurnKey[t])
           <=> Place(s) < Place(t) \/ (Place(s) = Place(t) /\ SectorIndex(s) < SectorIndex(t))
<1>1. PICK a \in Nat : a = Place(s)
  BY PlaceIsNumber
<1>2. PICK b \in Nat : b = Place(t)
  BY PlaceIsNumber
<1>3. PICK c \in Nat : c = SectorIndex(s)
  BY SectorsOrdered
<1>4. PICK d \in Nat : d = SectorIndex(t)
  BY SectorsOrdered
<1>5. TurnKey[s] = <<a, c>> /\ TurnKey[t] = <<b, d>>
  BY <1>1, <1>2, <1>3, <1>4 DEF TurnKey, Turn
<1>6. PICK u : u = <<a, c>>
  OBVIOUS
<1>7. PICK v : v = <<b, d>>
  OBVIOUS
<1>8. DOMAIN u = {1, 2} /\ u[1] = a /\ u[2] = c /\ v[1] = b /\ v[2] = d
  BY <1>6, <1>7
<1>9. Before(u, v) <=> a < b \/ (a = b /\ c < d)
  <2>1. ASSUME a < b PROVE Before(u, v)
    <3>1. 1 \in DOMAIN u /\ u[1] < v[1] /\ \A j \in 1 .. 1 - 1 : u[j] = v[j]
      BY <1>8, <2>1
    <3> QED BY <3>1 DEF Before
  <2>2. ASSUME a = b, c < d PROVE Before(u, v)
    <3>1. 2 \in DOMAIN u /\ u[2] < v[2] /\ \A j \in 1 .. 2 - 1 : u[j] = v[j]
      BY <1>8, <2>2
    <3> QED BY <3>1 DEF Before
  <2>3. ASSUME Before(u, v) PROVE a < b \/ (a = b /\ c < d)
    <3>1. PICK k \in {1, 2} : u[k] < v[k] /\ \A j \in 1 .. k - 1 : u[j] = v[j]
      BY <1>8, <2>3 DEF Before
    <3>2. CASE k = 1
      BY <1>8, <3>1, <3>2
    <3>3. CASE k = 2
      BY <1>8, <3>1, <3>3
    <3> QED BY <3>2, <3>3
  <2> QED BY <2>1, <2>2, <2>3
<1> QED BY <1>1, <1>2, <1>3, <1>4, <1>5, <1>6, <1>7, <1>9

(* The first m turns take the sectors evenly, each from its front.         *)
FirstTurns(m) == {s \in Signals : Rank(Signals, TurnKey, s) < m}

LEMMA RoundRobin ==
  ASSUME pool \in Markets, NEW m \in Nat, NEW left \in Signals \ FirstTurns(m),
         NEW s \in FirstTurns(m)
  PROVE  /\ SectorOf(s) = SectorOf(left) => Before(SignalRank(s), SignalRank(left))
         /\ Cardinality({t \in FirstTurns(m) : SectorOf(t) = SectorOf(s)})
              <= Cardinality({t \in FirstTurns(m) : SectorOf(t) = SectorOf(left)}) + 1
<1> DEFINE C == FirstTurns(m)
           Taken(x) == {t \in C : SectorOf(t) = x}
           X == Sector(SectorOf(s))
           Y == Sector(SectorOf(left))
<1>1. Keyed(Signals, TurnKey) /\ IsFiniteSet(Signals)
  BY TurnKeyed, Groups
<1>2. s \in Signals /\ left \in Signals /\ C \subseteq Signals
  BY DEF FirstTurns
<1>3. \A t, u \in Signals : t \in C /\ Rank(Signals, TurnKey, u) < Rank(Signals, TurnKey, t) => u \in C
  BY <1>1, RankIsNumber DEF FirstTurns
<1>4. \A t \in C, u \in Signals \ C : Before(TurnKey[t], TurnKey[u])
  <2> TAKE t \in C, u \in Signals \ C
  <2>1. t \in Signals /\ u \in Signals /\ t # u
    BY <1>2
  <2>2. Rank(Signals, TurnKey, t) \in Nat /\ Rank(Signals, TurnKey, u) \in Nat
    BY <1>1, RankIsNumber
  <2>3. Rank(Signals, TurnKey, t) < Rank(Signals, TurnKey, u)
    BY <2>1, <2>2 DEF FirstTurns
  <2> QED BY <1>1, <2>1, <2>3, RankIsOrder
<1>5. \A t \in C, u \in Signals \ C : Place(t) <= Place(u) /\ (SectorOf(t) = SectorOf(u) => Place(t) < Place(u))
  <2> TAKE t \in C, u \in Signals \ C
  <2>1. t \in Signals /\ u \in Signals
    BY <1>2
  <2>2. Place(t) < Place(u) \/ (Place(t) = Place(u) /\ SectorIndex(t) < SectorIndex(u))
    BY <1>4, <2>1, TurnsOrdered
  <2>3. Place(t) \in Nat /\ Place(u) \in Nat /\ SectorIndex(t) \in Nat /\ SectorIndex(u) \in Nat
    BY <2>1, PlaceIsNumber, SectorsOrdered
  <2>4. SectorOf(t) = SectorOf(u) => SectorIndex(t) = SectorIndex(u)
    BY <2>1, SectorsOrdered
  <2> QED BY <2>2, <2>3, <2>4
<1>6. SectorOf(s) = SectorOf(left) => Before(SignalRank(s), SignalRank(left))
  BY <1>2, <1>5, PlaceIsOrder
<1>7. IsFiniteSet(C) /\ \A x : IsFiniteSet(Taken(x)) /\ Cardinality(Taken(x)) \in Nat
  <2>1. IsFiniteSet(C)
    BY <1>1, <1>2, FS_Subset
  <2>2. ASSUME NEW x PROVE IsFiniteSet(Taken(x)) /\ Cardinality(Taken(x)) \in Nat
    <3>1. Taken(x) \in SUBSET C
      OBVIOUS
    <3>2. IsFiniteSet(Taken(x))
      BY <2>1, <3>1, FS_Subset
    <3> QED BY <3>2, FS_CardinalityType
  <2> QED BY <2>1, <2>2
<1>8. PICK q \in Nat : q = Cardinality(Taken(SectorOf(left)))
  BY <1>7
<1>9. /\ X \subseteq Signals /\ IsFiniteSet(X) /\ Keyed(X, RankKey)
      /\ Y \subseteq Signals /\ IsFiniteSet(Y) /\ Keyed(Y, RankKey) /\ left \in Y
  BY <1>2, SectorFinite, RankKeyed DEF Sector
<1>10. /\ \A t \in X : Place(t) = Rank(X, RankKey, t)
       /\ \A t \in Y : Place(t) = Rank(Y, RankKey, t)
  BY PlaceIsRank DEF Sector
<1>11. Taken(SectorOf(left)) \subseteq Y \ {left} /\ Taken(SectorOf(s)) \subseteq X
  BY <1>2 DEF Sector
<1>12. Cardinality(Y) \in Nat /\ q < Cardinality(Y)
  <2>1. Cardinality(Y) \in Nat
    BY <1>9, FS_CardinalityType
  <2>2. Taken(SectorOf(left)) \in SUBSET Y /\ Taken(SectorOf(left)) # Y
    BY <1>9, <1>11
  <2>3. q <= Cardinality(Y) /\ q # Cardinality(Y)
    BY <1>8, <1>9, <2>2, FS_Subset
  <2> QED BY <2>1, <2>3
<1>13. PICK z \in Y : Place(z) = q
  BY <1>9, <1>10, <1>12, RanksCount
<1>14. z \notin C
  <2>1. SUFFICES ASSUME z \in C PROVE FALSE
    OBVIOUS
  <2>2. PICK F : F = {t \in Y : Rank(Y, RankKey, t) < q + 1}
    OBVIOUS
  <2>3. Cardinality(F) = q + 1
    BY <1>9, <1>12, <2>2, RanksCount
  <2>4. ASSUME NEW t \in F PROVE t \in Taken(SectorOf(left))
    <3>1. t \in Signals /\ SectorOf(t) = SectorOf(left) /\ Place(t) <= Place(z) /\ SectorOf(z) = SectorOf(left)
      BY <1>8, <1>10, <1>13, <2>2, PlaceIsNumber DEF Sector
    <3>2. t \in C
      <4>1. SUFFICES ASSUME t \notin C PROVE FALSE
        OBVIOUS
      <4>2. Place(z) < Place(t)
        BY <1>5, <2>1, <3>1, <4>1
      <4> QED BY <3>1, <4>2, <1>13, PlaceIsNumber
    <3> QED BY <3>1, <3>2
  <2>5. F \in SUBSET Taken(SectorOf(left))
    BY <2>4
  <2>6. Cardinality(F) <= q
    BY <1>7, <1>8, <2>5, FS_Subset
  <2> QED BY <2>3, <2>6
<1>15. Cardinality(Taken(SectorOf(s))) <= q + 1
  <2>1. PICK G : G = {t \in X : Rank(X, RankKey, t) < q + 1}
    OBVIOUS
  <2>2. ASSUME NEW t \in Taken(SectorOf(s)) PROVE t \in G
    <3>1. Place(t) <= q /\ t \in X
      BY <1>2, <1>5, <1>9, <1>11, <1>13, <1>14
    <3>2. Place(t) \in Nat
      BY <1>2, PlaceIsNumber
    <3> QED BY <1>10, <2>1, <3>1, <3>2
  <2>3. Taken(SectorOf(s)) \in SUBSET G /\ IsFiniteSet(G)
    BY <1>9, <2>1, <2>2, FS_Subset
  <2>4. Cardinality(Taken(SectorOf(s))) <= Cardinality(G)
    BY <2>3, FS_Subset
  <2>5. Cardinality(X) \in Nat
    BY <1>9, FS_CardinalityType
  <2>6. CASE q + 1 <= Cardinality(X)
    <3>1. Cardinality(G) = q + 1
      BY <1>9, <2>1, <2>5, <2>6, RanksCount
    <3> QED BY <2>4, <3>1, <1>7
  <2>7. CASE Cardinality(X) < q + 1
    <3>1. Cardinality(Taken(SectorOf(s))) <= Cardinality(X)
      BY <1>9, <1>11, FS_Subset
    <3> QED BY <1>7, <2>5, <2>7, <3>1
  <2> QED BY <2>5, <2>6, <2>7
<1> QED BY <1>6, <1>8, <1>15

-----------------------------------------------------------------------------
(* The population that the funnel returns.                                 *)

LEMMA MandatoryFacts ==
  ASSUME pool \in Markets
  PROVE  /\ Mandatory \in Seq(Universe) /\ Distinct(Mandatory) /\ Len(Mandatory) \in Nat
         /\ Elements(Mandatory) = Held \cup EventPasses
<1>1. PICK a : a = Sorted(Held, Id)
  OBVIOUS
<1>2. PICK b : b = Sorted(EventPasses \ Held, Id)
  OBVIOUS
<1>3. /\ a \in Seq(Held) /\ Distinct(a) /\ Elements(a) = Held
      /\ b \in Seq(EventPasses \ Held) /\ Distinct(b) /\ Elements(b) = EventPasses \ Held
  <2>1. /\ IsFiniteSet(Held) /\ Keyed(Held, Id)
        /\ IsFiniteSet(EventPasses \ Held) /\ Keyed(EventPasses \ Held, Id)
    BY Groups, IdKeyed
  <2> QED BY <1>1, <1>2, <2>1, SortedIsFirst
<1>4. a \in Seq(Universe) /\ b \in Seq(Universe)
  BY <1>3, Groups
<1>5. Elements(a) \cap Elements(b) = {}
  BY <1>3
<1>6. /\ a \o b \in Seq(Universe) /\ Distinct(a \o b)
      /\ Elements(a \o b) = Elements(a) \cup Elements(b)
  BY <1>3, <1>4, <1>5, Joined
<1>7. Mandatory = a \o b
  BY <1>1, <1>2 DEF Mandatory
<1> QED BY <1>3, <1>6, <1>7

\* How many controls are taken, and how many signals fit.
LEMMA Amounts ==
  ASSUME pool \in Markets
  PROVE  LET e == Cardinality(EligibleControls)
             mandatory == Len(Mandatory)
             room == FunnelBudget - mandatory - Reserved
         IN  /\ e \in Nat /\ Reserved \in Nat /\ Reserved <= e
             /\ Overflows => Reserved = 0
             /\ ~Overflows => /\ mandatory + Reserved <= FunnelBudget
                              /\ Reserved \in {ControlCount, e, FunnelBudget - mandatory}
             /\ SignalCapacity(Reserved) = IF room > 0 THEN room ELSE 0
<1>1. PICK e \in Nat : e = Cardinality(EligibleControls)
  BY Groups, FS_CardinalityType
<1>2. PICK mandatory \in Nat : mandatory = Len(Mandatory)
  BY MandatoryFacts
<1>3. FunnelBudget \in Nat /\ ControlCount \in Nat
  BY FunnelAssumption
<1>4. Overflows <=> mandatory > FunnelBudget
  BY <1>2 DEF Overflows
<1>5. CASE Overflows
  <2>1. Reserved = 0
    BY <1>5 DEF Reserved
  <2>2. PICK room \in Int : room = FunnelBudget - mandatory - Reserved
    BY <1>3, <2>1
  <2>3. room < 0
    BY <1>3, <1>4, <1>5, <2>1, <2>2
  <2>4. Largest({room}) = 0
    BY <2>3 DEF Largest
  <2>5. SignalCapacity(Reserved) = Largest({room})
    BY <1>2, <2>2 DEF SignalCapacity
  <2> QED BY <1>1, <1>2, <1>5, <2>1, <2>2, <2>3, <2>4, <2>5
<1>6. CASE ~Overflows
  <2>1. PICK places \in Nat : places = FunnelBudget - mandatory
    BY <1>3, <1>4, <1>6
  <2>2. Reserved = Smallest({ControlCount, e, places})
    BY <1>1, <1>2, <1>6, <2>1 DEF Reserved
  <2>3. PICK S : S = {ControlCount, e, places}
    OBVIOUS
  <2>4. \E n \in S : \A k \in S : n <= k
    <3>1. S \subseteq Nat /\ S # {}
      BY <1>3, <2>3
    <3> QED BY <3>1, LeastExists
  <2>5. Smallest(S) \in S /\ \A k \in S : Smallest(S) <= k
    BY <2>4 DEF Smallest
  <2>6. Reserved \in {ControlCount, e, places} /\ Reserved <= e /\ Reserved <= places
    BY <2>2, <2>3, <2>5
  <2>7. Reserved \in Nat
    BY <1>3, <2>6
  <2>8. PICK room \in Nat : room = FunnelBudget - mandatory - Reserved
    BY <2>1, <2>6, <2>7, <1>3
  <2>9. Largest({room}) = room
    <3>1. PICK n : n = Largest({room})
      OBVIOUS
    <3>2. n \in {room} \cup {0} /\ \A k \in {room} : k <= n
      <4>1. \E l \in {room} \cup {0} : \A k \in {room} : k <= l
        OBVIOUS
      <4> QED BY <3>1, <4>1 DEF Largest
    <3> QED BY <3>1, <3>2
  <2>10. SignalCapacity(Reserved) = Largest({room})
    BY <1>2, <2>8 DEF SignalCapacity
  <2> QED BY <1>1, <1>2, <1>3, <1>6, <2>1, <2>6, <2>7, <2>8, <2>9, <2>10
<1> QED BY <1>5, <1>6

FirstControls == {s \in EligibleControls : Rank(EligibleControls, HashKey, s) < Reserved}

LEMMA ControlFacts ==
  ASSUME pool \in Markets
  PROVE  LET controls == Truncate(Sorted(EligibleControls, HashKey), Reserved)
         IN  /\ controls \in Seq(Universe) /\ Distinct(controls) /\ Len(controls) = Reserved
             /\ Elements(controls) = FirstControls /\ Cardinality(FirstControls) = Reserved
<1>1. PICK controls : controls = Truncate(Sorted(EligibleControls, HashKey), Reserved)
  OBVIOUS
<1>2. IsFiniteSet(EligibleControls) /\ EligibleControls \subseteq Universe /\ Keyed(EligibleControls, HashKey)
  BY Groups, HashKeyed
<1>3. Reserved \in Nat /\ Reserved <= Cardinality(EligibleControls) /\ Cardinality(EligibleControls) \in Nat
  BY Amounts
<1>4. /\ controls \in Seq(EligibleControls) /\ Distinct(controls)
      /\ Elements(controls) = FirstControls
      /\ Len(controls) <= Reserved
      /\ Len(controls) = Reserved \/ Len(controls) = Cardinality(EligibleControls)
  <2>1. PICK S : S = EligibleControls
    OBVIOUS
  <2>2. PICK n \in Nat : n = Reserved
    BY <1>3
  <2>3. controls = Truncate(Sorted(S, HashKey), n) /\ IsFiniteSet(S) /\ Keyed(S, HashKey)
    BY <1>1, <1>2, <2>1, <2>2
  <2>4. /\ controls \in Seq(S) /\ Distinct(controls)
        /\ Elements(controls) = {x \in S : Rank(S, HashKey, x) < n}
        /\ Len(controls) <= n /\ (Len(controls) = n \/ Len(controls) = Cardinality(S))
    BY <2>3, FirstOfSorted
  <2> QED BY <2>1, <2>2, <2>4 DEF FirstControls
<1>5. controls \in Seq(Universe) /\ Len(controls) = Reserved
  BY <1>2, <1>3, <1>4
<1> QED BY <1>1, <1>4, <1>5 DEF Distinct

\* Mandatory names, then the first turns, then the first controls.
LEMMA WhatIsReturned ==
  ASSUME pool \in Markets
  PROVE  LET m == SignalCapacity(Reserved)
         IN  /\ m \in Nat /\ Distinct(RunFunnel) /\ Len(RunFunnel) \in Nat
             /\ Elements(RunFunnel) = Held \cup EventPasses \cup FirstTurns(m) \cup FirstControls
             /\ Len(RunFunnel) <= Len(Mandatory) + m + Reserved
             /\ FirstTurns(m) # Signals => Len(RunFunnel) = Len(Mandatory) + m + Reserved
             /\ Len(RunFunnel) >= Len(Mandatory) + Reserved
<1>1. PICK m : m = SignalCapacity(Reserved)
  OBVIOUS
<1>2. m \in Nat /\ Reserved \in Nat /\ Len(Mandatory) \in Nat
  BY <1>1, Amounts, MandatoryFacts, FunnelAssumption
<1>3. PICK controls : controls = Truncate(Sorted(EligibleControls, HashKey), Reserved)
  OBVIOUS
<1>4. /\ controls \in Seq(Universe) /\ Distinct(controls) /\ Len(controls) = Reserved
      /\ Elements(controls) = FirstControls
  BY <1>3, ControlFacts
<1>5. PICK signals : signals = Truncate(Sorted(Signals, TurnKey), m)
  OBVIOUS
<1>6. /\ signals \in Seq(Signals) /\ Distinct(signals) /\ Elements(signals) = FirstTurns(m)
      /\ Len(signals) \in Nat /\ Len(signals) <= m
      /\ Len(signals) = m \/ Len(signals) = Cardinality(Signals)
  <2>1. IsFiniteSet(Signals) /\ Keyed(Signals, TurnKey)
    BY Groups, TurnKeyed
  <2>2. /\ signals \in Seq(Signals) /\ Distinct(signals) /\ Elements(signals) = FirstTurns(m)
        /\ Len(signals) <= m
        /\ Len(signals) = m \/ Len(signals) = Cardinality(Signals)
    <3>1. PICK S : S = Signals
      OBVIOUS
    <3>2. PICK key : key = TurnKey
      OBVIOUS
    <3>3. signals = Truncate(Sorted(S, key), m) /\ IsFiniteSet(S) /\ Keyed(S, key)
      BY <1>5, <2>1, <3>1, <3>2
    <3>4. /\ signals \in Seq(S) /\ Distinct(signals)
          /\ Elements(signals) = {x \in S : Rank(S, key, x) < m}
          /\ Len(signals) <= m /\ (Len(signals) = m \/ Len(signals) = Cardinality(S))
      <4>1. m \in Nat
        BY <1>2
      <4> QED BY <3>3, <4>1, FirstOfSorted
    <3> QED BY <3>1, <3>2, <3>4 DEF FirstTurns
  <2> QED BY <2>2
<1>7. FirstTurns(m) # Signals => Len(signals) = m
  <2>1. FirstTurns(m) \in SUBSET Signals
    BY DEF FirstTurns
  <2>2. FirstTurns(m) # Signals => Cardinality(FirstTurns(m)) # Cardinality(Signals)
    BY <2>1, Groups, FS_Subset
  <2> QED BY <1>6, <2>2 DEF Distinct
<1>8. /\ FirstTurns(m) \subseteq Signals /\ FirstControls \subseteq EligibleControls
      /\ signals \in Seq(Universe)
  BY <1>6, Groups DEF FirstTurns, FirstControls
<1>9. PICK front : front = Mandatory \o signals
  OBVIOUS
<1>10. /\ front \in Seq(Universe) /\ Distinct(front) /\ Len(front) = Len(Mandatory) + Len(signals)
       /\ Elements(front) = Held \cup EventPasses \cup FirstTurns(m)
  <2>1. Elements(Mandatory) \cap Elements(signals) = {}
    BY <1>6, <1>8, MandatoryFacts, Groups
  <2> QED BY <1>6, <1>8, <1>9, <2>1, MandatoryFacts, Joined
<1>11. PICK all : all = front \o controls
  OBVIOUS
<1>12. /\ Distinct(all) /\ Len(all) = Len(front) + Len(controls) /\ all \in Seq(Universe)
       /\ Elements(all) = Elements(front) \cup Elements(controls)
  <2>1. Elements(front) \cap Elements(controls) = {}
    BY <1>4, <1>8, <1>10, Groups
  <2> QED BY <1>4, <1>10, <1>11, <2>1, Joined
<1>13. RunFunnel = (Mandatory \o signals) \o controls
  <2>1. signals = Truncate(Sorted(Signals, [s \in Signals |-> Turn(s)]), SignalCapacity(Len(controls)))
    BY <1>1, <1>4, <1>5 DEF TurnKey
  <2> QED BY <1>3, <2>1 DEF RunFunnel
<1>14. RunFunnel = all
  BY <1>9, <1>11, <1>13
<1> HIDE DEF RunFunnel
<1>15. Len(all) = Len(Mandatory) + Len(signals) + Reserved
  BY <1>4, <1>10, <1>12
<1> QED BY <1>1, <1>2, <1>4, <1>6, <1>7, <1>10, <1>12, <1>14, <1>15

LEMMA PopulationIsFair ==
  ASSUME pool \in Markets, candidates = RunFunnel, flagged = Overflows
  PROVE  FunnelIsFair
<1>1. PICK m \in Nat : m = SignalCapacity(Reserved)
  BY WhatIsReturned
<1>2. PICK chosen : chosen = {candidates[k] : k \in DOMAIN candidates}
  OBVIOUS
<1>3. PICK n \in Nat : n = Len(candidates)
  BY WhatIsReturned
<1>4. /\ chosen = Held \cup EventPasses \cup FirstTurns(m) \cup FirstControls
      /\ Cardinality(chosen) = n /\ n <= Len(Mandatory) + m + Reserved
      /\ FirstTurns(m) # Signals => n = Len(Mandatory) + m + Reserved
      /\ n >= Len(Mandatory) + Reserved
  BY <1>1, <1>2, <1>3, WhatIsReturned DEF Elements, Distinct
<1>5. FirstTurns(m) \subseteq Signals /\ FirstControls \subseteq EligibleControls
  BY DEF FirstTurns, FirstControls
<1>6. /\ Signals \cap chosen = FirstTurns(m) /\ EligibleControls \cap chosen = FirstControls
  BY <1>4, <1>5, Groups
<1>7. /\ FunnelBudget \in Nat /\ ControlCount \in Nat /\ Len(Mandatory) \in Nat /\ Reserved \in Nat
      /\ flagged <=> Len(Mandatory) > FunnelBudget
      /\ flagged => Reserved = 0 /\ m = 0
      /\ ~flagged => /\ m = FunnelBudget - Len(Mandatory) - Reserved
                     /\ Len(Mandatory) + Reserved <= FunnelBudget
                     /\ Reserved \in {ControlCount, Cardinality(EligibleControls), FunnelBudget - Len(Mandatory)}
  <2>1. PICK e : e = Cardinality(EligibleControls)
    OBVIOUS
  <2>2. PICK mandatory \in Nat : mandatory = Len(Mandatory)
    BY MandatoryFacts
  <2>3. PICK taken \in Nat : taken = Reserved
    BY Amounts
  <2>4. flagged <=> mandatory > FunnelBudget
    BY <2>2 DEF Overflows
  <2>5. /\ flagged => taken = 0
        /\ ~flagged => mandatory + taken <= FunnelBudget /\ taken \in {ControlCount, e, FunnelBudget - mandatory}
        /\ m = IF FunnelBudget - mandatory - taken > 0 THEN FunnelBudget - mandatory - taken ELSE 0
    BY <1>1, <2>1, <2>2, <2>3, Amounts
  <2>6. FunnelBudget \in Nat /\ ControlCount \in Nat
    BY FunnelAssumption
  <2>7. /\ flagged => m = 0
        /\ ~flagged => m = FunnelBudget - mandatory - taken
    BY <2>2, <2>3, <2>4, <2>5, <2>6
  <2> QED BY <2>1, <2>2, <2>3, <2>4, <2>5, <2>6, <2>7
<1>8. Held \cup EventPasses \subseteq chosen
  BY <1>4
<1>9. (n > FunnelBudget) => (flagged /\ \A s \in chosen : IsMandatory(s))
  <2>1. SUFFICES ASSUME n > FunnelBudget PROVE flagged /\ \A s \in chosen : IsMandatory(s)
    OBVIOUS
  <2>2. flagged
    BY <1>4, <1>7, <2>1
  <2>3. FirstTurns(m) = {}
    <3>1. \A s \in Signals : Rank(Signals, TurnKey, s) \in Nat
      BY Groups, RankIsNumber
    <3> QED BY <1>7, <2>2, <3>1 DEF FirstTurns
  <2>4. FirstControls = {}
    <3>1. \A s \in EligibleControls : Rank(EligibleControls, HashKey, s) \in Nat
      BY Groups, RankIsNumber
    <3> QED BY <1>7, <2>2, <3>1 DEF FirstControls
  <2> QED BY <1>4, <2>2, <2>3, <2>4 DEF IsMandatory
<1>10. flagged => n > FunnelBudget
  BY <1>4, <1>7
<1>11. ASSUME NEW left \in Signals \ chosen
       PROVE  /\ n >= FunnelBudget
              /\ \A s \in Signals \cap chosen :
                   /\ Cardinality({t \in Signals \cap chosen : SectorOf(t) = SectorOf(s)})
                        <= Cardinality({t \in Signals \cap chosen : SectorOf(t) = SectorOf(left)}) + 1
                   /\ SectorOf(s) = SectorOf(left) => Before(SignalRank(s), SignalRank(left))
  <2>1. left \in Signals \ FirstTurns(m)
    BY <1>6
  <2>2. n >= FunnelBudget
    BY <1>4, <1>7, <1>10, <2>1
  <2>3. ASSUME NEW s \in FirstTurns(m)
        PROVE  /\ SectorOf(s) = SectorOf(left) => Before(SignalRank(s), SignalRank(left))
               /\ Cardinality({t \in FirstTurns(m) : SectorOf(t) = SectorOf(s)})
                    <= Cardinality({t \in FirstTurns(m) : SectorOf(t) = SectorOf(left)}) + 1
    BY <2>1, RoundRobin
  <2> QED BY <1>6, <2>2, <2>3
<1>12. \A s \in chosen : IsMandatory(s) \/ s \in Signals \/ Passing(s, BaseFamilies) = {}
  <2>1. ASSUME NEW s \in FirstControls PROVE Passing(s, BaseFamilies) = {}
    <3>1. s \in Universe /\ ~IsMandatory(s) /\ s \notin Signals
      BY <1>5 DEF EligibleControls, IsControl
    <3> QED BY <3>1 DEF Signals
  <2> QED BY <1>4, <1>5, <2>1 DEF IsMandatory
<1>13. \A left \in EligibleControls \ chosen :
         n >= FunnelBudget \/ Cardinality(EligibleControls \cap chosen) = ControlCount
  <2> TAKE left \in EligibleControls \ chosen
  <2>1. Cardinality(FirstControls) = Reserved
    BY ControlFacts
  <2>2. left \notin FirstControls /\ FirstControls \in SUBSET EligibleControls
    BY <1>5, <1>6
  <2>3. Reserved # Cardinality(EligibleControls)
    <3>1. FirstControls # EligibleControls /\ IsFiniteSet(EligibleControls)
      BY <2>2, Groups
    <3>2. Cardinality(FirstControls) # Cardinality(EligibleControls)
      BY <2>2, <3>1, FS_Subset
    <3> QED BY <2>1, <3>2
  <2>4. CASE flagged
    BY <1>7, <1>10, <2>4
  <2>5. CASE ~flagged
    <3>1. Reserved = ControlCount \/ Reserved = FunnelBudget - Len(Mandatory)
      BY <1>7, <2>3, <2>5
    <3>2. n >= Len(Mandatory) + Reserved
      BY <1>4
    <3>3. CASE Reserved = ControlCount
      BY <1>6, <2>1, <3>3
    <3>4. CASE Reserved = FunnelBudget - Len(Mandatory)
      BY <1>7, <3>2, <3>4
    <3> QED BY <3>1, <3>3, <3>4
  <2> QED BY <2>4, <2>5
<1>14. Cardinality(chosen) = n
  BY <1>4
<1> HIDE DEF RunFunnel
<1> QED BY <1>2, <1>3, <1>8, <1>9, <1>10, <1>11, <1>12, <1>13, <1>14 DEF FunnelIsFair

FunnelInv ==
  /\ pool \in Markets
  /\ candidates # <<>> => candidates = RunFunnel /\ flagged = Overflows

(* Whatever a run stored and holds, its candidates are a fair choice: the   *)
(* mandatory names all, the sectors evenly and each from its best signals,  *)
(* and places left only when nobody is (run_funnel).                        *)
THEOREM ChoiceIsFair == FunnelSpec => []FunnelIsFair
<1>1. FunnelInit => FunnelInv
  BY DEF FunnelInit, FunnelInv
<1>2. FunnelInv /\ [Choose]_funnelVars => FunnelInv'
  <2>1. SUFFICES ASSUME FunnelInv, [Choose]_funnelVars PROVE FunnelInv'
    OBVIOUS
  <2>2. pool' = pool
    BY <2>1 DEF Choose, funnelVars
  <2>3. RunFunnel' = RunFunnel /\ Overflows' = Overflows
    BY <2>2 DEF RunFunnel, Overflows, Mandatory, EligibleControls, Reserved, Signals, Turn,
                SignalCapacity, Held, EventPasses, IsMandatory, IsControl, Passing, Rows, SectorOf,
                Place, SectorIndex, SignalRank
  <2>4. CASE Choose
    BY <2>1, <2>2, <2>3, <2>4 DEF FunnelInv, Choose
  <2>5. CASE UNCHANGED funnelVars
    BY <2>1, <2>2, <2>3, <2>5 DEF FunnelInv, funnelVars
  <2> QED BY <2>1, <2>4, <2>5
<1>3. FunnelInv => FunnelIsFair
  <2>1. SUFFICES ASSUME FunnelInv PROVE FunnelIsFair
    OBVIOUS
  <2>2. CASE candidates = <<>>
    BY <2>2 DEF FunnelIsFair
  <2>3. CASE candidates # <<>>
    BY <2>1, <2>3, PopulationIsFair DEF FunnelInv
  <2> QED BY <2>2, <2>3
<1> QED BY <1>1, <1>2, <1>3, PTL DEF FunnelSpec

-----------------------------------------------------------------------------
(* What a pipeline may still hold open after its baselines.                *)
LaterJobs ==
  {Removal(i) : i \in 1 .. Len(Removals)} \cup {Confluence}
    \cup {Gate(i) : i \in 1 .. Len(Gates)} \cup {Fold(j) : j \in 1 .. Len(Walks) * Folds}

Jobs == {Baseline(b) : b \in Baselines} \cup LaterJobs \cup {ConfluenceOn, Holdout}
Entries == {Entry(p, j) : p \in Pipelines, j \in Jobs}

PipelineSteps == {"idle", "baselines", "later", "seal", "check", "holdout", "stopped"}
PipelineState ==
  [pc : PipelineSteps, left : Seq(LaterJobs), open : Seq(Entries), failing : BOOLEAN]
AttemptRow ==
  [status : {"RUNNING", "COMPLETE", "FAILED", "INSUFFICIENT_DATA"}, metrics : 0 .. Measures,
   early : BOOLEAN]

ExperimentTypes ==
  /\ regime \in [coverage : Coverages, sealed : BOOLEAN]
  /\ Recorded \subseteq Entries
  /\ attempt \in [Recorded -> AttemptRow]
  /\ pipeline \in [Pipelines -> PipelineState]

(* The attempts a pipeline holds open belong to the phase it is in.        *)
HoldsOpen(p) ==
  LET r == pipeline[p]
  IN  \/ r.pc = "stopped"
      \/ r.open = <<>>
      \/ r.pc = "baselines" /\ \E b \in Baselines : r.open = <<Entry(p, Baseline(b))>>
      \/ r.pc = "later" /\ \E j \in LaterJobs : r.open = <<Entry(p, j)>>
      \/ r.pc = "later" /\ r.open = <<Entry(p, ConfluenceOn), Entry(p, Confluence)>>
      \/ r.pc = "holdout" /\ r.open = <<Entry(p, Holdout)>>

IsOpen(p, a) == \E n \in 1 .. Len(pipeline[p].open) : pipeline[p].open[n] = a
RunsOpen(p) ==
  pipeline[p].pc # "stopped" =>
    \A a \in Recorded : a.by = p /\ attempt[a].status = "RUNNING" => IsOpen(p, a)

Measured(a) == a \in Recorded /\ attempt[a].status = "COMPLETE" /\ attempt[a].metrics = Measures

(* How far its development is.                                             *)
Developed(p) ==
  /\ pipeline[p].pc = "idle" => \A a \in Recorded : a.by # p
  /\ pipeline[p].pc = "baselines" =>
       \A b \in Baselines :
         LET a == Entry(p, Baseline(b)) IN a \in Recorded => IsOpen(p, a) \/ Measured(a)
  /\ pipeline[p].pc \in {"later", "seal", "check", "holdout"} =>
       \A b \in Baselines : Measured(Entry(p, Baseline(b)))
  /\ pipeline[p].pc \in {"check", "holdout"} => regime.sealed

(* What its holdout found when it was opened, and it opens nothing more.   *)
Final(p) ==
  \A h \in Recorded : h.kind = "HOLDOUT" /\ h.by = p =>
    /\ regime.sealed
    /\ pipeline[p].pc = "stopped" \/ (pipeline[p].pc = "holdout" /\ pipeline[p].open = <<h>>)
    /\ \A b \in Baselines : Measured(Entry(p, Baseline(b)))
    /\ \A a \in Recorded : a.by = p /\ attempt[a].status = "RUNNING" => a = h

InOrder(p) == HoldsOpen(p) /\ RunsOpen(p) /\ Developed(p) /\ Final(p)

ExperimentInv ==
  /\ ExperimentTypes
  /\ \A p \in Pipelines : InOrder(p)
  /\ \A a \in Recorded : a.by \in Pipelines /\ (a.kind # "HOLDOUT" => attempt[a].early)
  /\ \A a, h \in Recorded : a.kind = "HOLDOUT" /\ h.kind = "HOLDOUT" => a = h
-----------------------------------------------------------------------------
LEMMA FoldsIsNumber ==
  ASSUME regime \in [coverage : Coverages, sealed : BOOLEAN]
  PROVE  Len(Walks) * Folds \in Nat
<1>1. Folds \in Nat
  <2>1. regime.coverage \in Nat
    BY ExperimentAssumption
  <2>2. \A n \in Nat : n + 181 \in Nat
    OBVIOUS
  <2>3. \A n \in Nat : n \div 182 \in Nat
    OBVIOUS
  <2> QED BY <2>1, <2>2, <2>3 DEF Folds
<1>2. Len(Walks) \in Nat
  BY ExperimentAssumption
<1>3. \A m, n \in Nat : m * n \in Nat
  OBVIOUS
<1> QED BY <1>1, <1>2, <1>3

(* Everything that follows the baselines is a job of its own.              *)
LEMMA LaterIsLater ==
  ASSUME NEW j \in LaterJobs
  PROVE  /\ j.kind # "HOLDOUT"
         /\ \A b \in Baselines : \A p, q : Entry(p, j) # Entry(q, Baseline(b))
<1>1. CASE \E i \in 1 .. Len(Removals) : j = Removal(i)
  BY <1>1 DEF Removal, Job, Entry, Baseline
<1>2. CASE j = Confluence
  BY <1>2 DEF Confluence, Job, Entry, Baseline
<1>3. CASE \E i \in 1 .. Len(Gates) : j = Gate(i)
  BY <1>3 DEF Gate, Job, Entry, Baseline
<1>4. CASE \E i \in 1 .. Len(Walks) * Folds : j = Fold(i)
  BY <1>4 DEF Fold, Job, Entry, Baseline
<1> QED BY <1>1, <1>2, <1>3, <1>4 DEF LaterJobs

LEMMA AfterIsLater ==
  ASSUME regime \in [coverage : Coverages, sealed : BOOLEAN]
  PROVE  AfterBaselines \in Seq(LaterJobs)
<1>1. [i \in 1 .. Len(Removals) |-> Removal(i)] \in Seq(LaterJobs)
  BY ExperimentAssumption DEF LaterJobs
<1>2. <<Confluence>> \in Seq(LaterJobs)
  BY DEF LaterJobs
<1>3. [i \in 1 .. Len(Gates) |-> Gate(i)] \in Seq(LaterJobs)
  BY ExperimentAssumption DEF LaterJobs
<1>4. [j \in 1 .. Len(Walks) * Folds |-> Fold(j)] \in Seq(LaterJobs)
  BY FoldsIsNumber DEF LaterJobs
<1> HIDE DEF LaterJobs
<1> DEFINE a == [i \in 1 .. Len(Removals) |-> Removal(i)]
           c == [i \in 1 .. Len(Gates) |-> Gate(i)]
           d == [j \in 1 .. Len(Walks) * Folds |-> Fold(j)]
<1> HIDE DEF a, c, d
<1>5. \A s, t \in Seq(LaterJobs) : s \o t \in Seq(LaterJobs)
  OBVIOUS
<1>6. a \in Seq(LaterJobs) /\ c \in Seq(LaterJobs) /\ d \in Seq(LaterJobs)
  BY <1>1, <1>3, <1>4 DEF a, c, d
<1>7. AfterBaselines = a \o <<Confluence>> \o c \o d
  BY DEF AfterBaselines, a, c, d
<1>8. a \o <<Confluence>> \in Seq(LaterJobs)
  BY <1>2, <1>5, <1>6
<1>9. (a \o <<Confluence>>) \o c \in Seq(LaterJobs)
  BY <1>5, <1>6, <1>8
<1> QED BY <1>5, <1>6, <1>7, <1>9

LEMMA InitInOrder == ExperimentInit => ExperimentInv
<1> SUFFICES ASSUME ExperimentInit PROVE ExperimentInv
  OBVIOUS
<1>1. ExperimentTypes
  <2>1. regime \in [coverage : Coverages, sealed : BOOLEAN]
    <3>1. PICK c \in Coverages : regime = NewRegime(c)
      BY DEF ExperimentInit
    <3> QED BY <3>1 DEF NewRegime
  <2>2. Recorded = {} /\ attempt \in [Recorded -> AttemptRow]
    BY DEF ExperimentInit, Recorded
  <2>3. pipeline \in [Pipelines -> PipelineState]
    <3>1. <<>> \in Seq(LaterJobs) /\ <<>> \in Seq(Entries)
      OBVIOUS
    <3> QED BY <3>1 DEF ExperimentInit, PipelineState, PipelineSteps
  <2> QED BY <2>1, <2>2, <2>3 DEF ExperimentTypes
<1>2. \A p \in Pipelines : InOrder(p)
  BY DEF ExperimentInit, InOrder, HoldsOpen, RunsOpen, Developed, Final, Recorded
<1> QED BY <1>1, <1>2 DEF ExperimentInv, ExperimentInit, Recorded

LEMMA JobsStay ==
  ASSUME regime'.coverage = regime.coverage, population' = population
  PROVE  LaterJobs' = LaterJobs /\ Jobs' = Jobs /\ Entries' = Entries
<1>1. LaterJobs' = LaterJobs
  BY DEF LaterJobs, Removal, Fold, Folds, Confluence, Gate, Job
<1>2. Jobs' = Jobs
  BY <1>1 DEF Jobs, Baseline, ConfluenceOn, Holdout, Job
<1>3. Entries' = Entries
  BY <1>2 DEF Entries, Entry
<1> QED BY <1>1, <1>2, <1>3

LEMMA EntryFields ==
  \A p, j : Entry(p, j).by = p /\ Entry(p, j).kind = j.kind
BY DEF Entry

(* What another pipeline does to its own attempts disturbs nothing.        *)
LEMMA OthersInOrder ==
  ASSUME NEW p \in Pipelines, NEW q \in Pipelines, q # p, InOrder(q),
         pipeline'[q] = pipeline[q], regime.sealed => regime'.sealed,
         LaterJobs' = LaterJobs, Recorded \subseteq Recorded',
         \A a \in Recorded' : a.by # p => a \in Recorded /\ attempt'[a] = attempt[a]
  PROVE  InOrder(q)'
<1>1. HoldsOpen(q)'
  BY DEF InOrder, HoldsOpen, Confluence, ConfluenceOn, Holdout, Baseline, Job
<1>2. RunsOpen(q)'
  BY DEF InOrder, RunsOpen, IsOpen
<1>3. \A j : Entry(q, j) \in Recorded' =>
             Entry(q, j) \in Recorded /\ attempt'[Entry(q, j)] = attempt[Entry(q, j)]
  BY EntryFields
<1>4. \A j : Measured(Entry(q, j)) => Measured(Entry(q, j))'
  BY <1>3 DEF Measured
<1>5. Developed(q)'
  BY <1>3, <1>4 DEF InOrder, Developed, IsOpen
<1>6. Final(q)'
  BY <1>4 DEF InOrder, Final
<1> QED BY <1>1, <1>2, <1>5, <1>6 DEF InOrder

(* So a step of p keeps the invariant if it keeps p in order.              *)
LEMMA PipelineMoves ==
  ASSUME ExperimentInv, NEW p \in Pipelines, NEW r \in PipelineState, Moves(p, r),
         regime' \in [coverage : Coverages, sealed : BOOLEAN],
         regime'.coverage = regime.coverage, regime.sealed => regime'.sealed,
         population' = population,
         Recorded \subseteq Recorded', Recorded' \subseteq Entries,
         attempt' \in [Recorded' -> AttemptRow],
         \A a \in Recorded' : a.by # p => a \in Recorded /\ attempt'[a] = attempt[a],
         InOrder(p)',
         \A a \in Recorded' : a.kind # "HOLDOUT" => attempt'[a].early,
         \A a, h \in Recorded' : a.kind = "HOLDOUT" /\ h.kind = "HOLDOUT" => a = h
  PROVE  ExperimentInv'
<1>1. LaterJobs' = LaterJobs /\ Entries' = Entries
  BY JobsStay
<1>2. pipeline' \in [Pipelines -> PipelineState] /\ \A q \in Pipelines \ {p} : pipeline'[q] = pipeline[q]
  BY DEF ExperimentInv, ExperimentTypes, Moves
<1>3. ExperimentTypes'
  BY <1>1, <1>2 DEF ExperimentTypes, PipelineState
<1>4. \A q \in Pipelines : InOrder(q)'
  <2> SUFFICES ASSUME NEW q \in Pipelines, q # p PROVE InOrder(q)'
    OBVIOUS
  <2> QED BY <1>1, <1>2, OthersInOrder DEF ExperimentInv
<1> QED BY <1>3, <1>4 DEF ExperimentInv

(* A step that writes no attempt.                                          *)
LEMMA OnlyPipelineMoves ==
  ASSUME ExperimentInv, NEW p \in Pipelines, NEW r \in PipelineState, Moves(p, r),
         UNCHANGED <<regime, population, attempt>>, InOrder(p)'
  PROVE  ExperimentInv'
<1>1. Recorded' = Recorded
  BY DEF Recorded
<1>2. regime \in [coverage : Coverages, sealed : BOOLEAN] /\ Recorded \subseteq Entries
      /\ attempt \in [Recorded -> AttemptRow]
  BY DEF ExperimentInv, ExperimentTypes
<1>3. \A a \in Recorded : a.kind # "HOLDOUT" => attempt[a].early
  BY DEF ExperimentInv
<1>4. \A a, h \in Recorded : a.kind = "HOLDOUT" /\ h.kind = "HOLDOUT" => a = h
  BY DEF ExperimentInv
<1> QED BY <1>1, <1>2, <1>3, <1>4, PipelineMoves

LEMMA PipelineFacts ==
  ASSUME ExperimentInv, NEW p \in Pipelines
  PROVE  /\ pipeline[p] \in PipelineState
         /\ InOrder(p)
         /\ \A r : Moves(p, r) => pipeline'[p] = r
BY DEF ExperimentInv, ExperimentTypes, Moves

LEMMA StopInOrder ==
  ASSUME ExperimentInv, NEW p \in Pipelines, Moves(p, Stops(pipeline[p])),
         UNCHANGED <<regime, population, attempt>>
  PROVE  ExperimentInv'
<1>1. Stops(pipeline[p]) \in PipelineState /\ Stops(pipeline[p]).pc = "stopped"
  BY PipelineFacts DEF Stops, PipelineState, PipelineSteps
<1>2. pipeline'[p].pc = "stopped"
  BY <1>1, PipelineFacts
<1>3. Recorded' = Recorded
  BY DEF Recorded
<1>4. \A a : Measured(a)' = Measured(a)
  BY <1>3 DEF Measured
<1>5. Final(p)'
  BY <1>2, <1>3, <1>4, PipelineFacts DEF InOrder, Final
<1>6. InOrder(p)'
  BY <1>2, <1>5 DEF InOrder, HoldsOpen, RunsOpen, Developed
<1> QED BY <1>1, <1>6, OnlyPipelineMoves

(* What is unchanged for a pipeline that writes no attempt.                *)
LEMMA SameAttempts ==
  ASSUME attempt' = attempt
  PROVE  Recorded' = Recorded /\ \A a : Measured(a)' = Measured(a)
<1>1. Recorded' = Recorded
  BY DEF Recorded
<1> QED BY <1>1 DEF Measured

LEMMA StaysInOrder ==
  ASSUME NEW p \in Pipelines, InOrder(p), attempt' = attempt,
         pipeline'[p].pc = pipeline[p].pc, pipeline'[p].open = pipeline[p].open,
         regime.sealed => regime'.sealed, LaterJobs' = LaterJobs
  PROVE  InOrder(p)'
<1>1. HoldsOpen(p)'
  BY DEF InOrder, HoldsOpen, Confluence, ConfluenceOn, Holdout, Baseline, Job
<1>2. RunsOpen(p)'
  BY SameAttempts DEF InOrder, RunsOpen, IsOpen
<1>3. Developed(p)'
  <2>1. \A b \in Baselines : Entry(p, Baseline(b))' = Entry(p, Baseline(b))
    BY DEF Entry, Baseline, Job
  <2> QED BY <2>1, SameAttempts DEF InOrder, Developed, IsOpen
<1>4. Final(p)'
  <2>1. \A b \in Baselines : Entry(p, Baseline(b))' = Entry(p, Baseline(b))
    BY DEF Entry, Baseline, Job
  <2> QED BY <2>1, SameAttempts DEF InOrder, Final
<1> QED BY <1>1, <1>2, <1>3, <1>4 DEF InOrder

LEMMA StartPipelineInOrder ==
  ASSUME ExperimentInv, NEW p \in Pipelines, StartPipeline(p) PROVE ExperimentInv'
<1> DEFINE r == [pipeline[p] EXCEPT !.pc = "baselines", !.left = AfterBaselines]
<1>1. r \in PipelineState /\ r.pc = "baselines" /\ r.open = pipeline[p].open
  BY AfterIsLater, PipelineFacts DEF PipelineState, PipelineSteps, ExperimentInv, ExperimentTypes
<1>2. Moves(p, r) /\ pipeline[p].pc = "idle" /\ UNCHANGED <<regime, population, attempt>>
  BY DEF StartPipeline
<1>3. pipeline'[p] = r
  BY <1>2, PipelineFacts
<1> HIDE DEF r
<1>4. \A a \in Recorded : a.by # p
  BY <1>2, PipelineFacts DEF InOrder, Developed
<1>5. pipeline[p].open = <<>>
  BY <1>2, PipelineFacts DEF InOrder, HoldsOpen
<1>6. HoldsOpen(p)' /\ RunsOpen(p)' /\ Final(p)'
  BY <1>1, <1>2, <1>3, <1>4, <1>5, SameAttempts DEF HoldsOpen, RunsOpen, Final
<1>7. Developed(p)'
  BY <1>1, <1>2, <1>3, <1>4, SameAttempts, EntryFields DEF Developed, Entry, Baseline, Job
<1> QED BY <1>1, <1>2, <1>6, <1>7, OnlyPipelineMoves DEF InOrder

LEMMA MeasurementRaisesInOrder ==
  ASSUME ExperimentInv, NEW p \in Pipelines, MeasurementRaises(p) PROVE ExperimentInv'
<1> DEFINE r == [pipeline[p] EXCEPT !.failing = TRUE]
<1>1. r \in PipelineState /\ r.pc = pipeline[p].pc /\ r.open = pipeline[p].open
  BY PipelineFacts DEF PipelineState
<1>2. Moves(p, r) /\ UNCHANGED <<regime, population, attempt>>
  BY DEF MeasurementRaises
<1>3. pipeline'[p] = r
  BY <1>2, PipelineFacts
<1> HIDE DEF r
<1>4. InOrder(p)'
  BY <1>1, <1>2, <1>3, StaysInOrder, JobsStay, PipelineFacts
<1> QED BY <1>1, <1>2, <1>4, OnlyPipelineMoves

(* A pipeline past its jobs holds nothing open and has no holdout.         *)
LEMMA NothingOpen ==
  ASSUME ExperimentInv, NEW p \in Pipelines,
         pipeline[p].pc \in {"later", "seal", "check"}, pipeline[p].open = <<>>
  PROVE  /\ \A a \in Recorded : a.by = p => attempt[a].status # "RUNNING" /\ a.kind # "HOLDOUT"
         /\ \A b \in Baselines : Measured(Entry(p, Baseline(b)))
BY PipelineFacts DEF InOrder, RunsOpen, IsOpen, Developed, Final

LEMMA TurnInOrder ==
  ASSUME ExperimentInv, NEW p \in Pipelines,
         pipeline[p].pc \in {"later", "seal", "check"}, pipeline[p].open = <<>>,
         NEW pc \in {"seal", "check", "holdout"},
         Moves(p, [pipeline[p] EXCEPT !.pc = pc]),
         regime' \in [coverage : Coverages, sealed : BOOLEAN],
         regime'.coverage = regime.coverage, regime.sealed => regime'.sealed,
         pc # "seal" => regime'.sealed,
         UNCHANGED <<population, attempt>>
  PROVE  ExperimentInv'
<1> DEFINE r == [pipeline[p] EXCEPT !.pc = pc]
<1>1. r \in PipelineState /\ r.pc = pc /\ r.open = <<>>
  BY PipelineFacts DEF PipelineState, PipelineSteps
<1>2. pipeline'[p] = r
  BY PipelineFacts
<1>3. Moves(p, r)
  OBVIOUS
<1> HIDE DEF r
<1>4. HoldsOpen(p)'
  BY <1>1, <1>2 DEF HoldsOpen
<1>5. RunsOpen(p)' /\ Final(p)'
  BY <1>1, <1>2, NothingOpen, SameAttempts DEF RunsOpen, Final
<1>6. Developed(p)'
  BY <1>1, <1>2, NothingOpen, SameAttempts DEF Developed, Entry, Baseline, Job
<1>7. /\ Recorded \subseteq Entries /\ attempt \in [Recorded -> AttemptRow]
      /\ \A a \in Recorded : a.kind # "HOLDOUT" => attempt[a].early
      /\ \A a, h \in Recorded : a.kind = "HOLDOUT" /\ h.kind = "HOLDOUT" => a = h
  BY DEF ExperimentInv, ExperimentTypes
<1> QED BY <1>1, <1>3, <1>4, <1>5, <1>6, <1>7, SameAttempts, PipelineMoves DEF InOrder

LEMMA LoadRegimeInOrder ==
  ASSUME ExperimentInv, NEW p \in Pipelines, LoadRegime(p) PROVE ExperimentInv'
<1>1. regime \in [coverage : Coverages, sealed : BOOLEAN]
  BY DEF ExperimentInv, ExperimentTypes
<1>2. CASE regime.sealed
  BY <1>1, <1>2, TurnInOrder DEF LoadRegime
<1>3. CASE ~regime.sealed
  BY <1>1, <1>3, TurnInOrder DEF LoadRegime
<1> QED BY <1>2, <1>3

LEMMA HoldsNothing ==
  ASSUME ExperimentInv, NEW p \in Pipelines, pipeline[p].pc \in {"seal", "check"}
  PROVE  pipeline[p].open = <<>>
BY PipelineFacts DEF InOrder, HoldsOpen

LEMMA SealRegimeInOrder ==
  ASSUME ExperimentInv, NEW p \in Pipelines, SealRegime(p) PROVE ExperimentInv'
<1>1. regime \in [coverage : Coverages, sealed : BOOLEAN]
  BY DEF ExperimentInv, ExperimentTypes
<1>2. CASE regime.sealed
  BY <1>1, <1>2, StopInOrder DEF SealRegime
<1>3. CASE ~regime.sealed
  BY <1>1, <1>3, TurnInOrder, HoldsNothing DEF SealRegime
<1> QED BY <1>2, <1>3

LEMMA CheckHoldoutInOrder ==
  ASSUME ExperimentInv, NEW p \in Pipelines, CheckHoldout(p) PROVE ExperimentInv'
<1>1. regime \in [coverage : Coverages, sealed : BOOLEAN]
  BY DEF ExperimentInv, ExperimentTypes
<1>2. CASE HoldoutSpent
  BY <1>2, StopInOrder DEF CheckHoldout
<1>3. CASE ~HoldoutSpent
  <2>1. regime.sealed
    BY PipelineFacts DEF CheckHoldout, InOrder, Developed
  <2> QED BY <1>1, <1>3, <2>1, TurnInOrder, HoldsNothing DEF CheckHoldout
<1> QED BY <1>2, <1>3

LEMMA SealByHandInOrder == ASSUME ExperimentInv, SealByHand PROVE ExperimentInv'
<1>1. /\ regime' \in [coverage : Coverages, sealed : BOOLEAN] /\ regime'.coverage = regime.coverage
      /\ regime'.sealed /\ UNCHANGED <<population, attempt, pipeline>>
  BY DEF SealByHand, ExperimentInv, ExperimentTypes
<1>2. LaterJobs' = LaterJobs /\ Entries' = Entries /\ Recorded' = Recorded
  BY <1>1, JobsStay, SameAttempts
<1>3. ExperimentTypes'
  BY <1>1, <1>2 DEF ExperimentInv, ExperimentTypes, PipelineState
<1>4. \A p \in Pipelines : InOrder(p)'
  <2> SUFFICES ASSUME NEW p \in Pipelines PROVE InOrder(p)'
    OBVIOUS
  <2>1. InOrder(p)
    BY DEF ExperimentInv
  <2> QED BY <1>1, <1>2, <2>1, StaysInOrder
<1> QED BY <1>1, <1>2, <1>3, <1>4 DEF ExperimentInv

(* What a running pipeline holds open is its own; past the baselines it is *)
(* none of them.                                                           *)
LEMMA InnermostFacts ==
  ASSUME ExperimentInv, NEW p \in Pipelines,
         pipeline[p].pc # "stopped", pipeline[p].open # <<>>
  PROVE  /\ Innermost(p).by = p
         /\ pipeline[p].pc \in {"baselines", "later", "holdout"}
         /\ pipeline[p].pc = "baselines" =>
              pipeline[p].open = <<Innermost(p)>> /\ Innermost(p).kind = "BASELINE"
         /\ pipeline[p].pc # "baselines" => \A b \in Baselines : Innermost(p) # Entry(p, Baseline(b))
         /\ pipeline[p].pc = "holdout" => pipeline[p].open = <<Innermost(p)>>
<1>1. HoldsOpen(p)
  BY PipelineFacts DEF InOrder
<1>2. CASE pipeline[p].pc = "baselines" /\ \E b \in Baselines : pipeline[p].open = <<Entry(p, Baseline(b))>>
  BY <1>2 DEF Innermost, Entry, Baseline, Job
<1>3. CASE pipeline[p].pc = "later" /\ \E j \in LaterJobs : pipeline[p].open = <<Entry(p, j)>>
  BY <1>3, LaterIsLater, EntryFields DEF Innermost
<1>4. CASE pipeline[p].pc = "later" /\ pipeline[p].open = <<Entry(p, ConfluenceOn), Entry(p, Confluence)>>
  <2>1. Innermost(p) = Entry(p, ConfluenceOn)
    BY <1>4 DEF Innermost
  <2> QED BY <1>4, <2>1 DEF Entry, Baseline, ConfluenceOn, Job
<1>5. CASE pipeline[p].pc = "holdout" /\ pipeline[p].open = <<Entry(p, Holdout)>>
  BY <1>5 DEF Innermost, Entry, Baseline, Holdout, Job
<1> QED BY <1>1, <1>2, <1>3, <1>4, <1>5 DEF HoldsOpen

(* A row a pipeline holds open changes, nothing else does.                 *)
LEMMA WritesInnermost ==
  ASSUME ExperimentInv, NEW p \in Pipelines,
         pipeline[p].pc # "stopped", pipeline[p].open # <<>>,
         NEW row, row \in AttemptRow \/ Innermost(p) \notin Recorded,
         row.early = attempt[Innermost(p)].early,
         attempt' = [attempt EXCEPT ![Innermost(p)] = row]
  PROVE  /\ Recorded' = Recorded
         /\ attempt' \in [Recorded -> AttemptRow]
         /\ \A a \in Recorded : a # Innermost(p) => attempt'[a] = attempt[a]
         /\ \A a \in Recorded : a.by # p => attempt'[a] = attempt[a]
         /\ \A a \in Recorded : a.kind # "HOLDOUT" => attempt'[a].early
         /\ \A a : a # Innermost(p) /\ Measured(a) => Measured(a)'
         /\ Innermost(p) \in Recorded => attempt'[Innermost(p)] = row
<1>1. attempt \in [Recorded -> AttemptRow]
  BY DEF ExperimentInv, ExperimentTypes
<1>2. Recorded' = Recorded
  BY <1>1 DEF Recorded
<1>3. \A a \in Recorded : attempt'[a] = IF a = Innermost(p) THEN row ELSE attempt[a]
  BY <1>1
<1>4. attempt' \in [Recorded -> AttemptRow]
  BY <1>1, <1>3
<1>5. \A a \in Recorded : a.kind # "HOLDOUT" => attempt[a].early
  BY DEF ExperimentInv
<1> QED BY <1>2, <1>3, <1>4, <1>5, InnermostFacts DEF Measured

LEMMA RecordMetricInOrder ==
  ASSUME ExperimentInv, NEW p \in Pipelines, RecordMetric(p) PROVE ExperimentInv'
<1> DEFINE a0 == Innermost(p)
           row == [attempt[a0] EXCEPT !.metrics = @ + 1]
<1>1. /\ pipeline[p].pc # "stopped" /\ pipeline[p].open # <<>>
      /\ attempt[a0].metrics < Measures /\ UNCHANGED <<regime, population, pipeline>>
  BY DEF RecordMetric, Measuring
<1>2. attempt' = [attempt EXCEPT ![a0] = row]
  BY DEF RecordMetric
<1>3. a0 \in Recorded => attempt[a0] \in AttemptRow
  BY DEF ExperimentInv, ExperimentTypes
<1>4. a0 \in Recorded => row \in AttemptRow /\ row.early = attempt[a0].early /\ row.status = attempt[a0].status
  <2> SUFFICES ASSUME a0 \in Recorded
               PROVE  row \in AttemptRow /\ row.early = attempt[a0].early /\ row.status = attempt[a0].status
    OBVIOUS
  <2> DEFINE old == attempt[a0]
  <2>1. old \in AttemptRow /\ old.metrics < Measures /\ Measures \in Nat
    BY <1>1, <1>3, ExperimentAssumption
  <2>2. row = [old EXCEPT !.metrics = old.metrics + 1]
    OBVIOUS
  <2> HIDE DEF old, row
  <2>3. row \in AttemptRow /\ row.early = old.early /\ row.status = old.status
    BY <2>1, <2>2 DEF AttemptRow
  <2> QED BY <2>3 DEF old
<1>5. CASE a0 \notin Recorded
  <2>1. attempt' = attempt
    BY <1>2, <1>5 DEF ExperimentInv, ExperimentTypes, Recorded
  <2>2. pipeline[p] \in PipelineState /\ Moves(p, pipeline[p]) /\ InOrder(p)'
    BY <1>1, <2>1, PipelineFacts, StaysInOrder, JobsStay DEF Moves, ExperimentInv, ExperimentTypes
  <2> QED BY <1>1, <2>1, <2>2, OnlyPipelineMoves
<1>6. CASE a0 \in Recorded
  <2> HIDE DEF row
  <2>1. /\ Recorded' = Recorded /\ attempt' \in [Recorded -> AttemptRow]
        /\ \A a \in Recorded : a # a0 => attempt'[a] = attempt[a]
        /\ \A a \in Recorded : a.by # p => attempt'[a] = attempt[a]
        /\ \A a \in Recorded : a.kind # "HOLDOUT" => attempt'[a].early
        /\ \A a : a # a0 /\ Measured(a) => Measured(a)'
        /\ attempt'[a0] = row
    BY <1>1, <1>2, <1>4, <1>6, WritesInnermost
  <2>2. \A a \in Recorded : attempt'[a].status = attempt[a].status
    BY <1>4, <1>6, <2>1
  <2>3. LaterJobs' = LaterJobs /\ \A b \in Baselines : Entry(p, Baseline(b))' = Entry(p, Baseline(b))
    BY <1>1, JobsStay DEF Entry, Baseline, Job
  <2>4. HoldsOpen(p)'
    BY <1>1, <2>3, PipelineFacts DEF InOrder, HoldsOpen, Confluence, ConfluenceOn, Holdout, Baseline, Job
  <2>5. RunsOpen(p)'
    BY <1>1, <2>1, <2>2, PipelineFacts DEF InOrder, RunsOpen, IsOpen
  <2>6. ASSUME pipeline[p].pc = "baselines" PROVE InOrder(p)'
    <3>1. Developed(p)'
      <4> SUFFICES ASSUME NEW b \in Baselines, Entry(p, Baseline(b)) \in Recorded
                   PROVE  IsOpen(p, Entry(p, Baseline(b)))' \/ Measured(Entry(p, Baseline(b)))'
        BY <1>1, <2>1, <2>3, <2>6 DEF Developed
      <4>1. CASE Entry(p, Baseline(b)) = a0
        BY <1>1, <2>6, <4>1, InnermostFacts DEF IsOpen
      <4>2. CASE Entry(p, Baseline(b)) # a0
        BY <1>1, <2>1, <2>3, <2>6, <4>2, PipelineFacts DEF InOrder, Developed, IsOpen
      <4> QED BY <4>1, <4>2
    <3>2. Final(p)'
      <4>1. \A h \in Recorded : h.kind = "HOLDOUT" => h.by # p
        BY <2>6, PipelineFacts DEF InOrder, Final
      <4>2. Recorded' = Recorded
        BY <2>1
      <4> QED BY <4>1, <4>2 DEF Final
    <3> QED BY <3>1, <3>2, <2>4, <2>5 DEF InOrder
  <2>7. ASSUME pipeline[p].pc # "baselines" PROVE InOrder(p)'
    <3>1. \A b \in Baselines : Measured(Entry(p, Baseline(b))) => Measured(Entry(p, Baseline(b)))'
      BY <1>1, <2>1, <2>3, <2>7, InnermostFacts
    <3>2. pipeline[p].pc \in {"later", "holdout"}
      BY <1>1, <2>7, InnermostFacts
    <3>3. Developed(p)'
      BY <1>1, <3>1, <3>2, PipelineFacts DEF InOrder, Developed
    <3>4. Final(p)'
      <4> SUFFICES ASSUME NEW h \in Recorded, h.kind = "HOLDOUT", h.by = p
                   PROVE  /\ regime'.sealed
                          /\ pipeline'[p].pc = "holdout" /\ pipeline'[p].open = <<h>>
                          /\ \A b \in Baselines : Measured(Entry(p, Baseline(b)))'
                          /\ \A a \in Recorded : a.by = p /\ attempt'[a].status = "RUNNING" => a = h
        BY <2>1 DEF Final
      <4>1. /\ regime.sealed /\ pipeline[p].pc = "holdout" /\ pipeline[p].open = <<h>>
            /\ \A b \in Baselines : Measured(Entry(p, Baseline(b)))
            /\ \A a \in Recorded : a.by = p /\ attempt[a].status = "RUNNING" => a = h
        BY <1>1, PipelineFacts DEF InOrder, Final
      <4>2. regime' = regime /\ pipeline' = pipeline
        BY <1>1
      <4> QED BY <2>2, <3>1, <4>1, <4>2
    <3> QED BY <3>3, <3>4, <2>4, <2>5 DEF InOrder
  <2>8. /\ Recorded \subseteq Entries /\ regime \in [coverage : Coverages, sealed : BOOLEAN]
        /\ pipeline[p] \in PipelineState /\ Moves(p, pipeline[p])
        /\ \A a, h \in Recorded : a.kind = "HOLDOUT" /\ h.kind = "HOLDOUT" => a = h
    BY <1>1 DEF ExperimentInv, ExperimentTypes, Moves
  <2> QED BY <1>1, <2>1, <2>6, <2>7, <2>8, PipelineMoves
<1> QED BY <1>5, <1>6

LEMMA CloseJobInOrder ==
  ASSUME ExperimentInv, NEW p \in Pipelines, CloseJob(p) PROVE ExperimentInv'
<1> DEFINE a0 == Innermost(p)
           row == [attempt[a0] EXCEPT !.status = Verdict(p)]
           last == Len(pipeline[p].open) = 1 /\ (pipeline[p].failing \/ pipeline[p].pc = "holdout")
           r == [pipeline[p] EXCEPT !.open = Tail(pipeline[p].open),
                                    !.pc = IF last THEN "stopped" ELSE pipeline[p].pc]
<1>1. /\ pipeline[p].pc # "stopped" /\ pipeline[p].open # <<>> /\ Closable(p)
      /\ UNCHANGED <<regime, population>> /\ Moves(p, r)
      /\ attempt' = [attempt EXCEPT ![a0] = row]
  BY DEF CloseJob
<1>2. Verdict(p) \in {"COMPLETE", "FAILED", "INSUFFICIENT_DATA"}
  BY DEF Verdict
<1>3. a0 \in Recorded =>
        row \in AttemptRow /\ row.early = attempt[a0].early /\ row.status = Verdict(p)
        /\ row.metrics = attempt[a0].metrics
  <2> SUFFICES ASSUME a0 \in Recorded
               PROVE  row \in AttemptRow /\ row.early = attempt[a0].early /\ row.status = Verdict(p)
                      /\ row.metrics = attempt[a0].metrics
    OBVIOUS
  <2> DEFINE old == attempt[a0]
  <2>1. old \in AttemptRow
    BY DEF ExperimentInv, ExperimentTypes
  <2>2. row = [old EXCEPT !.status = Verdict(p)]
    OBVIOUS
  <2> HIDE DEF old, row
  <2>3. row \in AttemptRow /\ row.early = old.early /\ row.status = Verdict(p) /\ row.metrics = old.metrics
    BY <1>2, <2>1, <2>2 DEF AttemptRow
  <2> QED BY <2>3 DEF old
<1>4. /\ r \in PipelineState /\ r.open = Tail(pipeline[p].open)
      /\ r.pc = IF last THEN "stopped" ELSE pipeline[p].pc
  <2>1. pipeline[p] \in PipelineState
    BY PipelineFacts
  <2>2. Tail(pipeline[p].open) \in Seq(Entries)
    BY <1>1, <2>1 DEF PipelineState
  <2> QED BY <2>1, <2>2 DEF PipelineState, PipelineSteps
<1>5. pipeline'[p] = r
  BY <1>1, PipelineFacts
<1>6. /\ Recorded' = Recorded /\ attempt' \in [Recorded -> AttemptRow]
      /\ \A a \in Recorded : a # a0 => attempt'[a] = attempt[a]
      /\ \A a \in Recorded : a.by # p => attempt'[a] = attempt[a]
      /\ \A a \in Recorded : a.kind # "HOLDOUT" => attempt'[a].early
      /\ \A a : a # a0 /\ Measured(a) => Measured(a)'
      /\ a0 \in Recorded => attempt'[a0] = row
  <2>1. CASE a0 \in Recorded
    <3> HIDE DEF row
    <3> QED BY <1>1, <1>3, <2>1, WritesInnermost
  <2>2. CASE a0 \notin Recorded
    <3>1. attempt' = attempt
      BY <1>1, <2>2 DEF ExperimentInv, ExperimentTypes, Recorded
    <3> QED BY <2>2, <3>1, SameAttempts DEF ExperimentInv, ExperimentTypes
  <2> QED BY <2>1, <2>2
<1> HIDE DEF row, r
<1>7. \A a \in Recorded : attempt'[a].status = "RUNNING" => a # a0 /\ attempt[a].status = "RUNNING"
  BY <1>2, <1>3, <1>6
<1>8. LaterJobs' = LaterJobs /\ \A b \in Baselines : Entry(p, Baseline(b))' = Entry(p, Baseline(b))
  BY <1>1, JobsStay DEF Entry, Baseline, Job
<1>9. pipeline[p].open = <<a0>> \/
      (pipeline[p].pc = "later" /\ pipeline[p].open = <<Entry(p, ConfluenceOn), Entry(p, Confluence)>>)
  BY <1>1, PipelineFacts DEF InOrder, HoldsOpen, Innermost
<1>10. r.pc = "stopped" \/ r.open = <<>> \/ (r.pc = "later" /\ r.open = <<Entry(p, Confluence)>>)
  <2>1. CASE pipeline[p].open = <<a0>>
    BY <1>4, <2>1
  <2>2. CASE pipeline[p].pc = "later" /\ pipeline[p].open = <<Entry(p, ConfluenceOn), Entry(p, Confluence)>>
    <3>1. Len(pipeline[p].open) = 2 /\ Tail(pipeline[p].open) = <<Entry(p, Confluence)>>
      BY <2>2
    <3> QED BY <1>4, <2>2, <3>1
  <2> QED BY <1>9, <2>1, <2>2
<1>11. HoldsOpen(p)'
  <2>1. Confluence \in LaterJobs /\ Entry(p, Confluence)' = Entry(p, Confluence)
    BY DEF LaterJobs, Entry, Confluence, Job
  <2>2. \/ r.pc = "stopped" \/ r.open = <<>>
        \/ r.pc = "later" /\ \E j \in LaterJobs : r.open = <<Entry(p, j)>>
    BY <1>10, <2>1
  <2>3. \A j \in LaterJobs : Entry(p, j)' = Entry(p, j)
    BY DEF Entry
  <2> QED BY <1>5, <1>8, <2>2, <2>3 DEF HoldsOpen
<1>12. RunsOpen(p)'
  <2> SUFFICES ASSUME r.pc # "stopped", NEW a \in Recorded, a.by = p, attempt'[a].status = "RUNNING"
               PROVE  \E n \in 1 .. Len(r.open) : r.open[n] = a
    BY <1>5, <1>6 DEF RunsOpen, IsOpen
  <2>1. a # a0 /\ IsOpen(p, a)
    BY <1>1, <1>7, PipelineFacts DEF InOrder, RunsOpen
  <2>2. pipeline[p].open = <<Entry(p, ConfluenceOn), Entry(p, Confluence)>>
    BY <1>9, <2>1 DEF IsOpen
  <2>3. a0 = Entry(p, ConfluenceOn)
    BY <2>2 DEF Innermost
  <2>4. a = Entry(p, Confluence)
    BY <2>1, <2>2, <2>3 DEF IsOpen
  <2>5. r.open = <<Entry(p, Confluence)>>
    BY <1>4, <2>2
  <2> QED BY <2>4, <2>5
<1>13. ASSUME pipeline[p].pc = "baselines" PROVE Developed(p)' /\ Final(p)'
  <2>1. pipeline[p].open = <<a0>> /\ a0.kind = "BASELINE"
    BY <1>1, <1>13, InnermostFacts
  <2>2. CASE pipeline[p].failing
    <3>1. r.pc = "stopped"
      BY <1>4, <2>1, <2>2
    <3> QED
      <4>1. Developed(p)'
        BY <1>5, <3>1 DEF Developed
      <4>2. \A h \in Recorded : h.kind = "HOLDOUT" => h.by # p
        BY <1>13, PipelineFacts DEF InOrder, Final
      <4>3. Recorded' = Recorded
        BY <1>6
      <4> QED BY <4>1, <4>2, <4>3 DEF Final
  <2>3. CASE ~pipeline[p].failing
    <3>1. Verdict(p) = "COMPLETE" /\ attempt[a0].metrics = Measures
      BY <1>1, <2>1, <2>3 DEF Verdict, Closable, IsMeasured
    <3>2. r.pc = "baselines"
      <4>1. ~last
        BY <1>13, <2>3
      <4> QED BY <1>4, <1>13, <4>1
    <3>4. \A b \in Baselines : Entry(p, Baseline(b)) \in Recorded => Measured(Entry(p, Baseline(b)))'
      <4> SUFFICES ASSUME NEW b \in Baselines, Entry(p, Baseline(b)) \in Recorded
                   PROVE  Measured(Entry(p, Baseline(b)))'
        OBVIOUS
      <4>1. CASE Entry(p, Baseline(b)) = a0
        BY <1>6, <3>1, <1>3, <1>8, <4>1 DEF Measured
      <4>2. CASE Entry(p, Baseline(b)) # a0
        <5>1. Measured(Entry(p, Baseline(b)))
          BY <1>13, <2>1, <4>2, PipelineFacts DEF InOrder, Developed, IsOpen
        <5> QED BY <1>6, <1>8, <4>2, <5>1
      <4> QED BY <4>1, <4>2
    <3>5. Developed(p)'
      BY <1>5, <1>6, <1>8, <3>2, <3>4 DEF Developed
    <3>6. \A h \in Recorded : h.kind = "HOLDOUT" => h.by # p
      BY <1>13, PipelineFacts DEF InOrder, Final
    <3>7. Recorded' = Recorded
      BY <1>6
    <3> QED BY <3>5, <3>6, <3>7 DEF Final
  <2> QED BY <2>2, <2>3
<1>14. ASSUME pipeline[p].pc # "baselines" PROVE Developed(p)' /\ Final(p)'
  <2>1. pipeline[p].pc \in {"later", "holdout"}
        /\ \A b \in Baselines : a0 # Entry(p, Baseline(b))
    BY <1>1, <1>14, InnermostFacts
  <2>2. \A b \in Baselines : Measured(Entry(p, Baseline(b)))'
    <3>1. \A b \in Baselines : Measured(Entry(p, Baseline(b)))
      BY <2>1, PipelineFacts DEF InOrder, Developed
    <3> QED BY <1>6, <1>8, <2>1, <3>1
  <2>3. r.pc \in {"later", "holdout", "stopped"} /\ (r.pc = "holdout" => regime.sealed)
    BY <1>4, <2>1, PipelineFacts DEF InOrder, Developed
  <2>4. Developed(p)'
    BY <1>1, <1>5, <2>2, <2>3 DEF Developed
  <2>5. Final(p)'
    <3> SUFFICES ASSUME NEW h \in Recorded, h.kind = "HOLDOUT", h.by = p
                 PROVE  /\ regime'.sealed
                        /\ pipeline'[p].pc = "stopped"
                        /\ \A b \in Baselines : Measured(Entry(p, Baseline(b)))'
                        /\ \A a \in Recorded : a.by = p /\ attempt'[a].status = "RUNNING" => a = h
      BY <1>6 DEF Final
    <3>1. /\ regime.sealed /\ pipeline[p].pc = "holdout" /\ pipeline[p].open = <<h>>
          /\ \A a \in Recorded : a.by = p /\ attempt[a].status = "RUNNING" => a = h
      BY <1>1, PipelineFacts DEF InOrder, Final
    <3>2. r.pc = "stopped"
      BY <1>4, <3>1
    <3> QED BY <1>1, <1>5, <1>7, <2>2, <3>1, <3>2
  <2> QED BY <2>4, <2>5
<1>15. InOrder(p)'
  BY <1>11, <1>12, <1>13, <1>14 DEF InOrder
<1>16. /\ Recorded \subseteq Entries /\ regime \in [coverage : Coverages, sealed : BOOLEAN]
       /\ \A a, h \in Recorded : a.kind = "HOLDOUT" /\ h.kind = "HOLDOUT" => a = h
  BY DEF ExperimentInv, ExperimentTypes
<1> QED BY <1>1, <1>4, <1>6, <1>15, <1>16, PipelineMoves

(* An insert the database accepts, whatever it adds to what p holds open.  *)
LEMMA OpenedInOrder ==
  ASSUME ExperimentInv, NEW p \in Pipelines, NEW job \in Jobs, ~Refuses(job), Insert(Entry(p, job)),
         NEW r \in PipelineState, Moves(p, r), r.pc = pipeline[p].pc,
         UNCHANGED <<regime, population>>,
         pipeline[p].pc \in {"baselines", "later", "holdout"},
         \A a : IsOpen(p, a) \/ a = Entry(p, job) => \E n \in 1 .. Len(r.open) : r.open[n] = a,
         pipeline[p].pc = "baselines" => \E b \in Baselines : job = Baseline(b),
         pipeline[p].pc = "later" =>
           job.kind # "HOLDOUT" /\ \A b \in Baselines : Entry(p, job) # Entry(p, Baseline(b)),
         pipeline[p].pc = "holdout" =>
           job = Holdout /\ pipeline[p].open = <<>> /\ r.open = <<Entry(p, job)>>,
         HoldsOpen(p)'
  PROVE  ExperimentInv'
<1> DEFINE id == Entry(p, job)
           row == [status |-> "RUNNING", metrics |-> 0, early |-> ~regime.sealed]
<1>1. id \in Entries /\ id.by = p /\ id.kind = job.kind
  BY EntryFields DEF Entries
<1>2. row \in AttemptRow
  BY ExperimentAssumption DEF AttemptRow
<1>3. attempt \in [Recorded -> AttemptRow] /\ Recorded \subseteq Entries
      /\ regime \in [coverage : Coverages, sealed : BOOLEAN]
  BY DEF ExperimentInv, ExperimentTypes
<1>4. attempt' = [a \in Recorded \cup {id} |-> IF a = id THEN row ELSE attempt[a]]
  BY DEF Insert, NewRow
<1> HIDE DEF id, row
<1>5. /\ Recorded' = Recorded \cup {id}
      /\ attempt'[id] = row
      /\ \A a \in Recorded : a # id => attempt'[a] = attempt[a]
      /\ attempt' \in [Recorded \cup {id} -> AttemptRow]
  BY <1>2, <1>3, <1>4 DEF Recorded
<1>6. pipeline'[p] = r
  BY PipelineFacts
<1>7. \A b \in Baselines : Entry(p, Baseline(b))' = Entry(p, Baseline(b))
  BY DEF Entry, Baseline, Job
<1>8. \A a : a # id /\ Measured(a) => Measured(a)'
  BY <1>5 DEF Measured
<1>9. job.kind = "HOLDOUT" <=> pipeline[p].pc = "holdout"
  BY DEF Baseline, Holdout, Job
<1>10. RunsOpen(p)'
  <2> SUFFICES ASSUME NEW a \in Recorded \cup {id}, a.by = p, attempt'[a].status = "RUNNING"
               PROVE  \E n \in 1 .. Len(r.open) : r.open[n] = a
    BY <1>5, <1>6 DEF RunsOpen, IsOpen
  <2>1. CASE a = id
    BY <2>1 DEF id
  <2>2. CASE a # id
    BY <1>5, <2>2, PipelineFacts DEF InOrder, RunsOpen
  <2> QED BY <2>1, <2>2
<1>11. \A b \in Baselines : pipeline[p].pc \in {"later", "holdout"} =>
         Measured(Entry(p, Baseline(b))) /\ Measured(Entry(p, Baseline(b)))'
  <2> SUFFICES ASSUME NEW b \in Baselines, pipeline[p].pc \in {"later", "holdout"}
               PROVE  Measured(Entry(p, Baseline(b))) /\ Measured(Entry(p, Baseline(b)))'
    OBVIOUS
  <2>1. Measured(Entry(p, Baseline(b)))
    BY PipelineFacts DEF InOrder, Developed
  <2>2. id # Entry(p, Baseline(b))
    BY DEF id, Entry, Holdout, Baseline, Job
  <2> QED BY <1>7, <1>8, <2>1, <2>2
<1>12. Developed(p)'
  <2>1. ASSUME pipeline[p].pc = "baselines", NEW b \in Baselines, Entry(p, Baseline(b)) \in Recorded \cup {id}
        PROVE  IsOpen(p, Entry(p, Baseline(b)))' \/ Measured(Entry(p, Baseline(b)))'
    <3>1. CASE Entry(p, Baseline(b)) = id
      BY <1>6, <1>7, <3>1 DEF id, IsOpen
    <3>2. CASE Entry(p, Baseline(b)) # id
      <4>1. IsOpen(p, Entry(p, Baseline(b))) \/ Measured(Entry(p, Baseline(b)))
        BY <2>1, <3>2, PipelineFacts DEF InOrder, Developed
      <4>2. IsOpen(p, Entry(p, Baseline(b))) => IsOpen(p, Entry(p, Baseline(b)))'
        BY <1>6, <1>7 DEF IsOpen
      <4> QED BY <1>7, <1>8, <3>2, <4>1, <4>2
    <3> QED BY <3>1, <3>2
  <2>2. pipeline[p].pc = "holdout" => regime'.sealed
    BY PipelineFacts DEF InOrder, Developed
  <2>3. CASE r.pc = "baselines"
    BY <1>5, <1>6, <1>7, <2>1, <2>3 DEF Developed
  <2>4. CASE r.pc # "baselines"
    BY <1>6, <1>11, <2>2, <2>4 DEF Developed
  <2> QED BY <2>3, <2>4
<1>13. Final(p)'
  <2>1. \A h \in Recorded : h.kind = "HOLDOUT" => h.by # p
    <3>1. CASE pipeline[p].pc = "holdout"
      BY <1>9, <3>1 DEF Refuses, HoldoutRefuses, HoldoutSpent
    <3>2. CASE pipeline[p].pc # "holdout"
      BY <3>2, PipelineFacts DEF InOrder, Final
    <3> QED BY <3>1, <3>2
  <2>2. CASE job.kind # "HOLDOUT"
    <3>1. \A h \in Recorded \cup {id} : h.kind = "HOLDOUT" => h.by # p
      BY <1>1, <2>1, <2>2
    <3>2. Recorded' = Recorded \cup {id}
      BY <1>5
    <3> QED BY <3>1, <3>2 DEF Final
  <2>3. CASE job.kind = "HOLDOUT"
    <3>1. pipeline[p].pc = "holdout" /\ r.pc = "holdout" /\ r.open = <<id>> /\ pipeline[p].open = <<>>
      BY <1>9, <2>3 DEF id
    <3>2. \A a \in Recorded : a.by = p => attempt[a].status # "RUNNING"
      BY <3>1, PipelineFacts DEF InOrder, RunsOpen, IsOpen
    <3>3. \A a \in Recorded \cup {id} : a.by = p /\ attempt'[a].status = "RUNNING" => a = id
      BY <1>5, <3>2
    <3>4. regime'.sealed
      BY <3>1, PipelineFacts DEF InOrder, Developed
    <3>5. Recorded' = Recorded \cup {id}
      BY <1>5
    <3> SUFFICES ASSUME NEW h \in Recorded \cup {id}, h.kind = "HOLDOUT", h.by = p
                 PROVE  /\ regime'.sealed
                        /\ pipeline'[p].pc = "holdout" /\ pipeline'[p].open = <<h>>
                        /\ \A b \in Baselines : Measured(Entry(p, Baseline(b)))'
                        /\ \A a \in Recorded \cup {id} : a.by = p /\ attempt'[a].status = "RUNNING" => a = h
      BY <3>5 DEF Final
    <3>6. h = id
      BY <2>1
    <3> QED BY <1>6, <1>11, <3>1, <3>3, <3>4, <3>6
  <2> QED BY <2>2, <2>3
<1>14. \A a \in Recorded \cup {id} : a.kind # "HOLDOUT" => attempt'[a].early
  <2>1. job.kind # "HOLDOUT" => row.early
    BY <1>3 DEF row, Refuses, SealRefuses
  <2>2. \A a \in Recorded : a.kind # "HOLDOUT" => attempt[a].early
    BY DEF ExperimentInv
  <2> QED BY <1>1, <1>5, <2>1, <2>2
<1>15. \A a, h \in Recorded \cup {id} : a.kind = "HOLDOUT" /\ h.kind = "HOLDOUT" => a = h
  <2>1. job.kind = "HOLDOUT" => \A a \in Recorded : a.kind # "HOLDOUT"
    BY DEF Refuses, HoldoutRefuses, HoldoutSpent
  <2> QED BY <1>1, <2>1 DEF ExperimentInv
<1>16. \A a \in Recorded \cup {id} : a.by # p => a \in Recorded /\ attempt'[a] = attempt[a]
  BY <1>1, <1>5
<1>17. InOrder(p)'
  BY <1>10, <1>12, <1>13 DEF InOrder
<1>18. /\ regime' \in [coverage : Coverages, sealed : BOOLEAN] /\ regime' = regime /\ population' = population
       /\ Recorded \subseteq Recorded' /\ Recorded' \subseteq Entries /\ Recorded' = Recorded \cup {id}
       /\ attempt' \in [Recorded' -> AttemptRow]
  BY <1>1, <1>3, <1>5
<1> QED BY <1>14, <1>15, <1>16, <1>17, <1>18, PipelineMoves

LEMMA OpenJobInOrder ==
  ASSUME ExperimentInv, NEW p \in Pipelines, OpenJob(p) PROVE ExperimentInv'
<1>1. /\ pipeline[p].open = <<>> /\ UNCHANGED <<regime, population>>
      /\ pipeline[p].pc \in {"baselines", "later", "holdout"}
  BY DEF OpenJob
<1>2. pipeline[p] \in PipelineState /\ InOrder(p)
  BY PipelineFacts
<1>3. LaterJobs' = LaterJobs
  BY <1>1, JobsStay
<1>4. ASSUME NEW job \in Jobs, NEW base \in PipelineState, Opens(p, job, base),
             base.pc = pipeline[p].pc,
             base = pipeline[p] \/ \E rest : base = [pipeline[p] EXCEPT !.left = rest],
             pipeline[p].pc = "baselines" => \E b \in Baselines : job = Baseline(b),
             pipeline[p].pc = "later" => job \in LaterJobs,
             pipeline[p].pc = "holdout" => job = Holdout
      PROVE  ExperimentInv'
  <2>1. CASE Refuses(job)
    <3>1. Moves(p, Stops(base)) /\ attempt' = attempt
      BY <1>4, <2>1 DEF Opens
    <3>2. Stops(base) \in PipelineState /\ Stops(base).pc = "stopped"
      BY <1>4 DEF Stops, PipelineState, PipelineSteps
    <3>3. pipeline'[p].pc = "stopped"
      BY <3>1, <3>2, PipelineFacts
    <3>4. Final(p)'
      BY <1>1, <1>2, <3>1, <3>3, SameAttempts DEF InOrder, Final
    <3>5. InOrder(p)'
      BY <3>3, <3>4 DEF InOrder, HoldsOpen, RunsOpen, Developed
    <3> QED BY <1>1, <3>1, <3>2, <3>5, OnlyPipelineMoves
  <2>2. CASE ~Refuses(job)
    <3> DEFINE r == [base EXCEPT !.open = <<Entry(p, job)>>]
    <3>1. Insert(Entry(p, job)) /\ Moves(p, r)
      BY <1>4, <2>2 DEF Opens
    <3>2. <<Entry(p, job)>> \in Seq(Entries)
      BY DEF Entries
    <3>3. r \in PipelineState /\ r.pc = pipeline[p].pc /\ r.open = <<Entry(p, job)>>
      BY <1>4, <3>2 DEF PipelineState
    <3> HIDE DEF r
    <3>4. \A a : IsOpen(p, a) \/ a = Entry(p, job) => \E n \in 1 .. Len(r.open) : r.open[n] = a
      BY <1>1, <3>3 DEF IsOpen
    <3>5. pipeline'[p] = r
      BY <3>1, PipelineFacts
    <3>6. HoldsOpen(p)'
      <4>1. \A j : Entry(p, j)' = Entry(p, j)
        BY DEF Entry
      <4>2. \A b \in Baselines : Baseline(b)' = Baseline(b)
        BY DEF Baseline, Job
      <4>3. Holdout' = Holdout
        BY DEF Holdout, Job
      <4> QED BY <1>1, <1>3, <1>4, <3>3, <3>5, <4>1, <4>2, <4>3 DEF HoldsOpen
    <3>7. pipeline[p].pc = "later" =>
            job.kind # "HOLDOUT" /\ \A b \in Baselines : Entry(p, job) # Entry(p, Baseline(b))
      BY <1>4, LaterIsLater
    <3> QED BY <1>1, <1>4, <2>2, <3>1, <3>3, <3>4, <3>6, <3>7, OpenedInOrder
  <2> QED BY <2>1, <2>2
<1>5. CASE pipeline[p].pc = "baselines" /\ \E b \in BaselinesLeft(p) : Opens(p, Baseline(b), pipeline[p])
  <2>1. PICK b \in Baselines : Opens(p, Baseline(b), pipeline[p])
    BY <1>5 DEF BaselinesLeft
  <2>2. Baseline(b) \in Jobs
    BY DEF Jobs
  <2> QED BY <1>2, <1>4, <1>5, <2>1, <2>2
<1>6. CASE /\ pipeline[p].pc = "baselines" /\ BaselinesLeft(p) = {}
           /\ Moves(p, [pipeline[p] EXCEPT !.pc = "later"]) /\ UNCHANGED attempt
  <2> DEFINE r == [pipeline[p] EXCEPT !.pc = "later"]
  <2>1. r \in PipelineState /\ r.pc = "later" /\ r.open = <<>>
    BY <1>1, <1>2 DEF PipelineState, PipelineSteps
  <2>2. pipeline'[p] = r /\ Moves(p, r)
    BY <1>6, PipelineFacts
  <2> HIDE DEF r
  <2>3. \A b \in Baselines : Measured(Entry(p, Baseline(b)))
    BY <1>1, <1>2, <1>6 DEF InOrder, Developed, IsOpen, BaselinesLeft
  <2>4. HoldsOpen(p)'
    BY <2>1, <2>2 DEF HoldsOpen
  <2>5. RunsOpen(p)'
    BY <1>1, <1>2, <1>6, <2>1, <2>2, SameAttempts DEF InOrder, RunsOpen, IsOpen
  <2>6. Developed(p)'
    BY <1>6, <2>1, <2>2, <2>3, SameAttempts DEF Developed, Entry, Baseline, Job
  <2>7. Final(p)'
    <3>1. \A h \in Recorded : h.kind = "HOLDOUT" => h.by # p
      BY <1>2, <1>6 DEF InOrder, Final
    <3> QED BY <1>6, <3>1, SameAttempts DEF Final
  <2> QED BY <1>1, <1>6, <2>1, <2>2, <2>4, <2>5, <2>6, <2>7, OnlyPipelineMoves DEF InOrder
<1>7. CASE /\ pipeline[p].pc = "later" /\ pipeline[p].left # <<>>
           /\ Opens(p, Head(pipeline[p].left), [pipeline[p] EXCEPT !.left = Tail(pipeline[p].left)])
  <2>1. Head(pipeline[p].left) \in LaterJobs /\ Tail(pipeline[p].left) \in Seq(LaterJobs)
    BY <1>2, <1>7 DEF PipelineState
  <2>2. [pipeline[p] EXCEPT !.left = Tail(pipeline[p].left)] \in PipelineState
    BY <1>2, <2>1 DEF PipelineState
  <2>3. [pipeline[p] EXCEPT !.left = Tail(pipeline[p].left)].pc = pipeline[p].pc
    BY <1>2 DEF PipelineState
  <2>4. Head(pipeline[p].left) \in Jobs
    BY <2>1 DEF Jobs
  <2> QED BY <1>4, <1>7, <2>1, <2>2, <2>3, <2>4
<1>8. CASE pipeline[p].pc = "holdout" /\ Opens(p, Holdout, pipeline[p])
  <2>1. Holdout \in Jobs
    BY DEF Jobs
  <2> QED BY <1>2, <1>4, <1>8, <2>1
<1> QED BY <1>5, <1>6, <1>7, <1>8 DEF OpenJob

LEMMA OpenInnerInOrder ==
  ASSUME ExperimentInv, NEW p \in Pipelines, OpenInner(p) PROVE ExperimentInv'
<1>1. /\ pipeline[p].pc = "later" /\ pipeline[p].open = <<Entry(p, Confluence)>>
      /\ UNCHANGED <<regime, population>>
  BY DEF OpenInner
<1>2. pipeline[p] \in PipelineState /\ InOrder(p)
  BY PipelineFacts
<1>3. CASE Refuses(ConfluenceOn)
  <2> DEFINE r == [pipeline[p] EXCEPT !.failing = TRUE]
  <2>1. r \in PipelineState /\ r.pc = pipeline[p].pc /\ r.open = pipeline[p].open
    BY <1>2 DEF PipelineState
  <2>2. Moves(p, r) /\ attempt' = attempt
    BY <1>3 DEF OpenInner
  <2>3. pipeline'[p] = r
    BY <2>2, PipelineFacts
  <2> HIDE DEF r
  <2>4. InOrder(p)'
    BY <1>1, <1>2, <2>1, <2>2, <2>3, StaysInOrder, JobsStay
  <2> QED BY <1>1, <2>1, <2>2, <2>4, OnlyPipelineMoves
<1>4. CASE ~Refuses(ConfluenceOn)
  <2> DEFINE both == <<Entry(p, ConfluenceOn), Entry(p, Confluence)>>
             r == [pipeline[p] EXCEPT !.open = both]
  <2>1. Insert(Entry(p, ConfluenceOn)) /\ Moves(p, r)
    BY <1>4 DEF OpenInner
  <2>2. ConfluenceOn \in Jobs /\ Confluence \in Jobs
    BY DEF Jobs, LaterJobs
  <2>4. both \in Seq(Entries)
    BY <2>2 DEF Entries
  <2> HIDE DEF both
  <2>5. r \in PipelineState /\ r.pc = pipeline[p].pc /\ r.open = both
    BY <1>2, <2>4 DEF PipelineState
  <2> HIDE DEF r
  <2>6. \A a : IsOpen(p, a) \/ a = Entry(p, ConfluenceOn) => \E n \in 1 .. Len(r.open) : r.open[n] = a
    <3>1. Len(both) = 2 /\ both[1] = Entry(p, ConfluenceOn) /\ both[2] = Entry(p, Confluence)
      BY DEF both
    <3>2. \A a : IsOpen(p, a) => a = Entry(p, Confluence)
      BY <1>1 DEF IsOpen
    <3> QED BY <2>5, <3>1, <3>2
  <2>7. pipeline'[p] = r
    BY <2>1, PipelineFacts
  <2>8. HoldsOpen(p)'
    BY <1>1, <2>5, <2>7 DEF both, HoldsOpen, Entry, ConfluenceOn, Confluence, Job
  <2>9. /\ ConfluenceOn.kind # "HOLDOUT"
        /\ \A b \in Baselines : Entry(p, ConfluenceOn) # Entry(p, Baseline(b))
    BY DEF Entry, ConfluenceOn, Baseline, Job
  <2> QED BY <1>1, <1>4, <2>1, <2>2, <2>5, <2>6, <2>8, <2>9, OpenedInOrder
<1> QED BY <1>3, <1>4

LEMMA StepInOrder == ASSUME ExperimentInv, [ExperimentNext]_experimentVars PROVE ExperimentInv'
<1>1. CASE SealByHand
  BY <1>1, SealByHandInOrder
<1>2. ASSUME NEW p \in Pipelines, PipelineStep(p) PROVE ExperimentInv'
  <2>1. CASE PipelineDies(p)
    BY <2>1, StopInOrder DEF PipelineDies
  <2> QED
    BY <1>2, <2>1, StartPipelineInOrder, OpenJobInOrder, OpenInnerInOrder, RecordMetricInOrder,
       MeasurementRaisesInOrder, CloseJobInOrder, LoadRegimeInOrder, SealRegimeInOrder,
       CheckHoldoutInOrder
    DEF PipelineStep
<1>3. CASE UNCHANGED experimentVars
  <2>1. UNCHANGED <<regime, population, attempt, pipeline>>
    BY <1>3 DEF experimentVars
  <2>2. LaterJobs' = LaterJobs /\ Entries' = Entries /\ Recorded' = Recorded
    BY <2>1, JobsStay, SameAttempts
  <2>3. ExperimentTypes'
    BY <2>1, <2>2 DEF ExperimentInv, ExperimentTypes, PipelineState
  <2>4. \A p \in Pipelines : InOrder(p)'
    BY <2>1, <2>2, StaysInOrder DEF ExperimentInv
  <2> QED BY <2>1, <2>2, <2>3, <2>4 DEF ExperimentInv
<1> QED BY <1>1, <1>2, <1>3 DEF ExperimentNext

(* One holdout, of a sealed regime, after everything its pipeline measured *)
(* in development and before nothing (run_sealed_holdout and the triggers  *)
(* of validation_schema).                                                  *)
THEOREM OneFinalHoldout == ExperimentSpec => []HoldoutIsFinal
<1>1. ExperimentInv => HoldoutIsFinal
  <2> SUFFICES ASSUME ExperimentInv PROVE HoldoutIsFinal
    OBVIOUS
  <2>1. ASSUME NEW h \in Recorded, h.kind = "HOLDOUT"
        PROVE  /\ regime.sealed
               /\ \A b \in Baselines : Measured(Entry(h.by, Baseline(b)))
               /\ \A a \in Recorded : a.by = h.by /\ attempt[a].status = "RUNNING" => a = h
    <3>1. h.by \in Pipelines
      BY EntryFields DEF ExperimentInv, ExperimentTypes, Entries
    <3> QED BY <2>1, <3>1 DEF ExperimentInv, InOrder, Final
  <2> QED BY <2>1 DEF HoldoutIsFinal, Measured, ExperimentInv
<1> QED BY <1>1, InitInOrder, StepInOrder, PTL DEF ExperimentSpec
=============================================================================
