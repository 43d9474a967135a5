----------------------------- MODULE Experiments ----------------------------
(***************************************************************************)
(* The validation engine's ledger of experiments over one evaluation       *)
(* regime (tradehub_research/validation): pipelines measure the baselines, *)
(* the ablations and the walk-forward folds, seal the regime and measure   *)
(* the final variant once on the holdout window.  Pipelines may overlap    *)
(* and die, and the CLI seals a regime by hand.  What a variant scores is  *)
(* left out; that its measurement may raise is not.  A pipeline screens    *)
(* every family of hunters, so removing one always removes something.      *)
(***************************************************************************)
EXTENDS Integers, FiniteSets, Sequences

CONSTANTS
  Pipelines,     \* runs of the pipeline on the regime
  Baselines,     \* ALL_BASELINES
  FinalVariant,  \* the variant declared for the holdout
  Removals,      \* HUNTER_FAMILIES, in order
  Gates,         \* the ablations that need committee telemetry, in order
  Walks,         \* the pairs of variant and co-primary horizon, in order
  Measures,      \* the number of horizons a variant is measured at
  Coverages      \* the days of coverage a regime may be drafted for

ASSUME ExperimentAssumption ==
  /\ FinalVariant \in Baselines
  /\ Removals \in Seq(STRING) /\ Gates \in Seq(STRING) /\ Walks \in Seq(Seq(STRING))
  /\ Measures \in Nat /\ Coverages \subseteq Nat

VARIABLES
  regime,      \* evaluation_regime: its coverage, and whether it is sealed
  population,  \* what the replay screened: nobody, somebody, somebody in the holdout window
  attempt,     \* experiment_attempt with the metrics of each: id -> row
  pipeline     \* each pipeline: pc, the jobs left, the attempts it holds open, failing

experimentVars == <<regime, population, attempt, pipeline>>

-----------------------------------------------------------------------------
(* draft_evaluation_regime, in days from the start of the coverage: the    *)
(* last label matures a horizon of 252 sessions before the end, the last   *)
(* fifth before that is the holdout, and no window is shorter than 90 days.*)

Shortest == 90
HoldoutEnd(coverage) == coverage - 365
HoldoutDays(coverage) ==
  LET fifth == (HoldoutEnd(coverage) + 2) \div 5 IN IF fifth < Shortest THEN Shortest ELSE fifth
HoldoutStart(coverage) == HoldoutEnd(coverage) - HoldoutDays(coverage)

Drafted(coverage) ==
  /\ HoldoutEnd(coverage) > 0
  /\ HoldoutDays(coverage) <= HoldoutEnd(coverage) /\ HoldoutStart(coverage) >= Shortest

(* walk_forward_folds: half-years, the last one cut at the end.            *)
Folds == (regime.coverage + 181) \div 182

-----------------------------------------------------------------------------
(* The jobs of a pipeline.  A job is recorded as an attempt of its kind;   *)
(* fold 0 is a null fold_id.                                               *)

Job(kind, name, fold) == [kind |-> kind, name |-> name, fold |-> fold]

Baseline(b) == Job("BASELINE", <<"baseline", b>>, 0)
Holdout == Job("HOLDOUT", <<"holdout", FinalVariant>>, 0)

(* Without screens a removal removes nothing and is not measured.          *)
Removal(i) ==
  Job(IF population = "nobody" THEN "ABLATION" ELSE "BASELINE", <<"remove", Removals[i]>>, 0)

(* The comparison, and the measurement of its ON side inside it.           *)
Confluence == Job("ABLATION", <<"confluence", "on_vs_off">>, 0)
ConfluenceOn == Job("BASELINE", <<"confluence", "on">>, 0)

Gate(i) == Job("ABLATION", <<"gate", Gates[i]>>, 0)

(* The label of an observation carries its time of day and the screen only *)
(* its date, so no fold finds a matured development screen and each is     *)
(* recorded as INSUFFICIENT_DATA.                                          *)
Fold(j) ==
  Job("WALKFORWARD_FOLD", <<"fold">> \o Walks[((j - 1) \div Folds) + 1], ((j - 1) % Folds) + 1)

AfterBaselines ==
  [i \in 1 .. Len(Removals) |-> Removal(i)] \o <<Confluence>>
    \o [i \in 1 .. Len(Gates) |-> Gate(i)] \o [j \in 1 .. Len(Walks) * Folds |-> Fold(j)]

(* What evaluate_baseline measures, and run_sealed_holdout with enough     *)
(* screens in the window.                                                  *)
IsMeasured(a) == a.kind = "BASELINE" \/ (a.kind = "HOLDOUT" /\ population = "in window")

-----------------------------------------------------------------------------
(* start_attempt, complete_attempt, record_metric.                         *)

Entry(p, job) == [by |-> p, kind |-> job.kind, name |-> job.name, fold |-> job.fold]
Recorded == DOMAIN attempt
HoldoutSpent == \E a \in Recorded : a.kind = "HOLDOUT"

(* What the database refuses: another attempt after the seal, a second     *)
(* holdout, a second row of one fold.  Null folds are all distinct.        *)
\* A schema without the guard of the seal.
SealRefusesNone(job) == FALSE

SealRefuses(job) == job.kind # "HOLDOUT" /\ regime.sealed
HoldoutRefuses(job) == job.kind = "HOLDOUT" /\ HoldoutSpent
FoldRefuses(job) ==
  job.fold # 0 /\ \E a \in Recorded : a.kind = job.kind /\ a.name = job.name /\ a.fold = job.fold
Refuses(job) == SealRefuses(job) \/ HoldoutRefuses(job) \/ FoldRefuses(job)

(* Whether a row was inserted before the seal is kept as "early".          *)
NewRow == [status |-> "RUNNING", metrics |-> 0, early |-> ~regime.sealed]
Insert(id) ==
  attempt' = [a \in Recorded \cup {id} |-> IF a = id THEN NewRow ELSE attempt[a]]

Innermost(p) == Head(pipeline[p].open)   \* the innermost attempt p holds open
Stops(r) == [r EXCEPT !.pc = "stopped"]
Moves(p, r) == pipeline' = [pipeline EXCEPT ![p] = r]

(* A job is opened, or the error of its insert ends the pipeline.          *)
Opens(p, job, r) ==
  IF Refuses(job) THEN Moves(p, Stops(r)) /\ UNCHANGED attempt
  ELSE Insert(Entry(p, job)) /\ Moves(p, [r EXCEPT !.open = <<Entry(p, job)>>])

-----------------------------------------------------------------------------
NewRegime(coverage) == [coverage |-> coverage, sealed |-> FALSE]

ExperimentInit ==
  /\ regime \in {NewRegime(c) : c \in Coverages} /\ Drafted(regime.coverage)
  /\ population \in {"nobody", "somebody", "in window"}
  /\ attempt = [a \in {} |-> a]
  /\ pipeline = [p \in Pipelines |-> [pc |-> "idle", left |-> <<>>, open |-> <<>>, failing |-> FALSE]]

(* run_pipeline loads the regime, replays the grid and builds the labels.  *)
StartPipeline(p) ==
  /\ pipeline[p].pc = "idle"
  /\ Moves(p, [pipeline[p] EXCEPT !.pc = "baselines", !.left = AfterBaselines])
  /\ UNCHANGED <<regime, population, attempt>>

(* The next job; the baselines are a set, in no particular order.          *)
BaselinesLeft(p) == {b \in Baselines : Entry(p, Baseline(b)) \notin Recorded}

OpenJob(p) ==
  LET r == pipeline[p]
  IN  /\ r.open = <<>> /\ ~r.failing
      /\ \/ r.pc = "baselines" /\ \E b \in BaselinesLeft(p) : Opens(p, Baseline(b), r)
         \/ /\ r.pc = "baselines" /\ BaselinesLeft(p) = {}
            /\ Moves(p, [r EXCEPT !.pc = "later"]) /\ UNCHANGED attempt
         \/ /\ r.pc = "later" /\ r.left # <<>>
            /\ Opens(p, Head(r.left), [r EXCEPT !.left = Tail(r.left)])
         \/ r.pc = "holdout" /\ Opens(p, Holdout, r)
      /\ UNCHANGED <<regime, population>>

(* Inside its attempt the comparison measures the ON side.                 *)
OpenInner(p) ==
  /\ pipeline[p].pc = "later" /\ ~pipeline[p].failing
  /\ pipeline[p].open = <<Entry(p, Confluence)>> /\ Entry(p, ConfluenceOn) \notin Recorded
  /\ IF Refuses(ConfluenceOn)
     THEN Moves(p, [pipeline[p] EXCEPT !.failing = TRUE]) /\ UNCHANGED attempt
     ELSE /\ Insert(Entry(p, ConfluenceOn))
          /\ Moves(p, [pipeline[p] EXCEPT !.open = <<Entry(p, ConfluenceOn), Entry(p, Confluence)>>])
  /\ UNCHANGED <<regime, population>>

Measuring(p) ==
  LET r == pipeline[p]
  IN  r.pc # "stopped" /\ r.open # <<>> /\ ~r.failing /\ IsMeasured(Innermost(p))

(* One horizon is computed and its metric recorded, or that raises.        *)
RecordMetric(p) ==
  /\ Measuring(p) /\ attempt[Innermost(p)].metrics < Measures
  /\ attempt' = [attempt EXCEPT ![Innermost(p)].metrics = @ + 1]
  /\ UNCHANGED <<regime, population, pipeline>>

MeasurementRaises(p) ==
  /\ Measuring(p) /\ Moves(p, [pipeline[p] EXCEPT !.failing = TRUE])
  /\ UNCHANGED <<regime, population, attempt>>

(* The status a pipeline gives the attempt it closes.                      *)
Verdict(p) ==
  IF pipeline[p].failing THEN "FAILED"
  ELSE IF IsMeasured(Innermost(p)) \/ Innermost(p) = Entry(p, Confluence) THEN "COMPLETE"
  ELSE "INSUFFICIENT_DATA"

Closable(p) ==
  \/ pipeline[p].failing
  \/ IsMeasured(Innermost(p)) /\ attempt[Innermost(p)].metrics = Measures
  \/ ~IsMeasured(Innermost(p)) /\ (Innermost(p) = Entry(p, Confluence) => Entry(p, ConfluenceOn) \in Recorded)

CloseJob(p) ==
  LET r == pipeline[p]
      last == Len(r.open) = 1 /\ (r.failing \/ r.pc = "holdout")
  IN  /\ r.pc # "stopped" /\ r.open # <<>> /\ Closable(p)
      /\ attempt' = [attempt EXCEPT ![Innermost(p)].status = Verdict(p)]
      /\ Moves(p, [r EXCEPT !.open = Tail(r.open), !.pc = IF last THEN "stopped" ELSE r.pc])
      /\ UNCHANGED <<regime, population>>

(* run_sealed_holdout: the regime is loaded, sealed unless it is, and      *)
(* searched for a holdout, each in a transaction of its own.               *)
LoadRegime(p) ==
  LET r == pipeline[p]
  IN  /\ r.pc = "later" /\ r.open = <<>> /\ ~r.failing /\ r.left = <<>>
      /\ Moves(p, [r EXCEPT !.pc = IF regime.sealed THEN "check" ELSE "seal"])
      /\ UNCHANGED <<regime, population, attempt>>

SealRegime(p) ==
  /\ pipeline[p].pc = "seal"
  /\ Moves(p, IF regime.sealed THEN Stops(pipeline[p]) ELSE [pipeline[p] EXCEPT !.pc = "check"])
  /\ regime' = [regime EXCEPT !.sealed = TRUE]
  /\ UNCHANGED <<population, attempt>>

CheckHoldout(p) ==
  /\ pipeline[p].pc = "check"
  /\ Moves(p, IF HoldoutSpent THEN Stops(pipeline[p]) ELSE [pipeline[p] EXCEPT !.pc = "holdout"])
  /\ UNCHANGED <<regime, population, attempt>>

PipelineDies(p) ==
  /\ pipeline[p].pc \notin {"idle", "stopped"} /\ Moves(p, Stops(pipeline[p]))
  /\ UNCHANGED <<regime, population, attempt>>

SealByHand ==
  /\ ~regime.sealed /\ regime' = [regime EXCEPT !.sealed = TRUE]
  /\ UNCHANGED <<population, attempt, pipeline>>

PipelineStep(p) ==
  \/ StartPipeline(p) \/ OpenJob(p) \/ OpenInner(p) \/ RecordMetric(p) \/ MeasurementRaises(p)
  \/ CloseJob(p) \/ LoadRegime(p) \/ SealRegime(p) \/ CheckHoldout(p) \/ PipelineDies(p)

ExperimentNext == SealByHand \/ \E p \in Pipelines : PipelineStep(p)
ExperimentSpec == ExperimentInit /\ [][ExperimentNext]_experimentVars

-----------------------------------------------------------------------------
(* The holdout is the last word on its regime: there is one, of a sealed   *)
(* regime; the pipeline that measured it had measured the same variant and *)
(* every baseline at every horizon in development, and left no development *)
(* attempt open; and no other attempt of any pipeline began after the seal.*)
HoldoutIsFinal ==
  /\ \A h \in Recorded : h.kind = "HOLDOUT" =>
       /\ regime.sealed
       /\ \A a \in Recorded : a.kind = "HOLDOUT" => a = h
       /\ \A b \in Baselines :
            /\ Entry(h.by, Baseline(b)) \in Recorded
            /\ attempt[Entry(h.by, Baseline(b))].status = "COMPLETE"
            /\ attempt[Entry(h.by, Baseline(b))].metrics = Measures
       /\ \A a \in Recorded : a.by = h.by /\ attempt[a].status = "RUNNING" => a = h
  /\ \A a \in Recorded : a.kind # "HOLDOUT" => attempt[a].early
=============================================================================
