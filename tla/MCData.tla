------------------------------- MODULE MCData --------------------------------
(***************************************************************************)
(* Daily data and the records built on it, for TLC.  A behaviour chooses   *)
(* one part and the others rest in their initial states: "watch", passes   *)
(* of the freshness watch, killed anywhere, over overlapping refreshes     *)
(* (Freshness); "evidence", ingestion of corrected, backdated and          *)
(* withdrawn records (EvidenceLedger); "forward", capture and maturation   *)
(* of predictions (ForwardLedger); "calendar", year after year             *)
(* (MarketCalendar).                                                       *)
(***************************************************************************)
EXTENDS MCFreshness, ForwardLedger

INSTANCE MCRecords

CONSTANTS
  EvidenceBatches,     \* the batches of the part "evidence"
  EvidenceEnd,         \* bound: its last moment
  FirstYear, LastYear  \* MarketCalendar

VARIABLES part, year

dataVars == <<part, vars, forwardVars, year>>

Calendar == INSTANCE MarketCalendar

DataInit ==
  /\ part \in {"watch", "evidence", "forward", "calendar"}
  /\ MCInit /\ ForwardInit /\ Calendar!CalendarInit
  /\ part # "watch" => retired = {}

WatchMoves ==
  part = "watch" /\ Next /\ UNCHANGED <<part, forwardVars, year>>
EvidenceMoves ==
  /\ part = "evidence"
  /\ Ingest \/ (now < EvidenceEnd /\ Tick) \/ \E b \in EvidenceBatches : StartBatch(b)
  /\ UNCHANGED <<part, vars, recorded, capturing, outcome, run, delisted, year>>
ForwardMoves ==
  part = "forward" /\ ForwardNext /\ UNCHANGED <<part, vars, year>>
CalendarMoves ==
  part = "calendar" /\ Calendar!NextYear /\ UNCHANGED <<part, vars, forwardVars>>

DataSpec ==
  DataInit /\ [][WatchMoves \/ EvidenceMoves \/ ForwardMoves \/ CalendarMoves]_dataVars

Interchangeable == Symmetry \cup Permutations(Runs)

\* The session calendar is regular (MarketCalendar.tla).
CalendarHolds == part = "calendar" => Calendar!CalendarHolds
=============================================================================
