--------------------------- MODULE EvidenceLedger ---------------------------
(***************************************************************************)
(* The append-only evidence ledger of one security: EvidenceStore and its  *)
(* table's constraints, the adapters' ingestion of a batch, and the three  *)
(* readers that resolve a correction chain "as of" a moment: the store's   *)
(* own historical view (a recursive query), the portfolio and outcome      *)
(* plane (a walk in Python) and the screening loaders (the recursive query *)
(* restricted to one record type).                                         *)
(*                                                                         *)
(* Rows are numbered by insertion.  Moments are integers, two a day: the   *)
(* odd one before the publication boundary, the even one after it.  0      *)
(* stands for a missing moment, row or price.                              *)
(***************************************************************************)
EXTENDS Integers, Sequences, FiniteSets, FiniteSetsExt

CONSTANTS
  Batches,     \* the batches of parsed records an adapter may hand over
  LastMoment   \* bound: the last moment a run of the model reaches

(* The records of all batches.                                              *)
Records == UNION {{b[k] : k \in DOMAIN b} : b \in Batches}

ASSUME LedgerAssumption ==
  /\ Batches \subseteq Seq(Records) /\ LastMoment \in Nat \ {0}
  /\ \A r \in Records : r.pat \in Nat

VARIABLES
  events,   \* the rows of evidence_event, in insertion order
  batch,    \* the records the running ingestion still has to insert
  now       \* the wall clock

ledgerVars == <<events, batch, now>>

Approved == {"source_reported", "derived_from_index"}

(* The body of a withdrawal: CHECK (withdrawn = 0 OR structured_fields = '{}'). *)
Empty == [type |-> "none"]

Ids == DOMAIN events

Successors(i) == {j \in Ids : events[j].sup = i}

-----------------------------------------------------------------------------
(* EvidenceStore.historical.                                                *)

Visible(i, t) == events[i].pat # 0 /\ events[i].pat <= t

Corrections == {i \in Ids : events[i].sup # 0}

(* The rows that a row leads back to, over the corrections in links.        *)
Path(links) ==
  LET path[i \in Ids] == {i} \cup (IF i \in links THEN path[events[i].sup] ELSE {}) IN path

Reached(root, path) == {i \in Ids : root \in path[i]}

(* The recursive query of one record class: which rows may be chain members *)
(* is a parameter, because the screening loaders restrict it.               *)
Anchors(t, members) ==
  {i \in members : Visible(i, t) /\ ~(i \in Corrections /\ Visible(events[i].sup, t))}

Ends(chain) == {i \in chain : Successors(i) \cap chain = {}}

Terminals(t, members) ==
  LET path == Path({i \in Corrections \cap members : Visible(i, t)})
  IN  UNION {Ends(Reached(root, path)) : root \in Anchors(t, members)}

Sound(i) == events[i].prov \in Approved /\ ~events[i].wd

Historical(t) == {i \in Terminals(t, Ids) : Sound(i)}

(* EvidenceStore.current: live rows nothing supersedes, whatever their provenance. *)
Current == {i \in Ids : ~events[i].wd /\ Successors(i) = {}}

(* screening._load_facts and _load_record_kind: the members of a chain are  *)
(* rows of the record type only.                                            *)
Screened(t, kind) ==
  LET members == {i \in Ids : events[i].body.type = kind}
  IN  {i \in Terminals(t, members) \cap members : Sound(i)}

(* portfolio.prices._visible_records: from each root follow the only        *)
(* successor to the end; the last visible member is the answer.             *)
Line(root) == Reached(root, Path(Corrections))

(* Mutant: withdrawn rows are dropped before the last visible row is taken. *)
ResolvedSound(root, t) ==
  LET seen == {i \in Line(root) : Visible(i, t) /\ Sound(i)} IN IF seen = {} THEN {} ELSE {Max(seen)}

Resolved(root, t) ==
  LET line == Line(root)
      seen == {i \in line : Visible(i, t)}
  IN  IF (\E i \in line : Cardinality(Successors(i)) > 1) \/ seen = {} THEN {} ELSE {Max(seen)}

VisibleRecords(t) ==
  UNION {{i \in Resolved(root, t) : Sound(i)} : root \in Ids \ Corrections}

-----------------------------------------------------------------------------
(* EvidenceStore.insert, as adapters.base.ingest_records calls it.          *)

(* The row of a record: its predecessor is looked up by source record id.   *)
Held(key) == {i \in Ids : events[i].key = key}

Row(r) ==
  [key |-> r.key, body |-> r.body, wd |-> r.wd, pat |-> r.pat, prov |-> r.prov,
   sup |-> IF r.sup = "none" THEN 0 ELSE CHOOSE i \in Held(r.sup) : TRUE]

PredecessorKnown(r) == r.sup # "none" => Held(r.sup) # {}

(* No successor is published before its predecessor.                        *)
NotBackdated(row) ==
  row.sup # 0 => (events[row.sup].pat # 0 => row.pat >= events[row.sup].pat)

Wellformed(row) ==
  /\ row.pat <= now
  /\ row.pat = 0 => row.prov \in {"unknown", "observed_at_ingest"}
  /\ row.wd => row.body = Empty

(* evidence_single_successor_uq: one correction of a row, ever.              *)
SingleSuccessor(row) == row.sup # 0 => Successors(row.sup) = {}

Insertable(row) == NotBackdated(row) /\ Wellformed(row) /\ SingleSuccessor(row)

(* A new source record is appended.                                         *)
IngestNew ==
  /\ batch # <<>> /\ PredecessorKnown(Head(batch))
  /\ Held(Head(batch).key) = {} /\ Insertable(Row(Head(batch)))
  /\ events' = Append(events, Row(Head(batch)))
  /\ batch' = Tail(batch)
  /\ UNCHANGED now

(* A retry of a stored record finds the same observation and moves on.      *)
IngestAgain ==
  /\ batch # <<>> /\ PredecessorKnown(Head(batch))
  /\ Row(Head(batch)).pat <= now /\ NotBackdated(Row(Head(batch)))
  /\ \E i \in Held(Head(batch).key) : events[i] = Row(Head(batch))
  /\ batch' = Tail(batch)
  /\ UNCHANGED <<events, now>>

(* Anything else raises: what the batch committed so far stays.  The same   *)
(* happens when the process dies between two records.                       *)
IngestStops ==
  /\ batch # <<>>
  /\ batch' = <<>>
  /\ UNCHANGED <<events, now>>

StartBatch(b) ==
  /\ batch = <<>>
  /\ batch' = b
  /\ UNCHANGED <<events, now>>

Tick ==
  /\ now < LastMoment
  /\ now' = now + 1
  /\ UNCHANGED <<events, batch>>

LedgerInit == events = <<>> /\ batch = <<>> /\ now = 1

Ingest == IngestNew \/ IngestAgain \/ IngestStops

LedgerNext == Ingest \/ Tick \/ \E b \in Batches : StartBatch(b)

LedgerSpec == LedgerInit /\ [][LedgerNext]_ledgerVars

-----------------------------------------------------------------------------
(* The portfolio plane says it mirrors EvidenceStore.historical             *)
(* (portfolio/prices.py:9): a graph walk and a recursive query, written     *)
(* apart, answer alike at every moment, whatever corrections, withdrawals,  *)
(* late rows and rows of unknown publication came in whatever order.        *)
ReadersAgree == \A t \in 1..LastMoment : VisibleRecords(t) = Historical(t)

(* docs/v2-architecture.md:212: a withdrawn row supersedes the content it   *)
(* retracts, or a score would be held up "on evidence that no longer        *)
(* exists".  So no reader shows a screen a row whose visible successor      *)
(* withdrew it.                                                             *)
WithdrawnIsUnseen ==
  \A t \in 1..LastMoment, kind \in {"price_bar", "split"} :
    \A i \in Screened(t, kind) : \A j \in Successors(i) : ~(Visible(j, t) /\ events[j].wd)
=============================================================================
