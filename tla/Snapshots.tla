------------------------------ MODULE Snapshots -----------------------------
(***************************************************************************)
(* Snapshots of the research database (tradehub_research/snapshot.py): a   *)
(* copy is made in a temporary file, synced, moved to its destination and  *)
(* registered READY in the live database, and a later call recovers what   *)
(* an earlier one left PENDING.  build_validation_snapshot makes them, each*)
(* at a destination of its own, and records them for the validation.       *)
(* Calls overlap and die, and the power may fail.  A content stands for    *)
(* its hash; the registrations inside the copied content are left out.     *)
(***************************************************************************)
EXTENDS Naturals, FiniteSets

CONSTANTS
  Calls,       \* calls of build_validation_snapshot, and the ids they draw
  Nobody,      \* no call
  WriteLimit   \* bounds the writes to the live database

ASSUME SnapshotAssumption == Nobody \notin Calls /\ WriteLimit \in Nat

VARIABLES
  content,     \* what the live database holds, as the number of writes to it
  version,     \* snapshot_version: call -> its row
  placed,      \* the file at each destination
  call,        \* each call: pc, its temporary file, and what it recovers
  writer,      \* who is inside a write transaction of several statements
  frozen,      \* dataset_snapshot
  overlapped,  \* history: two calls were active at once
  lost         \* history: registered files whose names a power failure took

snapshotVars == <<content, version, placed, call, writer, frozen, overlapped, lost>>

-----------------------------------------------------------------------------
NoRow == [status |-> "none", content |-> 0, by |-> Nobody]

(* A file: the manifest in it (whose copy of what), whether its data is    *)
(* as it was written, and whether data and name have reached the disk.     *)
NoFile == [is |-> "absent", id |-> Nobody, content |-> 0, synced |-> FALSE, named |-> FALSE]
Copy(c) == [is |-> "whole", id |-> c, content |-> content, synced |-> FALSE, named |-> FALSE]

(* What _recover_pending and the readers verify: identity and hash.        *)
IsCopyOf(f, c) == f.is = "whole" /\ f.id = c

NoCall == [pc |-> "idle", copy |-> NoFile, pending |-> {}, looked |-> Nobody, found |-> FALSE,
         deletes |-> {}, readies |-> {}]

At(c, pc) == call[c].pc = pc
Active(c) == call[c].pc \notin {"idle", "done", "stopped"}
Goes(c, r) == call' = [call EXCEPT ![c] = r]
GoesTo(c, pc) == Goes(c, [call[c] EXCEPT !.pc = pc])

(* open_snapshot_read_only and SnapshotHandle.connection, of the file at   *)
(* the destination of c.                                                   *)
Readable(c) == IsCopyOf(placed[c], c) /\ version[c].status = "READY"

-----------------------------------------------------------------------------
SnapshotInit ==
  /\ content = 0
  /\ version = [c \in Calls |-> NoRow]
  /\ placed = [c \in Calls |-> NoFile]
  /\ call = [c \in Calls |-> NoCall]
  /\ writer = Nobody /\ frozen = {} /\ overlapped = FALSE /\ lost = {}

(* Somebody else writes to the research database.                          *)
LiveWrite ==
  /\ content < WriteLimit /\ writer = Nobody
  /\ content' = content + 1
  /\ UNCHANGED <<version, placed, call, writer, frozen, overlapped, lost>>

(* The destination is free; _recover_pending begins with what is PENDING.  *)
BeginSnapshot(c) ==
  /\ At(c, "idle") /\ placed[c] = NoFile
  /\ Goes(c, [call[c] EXCEPT !.pc = "recover",
                             !.pending = {x \in Calls : version[x].status = "PENDING"}])
  /\ overlapped' = (overlapped \/ \E x \in Calls \ {c} : Active(x))
  /\ UNCHANGED <<content, version, placed, writer, frozen, lost>>

(* It looks for the file of one of them, and leaves a damaged one as it is; *)
LookForFile(c) ==
  /\ At(c, "recover") /\ call[c].looked = Nobody
  /\ \E x \in call[c].pending :
       Goes(c, [call[c] EXCEPT
                  !.pending = @ \ {x},
                  !.looked = IF placed[x].is # "absent" /\ ~IsCopyOf(placed[x], x) THEN @ ELSE x,
                  !.found = placed[x].is # "absent"])
  /\ UNCHANGED <<content, version, placed, writer, frozen, overlapped, lost>>

(* the other rows it settles, in a transaction that the first statement    *)
(* begins and that ends after the last row.  Only then do others see it.   *)
SettleRow(c) ==
  LET x == call[c].looked
  IN  /\ At(c, "recover") /\ x # Nobody /\ writer \in {Nobody, c}
      /\ \/ /\ ~call[c].found
            /\ Goes(c, [call[c] EXCEPT !.looked = Nobody, !.deletes = @ \cup {x}])
         \/ /\ call[c].found
            /\ Goes(c, [call[c] EXCEPT !.looked = Nobody, !.found = FALSE,
                                       !.readies = @ \cup {x}])
      /\ writer' = c
      /\ UNCHANGED <<content, version, placed, frozen, overlapped, lost>>

Recovered(c, x) ==
  IF x \in call[c].deletes THEN NoRow
  ELSE IF x \in call[c].readies /\ version[x].status # "none"
  THEN [status |-> "READY", content |-> placed[x].content, by |-> c]
  ELSE version[x]

EndRecovery(c) ==
  /\ At(c, "recover") /\ call[c].pending = {} /\ call[c].looked = Nobody
  /\ version' = [x \in Calls |-> Recovered(c, x)]
  /\ writer' = IF writer = c THEN Nobody ELSE writer
  /\ Goes(c, [call[c] EXCEPT !.pc = "register", !.deletes = {}, !.readies = {}])
  /\ UNCHANGED <<content, placed, frozen, overlapped, lost>>

Register(c) ==
  /\ At(c, "register") /\ writer = Nobody
  /\ version' = [version EXCEPT ![c] = [status |-> "PENDING", content |-> 0, by |-> Nobody]]
  /\ GoesTo(c, "copy")
  /\ UNCHANGED <<content, placed, writer, frozen, overlapped, lost>>

(* The backup is one read of the live database; manifest and hash follow.  *)
MakeCopy(c) ==
  /\ At(c, "copy") /\ Goes(c, [call[c] EXCEPT !.pc = "sync", !.copy = Copy(c)])
  /\ UNCHANGED <<content, version, placed, writer, frozen, overlapped, lost>>

\* Mutant: the copy is moved without being synced.
SyncCopyNot(c) ==
  /\ At(c, "sync") /\ Goes(c, [call[c] EXCEPT !.pc = "move"])
  /\ UNCHANGED <<content, version, placed, writer, frozen, overlapped, lost>>

SyncCopy(c) ==
  /\ At(c, "sync") /\ Goes(c, [call[c] EXCEPT !.pc = "move", !.copy.synced = TRUE])
  /\ UNCHANGED <<content, version, placed, writer, frozen, overlapped, lost>>

MoveCopy(c) ==
  /\ At(c, "move") /\ placed' = [placed EXCEPT ![c] = call[c].copy]
  /\ GoesTo(c, "name")
  /\ UNCHANGED <<content, version, writer, frozen, overlapped, lost>>

SyncName(c) ==
  /\ At(c, "name") /\ placed' = [placed EXCEPT ![c].named = TRUE]
  /\ GoesTo(c, "publish")
  /\ UNCHANGED <<content, version, writer, frozen, overlapped, lost>>

(* An UPDATE: nothing happens if a recovery has deleted the row.           *)
PublishRow(c) ==
  /\ At(c, "publish") /\ writer = Nobody
  /\ version' = [version EXCEPT ![c] =
                   IF @.status = "none" THEN @
                   ELSE [status |-> "READY", content |-> call[c].copy.content, by |-> c]]
  /\ GoesTo(c, "freeze")
  /\ UNCHANGED <<content, placed, writer, frozen, overlapped, lost>>

(* build_validation_snapshot, in the other database.                       *)
FreezeDataset(c) ==
  /\ At(c, "freeze") /\ frozen' = frozen \cup {c}
  /\ Goes(c, [NoCall EXCEPT !.pc = "done"])
  /\ UNCHANGED <<content, version, placed, writer, overlapped, lost>>

(* An exception unlinks the temporary file, a kill leaves it behind.       *)
CallDies(c) ==
  /\ Active(c) /\ Goes(c, [NoCall EXCEPT !.pc = "stopped"])
  /\ writer' = IF writer = c THEN Nobody ELSE writer
  /\ UNCHANGED <<content, version, placed, frozen, overlapped, lost>>

(* Committed rows survive.  Data that was not synced may be damaged, a     *)
(* name that was not synced may be gone, and what is left is on the disk.  *)
AfterOutage(f) ==
  (IF f.synced THEN {[f EXCEPT !.named = TRUE]}
   ELSE {[f EXCEPT !.is = s, !.synced = TRUE, !.named = TRUE] : s \in {"whole", "damaged"}})
    \cup (IF f.named THEN {} ELSE {NoFile})

PowerFails ==
  /\ \E x \in [Calls -> UNION {AfterOutage(placed[c]) : c \in Calls} \cup {NoFile}] :
       /\ \A c \in Calls : x[c] \in IF placed[c] = NoFile THEN {NoFile} ELSE AfterOutage(placed[c])
       /\ placed' = x
       /\ lost' = lost \cup {c \in Calls : version[c].status = "READY" /\ x[c] = NoFile}
  /\ call' = [c \in Calls |-> IF Active(c) THEN [NoCall EXCEPT !.pc = "stopped"] ELSE call[c]]
  /\ writer' = Nobody
  /\ UNCHANGED <<content, version, frozen, overlapped>>

SnapshotStep(c) ==
  \/ BeginSnapshot(c) \/ LookForFile(c) \/ SettleRow(c) \/ EndRecovery(c) \/ Register(c)
  \/ MakeCopy(c) \/ SyncCopy(c) \/ MoveCopy(c) \/ SyncName(c) \/ PublishRow(c) \/ FreezeDataset(c)
  \/ CallDies(c)

SnapshotNext == LiveWrite \/ PowerFails \/ \E c \in Calls : SnapshotStep(c)
SnapshotSpec == SnapshotInit /\ [][SnapshotNext]_snapshotVars

-----------------------------------------------------------------------------
(* What is registered READY is at its destination, whole, with the hash of *)
(* its row, through kills and power failures; only a file that another call*)
(* recovered before its name reached the disk may be lost.  What is frozen *)
(* for the validation is whole for good, and readable unless calls         *)
(* overlapped.                                                             *)
RegisteredIsWhole ==
  /\ \A c \in Calls : version[c].status = "READY" =>
       \/ IsCopyOf(placed[c], c) /\ placed[c].content = version[c].content
       \/ c \in lost /\ version[c].by # c
  /\ \A c \in frozen : IsCopyOf(placed[c], c) /\ (overlapped \/ Readable(c))
=============================================================================
