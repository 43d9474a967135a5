-------------------------- MODULE MCEvidenceLedger --------------------------
(* An instance of EvidenceLedger for TLC, over the records of MCRecords.    *)
EXTENDS EvidenceLedger
INSTANCE MCRecords
=============================================================================
