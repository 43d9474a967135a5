CONSTANTS
  Batches <- MCEvidenceBatches
  LastMoment = 5
SPECIFICATION LedgerSpec
INVARIANTS WithdrawnIsUnseen
CHECK_DEADLOCK FALSE
