CONSTANTS
  Proposals = {1, 2}
  Runners = {r1}
  MaxCount = 2
  MaxNotional = 3
  Notional <- MCNotional
  LastDay = 1
  Faults = FALSE
  None = None
SPECIFICATION MCSpec
INVARIANTS OneOrderPerProposal
CHECK_DEADLOCK FALSE
