CONSTANTS
  Symbols = {1, 2, 3}
  Active = {1}
  Invocations = {i1, i2}
  Budget = 1
  Ceiling = 2
  None = None
  Processes = {p1, p2}
  Screens = 2
  Codes <- MCCodes
  LastView = 1
  Missing = Missing
  Universe <- MCUniverse
  Markets <- MCMarkets
  FunnelBudget = 3
  ControlCount = 1
  UnknownSector = 2
  ControlKey <- MCControlKey
  Pipelines = {q1, q2}
  Baselines = {"B0", "B4"}
  FinalVariant = "B4"
  Removals <- MCRemovals
  Gates <- MCGates
  Walks <- MCWalks
  Measures = 2
  Coverages = {500, 600}
SPECIFICATION ResearchSpec
SYMMETRY Interchangeable
INVARIANTS ReportIsNewest StaleIsAccounted  FunnelIsFair HoldoutIsFinal
CHECK_DEADLOCK FALSE
