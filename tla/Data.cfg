CONSTANTS
  Symbols = {1, 2}
  Active = {}
  Invocations = {i1, i2}
  Budget = 1
  Ceiling = 1
  None = None
  MaxPerRun = 2
  MaxTotal = 1
  Starved = FALSE
  Killable = TRUE
  EvidenceBatches <- MCEvidenceBatches
  EvidenceEnd = 5
  Batches <- MCForwardBatches
  LastMoment = 5
  SessionDays <- MCSessions
  Runs = {r1, r2}
  Variants = {"v1"}
  Features = {"f1"}
  Horizons = {1}
  Delistings <- MCDelistings
  FirstYear = 2015
  LastYear = 2045
SPECIFICATION DataSpec
SYMMETRY Interchangeable
INVARIANTS RepairsAreEarned NothingIsOverlooked ReadersAgree FrozenPlaneAgrees CalendarHolds
CHECK_DEADLOCK FALSE
