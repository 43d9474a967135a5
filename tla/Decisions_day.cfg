CONSTANTS
  Ppm = 10
  Unit = 1
  None = None
  Mark = 1
  LastTime = 3
  PerDay = 2
  HandoffAge = 1
  Delisted = {}
  Policy <- MCPolicy
  Securities <- MCSecurities
  Pipelines <- MCPipelines
  Sector <- MCSector
  Coverage <- MCCoverage
  Measures <- MCMeasures
  Correlation <- MCCorrelation
  Views <- MCViews
  Seeds <- MCSeeds
  Calls = {c1, c2}
  Nobody = Nobody
  WriteLimit = 2
  BootCalls = {b1, b2}
  Ciks = {1, 2}
  Samples <- MCSamples
  Absent = Absent
  LastSecond = 1
  Drivers = {d1, d2}
  Tickers = {1, 2, 3}
  CanonicalTickers = {1, 3}
  AnswerRecords = 2
  HourSpan = 1
  DaySpan = 2
  HourlyReserve = 1
  DailyReserve = 2
  SymbolCeiling = 1
  MaxTries = 2
  LastTick = 2
SPECIFICATION PlaneSpec
INVARIANTS DayBudgetHolds LedgerIsChain OrdersAreEarned   RegisteredIsWhole CohortIsAligned RequestsWithinReserve CohortIsAccounted
PROPERTIES PastStands
SYMMETRY Interchangeable
CHECK_DEADLOCK FALSE
