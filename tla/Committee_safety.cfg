CONSTANTS
  Requests = {r1, r2}
  Providers = {p1, p2}
  Failures = {"malformed"}
  None = None
  Absent = Absent
  Pack = {1, 2}
  Taxonomy = {"growth", "other"}
  Runs = {1, 2}
  Cycle <- MCCycle
  RoleOrder <- MCOrder
  RoleProvider <- MCRoute
  ModelAnswers <- MCAnswers
  ClaimsTotal = 2
  MaterialClaims = 1
  MaterialThreshold = 3
  LastCycle = 2
  MaxRuns = 2
  MaxModelCalls = 3
  MaxCorrections = 1
  ScanFactor = 3
  MaxRoles = 3
  MaxTries = 2
  Faults = TRUE
  Workers = {"w1"}
  Modes = {FALSE}
SPECIFICATION MCSpec
SYMMETRY Symmetry
INVARIANTS ScoredAfterReview OneCallAtATime AcceptanceIsSound  SupersededIsLeft
CHECK_DEADLOCK FALSE
