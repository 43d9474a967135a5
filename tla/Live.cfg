CONSTANTS
  None = None
  Absent = Absent
  Requests = {"r1"}
  Providers = {p1, p2}
  Failures = {"malformed", "unavailable"}
  Pack = {1, 2}
  Taxonomy = {"growth", "other"}
  Runs = {1, 2}
  Cycle <- MCCycle
  RoleOrder <- MCOrder
  RoleProvider <- MCRoute
  ModelAnswers <- MCFew
  Workers = {"w1"}
  Modes = {FALSE}
  Symbols = {1, 2}
  Active = {1}
  Invocations = {"i1"}
SPECIFICATION LiveSpec
INVARIANTS AloneRunIsSound
PROPERTIES EveryRunIsDecided  
CHECK_DEADLOCK FALSE
