CONSTANTS
  Proposals = {1, 2}
  Runners = {r1, r2}
  MaxCount = 2
  MaxNotional = 2
  Notional <- MCNotional
  LastDay = 1
  Faults = TRUE
  None = None
  Calls = {c1, c2}
  Tokens = {t1, t2}
  Side = "SELL"
  Quantity = 2
  Held = 1
  Null = Null
SPECIFICATION OperationsSpec
SYMMETRY Interchangeable
INVARIANTS EnvelopesAreAccounted BudgetHoldsAlone LinkIsReal OneOrderAlone
PROPERTIES AppliedNeverShrinksAlone
CHECK_DEADLOCK FALSE
