CONSTANTS
  Calls = {c1}
  Tokens = {t1, t2}
  Side = "BUY"
  Quantity = 2
  Held = 1
  Null = Null
SPECIFICATION Phase4Spec
SYMMETRY Symmetry
INVARIANTS LiveOrderStaysReconcilable
CHECK_DEADLOCK FALSE
