CONSTANTS
  Tokens = {t1, t2}
  Workers = {w1, w2}
  Leases = {l1, l2, l3}
  Orders = {o1, o2}
  LegacyOrder = LegacyOrder
  None = None
  DryRunModes = {TRUE, FALSE}
SPECIFICATION Spec
SYMMETRY Symmetry
INVARIANTS OneAuthority OrdersAreBacked
PROPERTIES SubmittedIsFinal StolenHandlerIsFenced ImplementsAuthority
CHECK_DEADLOCK FALSE
