CONSTANTS
  Tokens = {t1}
  Workers = {w1, w2}
  Leases = {l1, l2, l3}
  Orders = {o1, o2}
  LegacyOrder = LegacyOrder
  None = None
  DryRunModes = {FALSE}
SPECIFICATION Spec
INVARIANTS StolenSubmissionNotRetryable
CHECK_DEADLOCK FALSE
