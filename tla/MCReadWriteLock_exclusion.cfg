SPECIFICATION Spec
CONSTANTS
  Threads = {t1, t2, t3}
  MaxCalls = 1
  Faults = {}
  NULL = NULL
INVARIANTS Exclusion
CHECK_DEADLOCK FALSE
