SPECIFICATION Spec
CONSTANTS
  Threads = {t1, t2, t3}
  MaxCalls = 1
  Faults = {"mkdir", "copy"}
  NULL = NULL
INVARIANTS LockInv
PROPERTIES FaultFreezes OneKindReturns
CHECK_DEADLOCK FALSE
