SPECIFICATION FairSpec
CONSTANTS
  t1 = t1
  t2 = t2
  t3 = t3
  NULL = NULL
  Threads = {t1, t2, t3}
  First = t1
INVARIANTS
  MonitorInv
  OwnerInside
  OneResumeEach
  NobodyForgotten
  CrashMeansAllWait
PROPERTIES
  ImplementsMesa
  EveryoneEnters
