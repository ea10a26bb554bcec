SPECIFICATION Spec
CONSTANTS
  main = main
  t1 = t1
  t2 = t2
  NULL = NULL
  Threads = {main, t1, t2}
  Main = main
  MinDelay = 2
  ClockTick = 10
  Priorities = {1}
  Nices = {}
  Times = {10, 20}
  WalkExact = 1
  MaxNest = 2
  MaxTicks = 3
SYMMETRY Symmetry
INVARIANTS
  SchedulerInv
  OnePlace
  JoinAfterExit
  JoinerMissesNoExit
PROPERTIES
  ExitIsFinal
