SPECIFICATION Spec
CONSTANTS
  main = main
  t1 = t1
  NULL = NULL
  Threads = {main, t1}
  Main = main
  MinDelay = 2
  ClockTick = 10
  Priorities = {0, 12}
  Nices = {20}
  Times = {10, 20}
  WalkExact = 3
  MaxNest = 2
  MaxTicks = 6
INVARIANTS
  TypeOK
  ClockAccounting
  QuantumBound
PROPERTIES
  TickPicksLeast
  VruntimeGrows
