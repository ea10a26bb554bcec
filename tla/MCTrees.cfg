SPECIFICATION Spec
CONSTANTS
  NIL = NIL
  RAIZ = RAIZ
  NULL = NULL
  n1 = n1
  n2 = n2
  n3 = n3
  n4 = n4
  n5 = n5
  n6 = n6
  Nodes = {n1, n2, n3, n4, n5, n6}
  Keys = {0, 1, 2}
  MaxSleep = 3
  MaxClock = 4
  MaxKey = 1
SYMMETRY Symmetry
INVARIANTS Shape MinimoIsFirst
PROPERTIES ImplementsQueue WokenOnce WokenInOrder SmallWalkComplete
