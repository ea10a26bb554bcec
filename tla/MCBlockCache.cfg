SPECIFICATION Spec
CONSTANTS
  Blocks = {b1, b2, b3}
  Zero = Zero
  Contents = {data}
  Watched = b1
  MaxNos = 2
  MaxAge = 2
INVARIANTS CacheInv
PROPERTIES ImplementsMemory DirtyReachesDisk
