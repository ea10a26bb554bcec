SPECIFICATION Spec
CONSTANTS
  name1 = name1
  name2 = name2
  name3 = name3
  Names <- MCNames
  Threads = {t1, t2}
  Data = {x, y}
  Zero = Zero
  Page = Page
  Junk = Junk
  NumInodes = 4
  LastBlock = 13
  NumSlots = 2
  BlockUnits = 2
  PageEntries = 2
  MaxCount = 2
  MaxCalls = 6
  NULL = NULL
SYMMETRY Symmetry
INVARIANTS Consistent
PROPERTIES ImplementsStore
CHECK_DEADLOCK FALSE
