SPECIFICATION Spec
CONSTANTS
  a = a
  b = b
  Clients = {c1, c2}
  Inodes = {1, 2, 3, 4, 5}
  Root = 1
  Names = {a, b}
  Paths <- MCPaths
  Pairs <- MCPairs
  Datum = Datum
  Chunk = 1
  MaxOpenFiles = 2
  Modulus = 8
  MaxCount = 2
  MaxCalls = 3
  StartTree <- MCTree
  StartFiles <- MCFiles
INVARIANTS ClientInv
PROPERTIES OutrunOnlyByOthers 
CHECK_DEADLOCK FALSE
