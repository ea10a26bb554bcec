SPECIFICATION Spec
CONSTANTS
  c1 = c1
  c2 = c2
  c3 = c3
  Clients <- MCClients
  Calls <- MCCalls
  Mortal = {c1}
  Consumers = {k1, k2}
  Producer = p
  RingSize = 2
  NULL = NULL
INVARIANTS BufferInv RequestInv NothingLost ExitNeedsFailedSend
PROPERTIES ImplementsChannel Answered
CHECK_DEADLOCK FALSE
