CONSTANTS
  Brains = {1, 2}
  w1 = w1
  w2 = w2
  w3 = w3
  Writers <- MCWriters
  Scopes <- MCScopes
  None = None
SPECIFICATION FairSpec
INVARIANTS
  ArrivalOrder
  NoStaleCopy
PROPERTIES
  ImplementsAtomicWrites
  EveryCallReturns
CHECK_DEADLOCK FALSE
