CONSTANTS
  Gens = {1, 2}
  Callers = {c1, c2}
  Candidates = 2
  None = None
SPECIFICATION FairSpec
INVARIANTS
  AtMostOneWorker
  PendingOnCurrentWorker
  CancelledMeansExited
PROPERTIES
  CallsSettle
CHECK_DEADLOCK FALSE
