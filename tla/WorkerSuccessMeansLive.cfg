CONSTANTS
  Gens = {1, 2, 3}
  Callers = {c1, c2}
  Candidates = 2
  None = None
SPECIFICATION Spec
INVARIANTS
  SuccessMeansLive
CHECK_DEADLOCK FALSE
