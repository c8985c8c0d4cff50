\* TLC stops at the first of the two that is violated; leave out its line to see the other.
CONSTANTS
  Packets = {p}
  Controls = {c}
  Turns <- MCTurn
  MaxInFlight = 1
  MaxTimeouts = 0
SPECIFICATION Spec
INVARIANT RefusalIsNotStarted
INVARIANT RevisionsAgree
CHECK_DEADLOCK FALSE
