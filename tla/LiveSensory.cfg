CONSTANTS
  Packets = {p, q}
  Controls = {c}
  Turns <- MCTurn
  MaxInFlight = 2
  MaxTimeouts = 1
SPECIFICATION FairSpec
INVARIANTS
  HonestAnswer
  StopEmptiesQueue
  LeaseFollowsRequest
PROPERTY EveryRequestAnswered
CHECK_DEADLOCK FALSE
