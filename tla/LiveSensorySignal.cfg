CONSTANTS
  Packets = {p}
  Controls = {c}
  Turns <- MCTurn
  MaxInFlight = 1
  MaxTimeouts = 0
SPECIFICATION FairSpec
PROPERTY NoRequestStranded
CHECK_DEADLOCK FALSE
