SPECIFICATION FairSpec
CONSTANTS
  ChatTurns = {a, b}
  None = None
  MaxDeaths = 1
INVARIANTS
  CommittedOnce
  NothingStranded
  HostViewIsTrue
PROPERTIES
  OperationsSettle
