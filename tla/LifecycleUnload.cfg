SPECIFICATION FairSpec
CONSTANTS
  ChatTurns = {a, b}
  None = None
  MaxDeaths = 0
PROPERTY EveryOperationReturns
