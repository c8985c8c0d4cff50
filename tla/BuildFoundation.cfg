CONSTANTS
  b1 = b1
  b2 = b2
  folder = folder
  site = site
  NoBrain = NoBrain
  Brains <- MCOne
  Selections <- MCSelections
  Resources <- MCResources
  MaxFaults = 1
  MaxRetries = 1
SPECIFICATION BuildsSpec
INVARIANT FoundationBeforeLearning
CHECK_DEADLOCK FALSE
