CONSTANTS
  b1 = b1
  b2 = b2
  folder = folder
  site = site
  NoBrain = NoBrain
  Brains <- MCBrains
  Selections <- MCSelections
  Resources <- MCResources
  MaxFaults = 2
  MaxRetries = 2
SPECIFICATION BuildsSpec
INVARIANT SelectionLearnedOnce
CHECK_DEADLOCK FALSE
