CONSTANTS
  Program <- MCProgram
  MaxAttempts = 2
  MaxMishaps = 1
SPECIFICATION FairSpec
INVARIANTS
  NeverReplayed
  PassedHaveReceipts
PROPERTIES
  HeldStaysHeld
  StopReturns
CHECK_DEADLOCK FALSE
