CONSTANTS
  Program <- MCProgram
  MaxAttempts = 2
  MaxMishaps = 1
SPECIFICATION Spec
INVARIANT ActiveHasOwner
CHECK_DEADLOCK FALSE
