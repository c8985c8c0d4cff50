CONSTANTS
  Program <- MCTool
  MaxAttempts = 2
  MaxMishaps = 2
SPECIFICATION Spec
INVARIANT OneEffectPerConfirmation
CHECK_DEADLOCK FALSE
