SPECIFICATION LifecycleSpec
CONSTANTS
  ChatTurns = {a, b, c}
  None = None
  MaxDeaths = 2
SYMMETRY Symmetric
INVARIANT RetainedTurnFirst
