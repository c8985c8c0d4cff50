SPECIFICATION LifecycleSpec
CONSTANTS
  ChatTurns = {a, b}
  None = None
  MaxDeaths = 0
SYMMETRY Symmetric
INVARIANT ReportedUnloadedIsReleased
