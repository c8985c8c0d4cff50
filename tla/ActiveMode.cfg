CONSTANTS
  Saved = {a}
  Fresh = {n}
  Switches = {s}
  Boot = Boot
  None = None
  Cooldown = 2
  Rest = 1
  Settle = 1
  MaxBackoff = 2
  MaxMishaps = 2
SPECIFICATION MCFairSpec
INVARIANTS
  OneOwner
PROPERTIES
  FlagSticks
  CancelIsQuiet
  OwnerThinks
CHECK_DEADLOCK FALSE
