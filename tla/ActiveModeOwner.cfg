\* TLC stops at the first that is violated; leave out its line to see the others.  A Build saves
\* the document it read before the owner was switched: a second owner, and a switch undone or a
\* deleted brain that is back.  A cycle admitted on a document read earlier runs for a brain that
\* is not the owner any more.
CONSTANTS
  Saved = {a}
  Fresh = {n}
  Switches = {s}
  Boot = Boot
  None = None
  Cooldown = 2
  Rest = 1
  Settle = 1
  MaxBackoff = 2
  MaxMishaps = 1
SPECIFICATION MCSpec
INVARIANT NeverTwoOwners
PROPERTY FlagSticksThroughBuilds
PROPERTY OnlyTheOwnerThinks
CHECK_DEADLOCK FALSE
