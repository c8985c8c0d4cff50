CONSTANTS
  Records = {1, 2, 3}
  Neurons = {1, 2, 3}
  Bucket <- MCBucket
  Values = {0, 1}
  Written <- MCWritten
  PartSize = 2
  MaxChanges = 2
  MaxMishaps = 1
  None = None
SPECIFICATION Spec
INVARIANTS
  CommittedLoadable
PROPERTIES
  ImplementsAtomicSave
CHECK_DEADLOCK FALSE
