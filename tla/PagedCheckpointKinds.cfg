CONSTANTS
  Records = {1, 2, 3}
  Neurons = {1, 3}
  Bucket <- MCBucket
  Values = {0, 1}
  Written <- MCWritten
  PartSize = 1
  MaxChanges = 2
  MaxMishaps = 1
  None = None
SPECIFICATION Spec
INVARIANTS
  TypeOK
  CommittedLoadable
  JournalCovers
PROPERTIES
  ImplementsAtomicSave
CHECK_DEADLOCK FALSE
