CONSTANTS
  Requests = {search, idle, teacher}
  Background = {idle}
  Hosts = {teacher}
  Graceful = {idle}
  Draining = {}
  Exempt = {}
  MaxHolds = 0
  None = None
SPECIFICATION FairSpec
INVARIANTS
  HostComputesAlone
PROPERTIES
  ForegroundServed
  CancelSettles
CHECK_DEADLOCK FALSE
