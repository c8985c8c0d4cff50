CONSTANTS
  Requests = {chat, load, idle}
  Background = {idle}
  Hosts = {}
  Graceful = {load}
  Draining = {}
  Exempt = {load}
  MaxHolds = 1
  None = None
SPECIFICATION Spec
INVARIANTS
  OneInSlot
  BackgroundYields
PROPERTIES
  CancellationIsExact
  HoldKeepsOrder
CHECK_DEADLOCK FALSE
