\* TLC stops at the first of the two that is violated; leave out its line to see the other.
CONSTANTS
  Requests = {chat, idle}
  Background = {idle}
  Hosts = {}
  Graceful = {chat}
  Draining = {}
  Exempt = {}
  MaxHolds = 0
  None = None
SPECIFICATION Spec
INVARIANT SettledIsTerminal
PROPERTY AcknowledgedMeansExited
CHECK_DEADLOCK FALSE
