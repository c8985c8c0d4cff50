CONSTANTS
  Requests = {chat, idle, teacher}
  Background = {idle}
  Hosts = {teacher}
  Graceful = {chat}
  Draining = {}
  Exempt = {}
  MaxHolds = 0
  None = None
SPECIFICATION FairSpec
PROPERTIES
  ForegroundServedBesideHosts
CHECK_DEADLOCK FALSE
