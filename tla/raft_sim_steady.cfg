SPECIFICATION Spec
CONSTANTS
  Server = {0, 1, 2}
  Command = {x}
  Nil = Nil
  ELECTION_TIMEOUT_BASE = 6
  ELECTION_JITTER = 6
  HEARTBEAT_INTERVAL = 2
  MaxAdvance = 1
  MaxTerm = 3
  MaxLog = 1
  MaxBus = 0
  Cuts = {}
CHECK_DEADLOCK FALSE
PROPERTY AcceptedLeaderStays RefinesRaft
