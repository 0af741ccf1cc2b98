SPECIFICATION LedSpec
CONSTANTS
  Server = {0, 1, 2}
  Command = {x, y}
  Nil = Nil
  ELECTION_TIMEOUT_BASE = 2
  ELECTION_JITTER = 2
  HEARTBEAT_INTERVAL = 1
  MaxAdvance = 1
  MaxTerm = 4
  MaxLog = 2
  MaxBus = 0
  Cuts = {{0}, {1}}
SYMMETRY SameCommands
VIEW WithoutHistory
CHECK_DEADLOCK FALSE
INVARIANT CommittedHistoryConsistent
