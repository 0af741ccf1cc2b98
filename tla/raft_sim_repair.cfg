SPECIFICATION FairLedSpec
CONSTANTS
  Server = {0, 1, 2}
  Command = {x}
  Nil = Nil
  ELECTION_TIMEOUT_BASE = 2
  ELECTION_JITTER = 2
  HEARTBEAT_INTERVAL = 1
  MaxAdvance = 1
  MaxTerm = 3
  MaxLog = 2
  MaxBus = 0
  Cuts = {{0}}
VIEW WithoutHistory
CHECK_DEADLOCK FALSE
PROPERTY EntriesReplicate
