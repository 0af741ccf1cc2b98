SPECIFICATION Spec
CONSTANTS
  Server = {0, 1, 2}
  Command = {x}
  Nil = Nil
  ELECTION_TIMEOUT_BASE = 2
  ELECTION_TIMEOUT_JITTER = 2
  HEARTBEAT_INTERVAL = 1
  MaxTerm = 3
  MaxLog = 2
  Cuts = {{0}}
CHECK_DEADLOCK FALSE
INVARIANT TypeOK VotesWereGiven AppliedIsLogPrefix StateMachineSafety LeaderIsComplete MatchIsHeld
PROPERTY WritesReachEveryNode
