SPECIFICATION AnyClockSpec
CONSTANTS
  capacity = 3
  HOLD_TTL_SECS = 2
  Requests = {0, 1, 2, 3}
  MaxId = 4
  MaxClock = 5
  Jumps = {1, 2}
CHECK_DEADLOCK FALSE
INVARIANT CapacityKept
