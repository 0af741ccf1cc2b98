SPECIFICATION Spec
CONSTANTS
  Handler = {t1, t2}
  capacity = 2
  ttl = 1
  Requests = {0, 1, 2}
  MaxId = 3
  MaxClock = 2
CHECK_DEADLOCK FALSE
PROPERTY KeepsPromise
