SPECIFICATION Spec
CONSTANTS
  Threads = {t1, t2, t3}
  maxLiveChannels = 2
  maxRetainedChannels = 1
  Capacities <- Either
  MaxHandles = 1
INVARIANTS ClosedIsLast
CHECK_DEADLOCK FALSE
