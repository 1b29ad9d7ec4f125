SPECIFICATION FairSpec
CONSTANTS
  Threads = {t1, t2}
  maxLiveChannels = 2
  maxRetainedChannels = 1
  Capacities <- Mixed
  MaxHandles = 3
CHECK_DEADLOCK FALSE
INVARIANTS LiveExact ClosedAfterEarly
PROPERTIES CloseWakesAll
