SPECIFICATION SessionFairSpec
CHECK_DEADLOCK FALSE
INVARIANT LastEventIsExit
INVARIANT NeverReadsRunning
PROPERTY AlwaysAnswered
