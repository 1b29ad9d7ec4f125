SPECIFICATION SessionFairSpec
CHECK_DEADLOCK FALSE
INVARIANTS ExitPublished ReadsWhileParked RefsFresh
PROPERTIES PauseReached RequestAnswered SessionEnds
