SPECIFICATION Spec
CONSTANTS
  Processes = {p1, p2}
  MaxKeys = 2
  MaxPhrases = 2
CHECK_DEADLOCK FALSE
INVARIANTS TornHasCopy SealedStillOpens ErasedLeavesFile
