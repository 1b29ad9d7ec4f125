SPECIFICATION Spec
CONSTANTS
  Processes = {p1, p2}
  MaxKeys = 2
  MaxPhrases = 2
CHECK_DEADLOCK FALSE
INVARIANT KeysAreKept
INVARIANT ErasureStands
