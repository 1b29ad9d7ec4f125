SPECIFICATION Spec
CONSTANTS
  Code <- MCCode
  Main = "main"
  FileOf <- MCFileOf
  Asks <- MCAsks
  StopOnEntry = FALSE
  maxCallDepth = 3
  MaxHits = 3
INVARIANT LeavingEndsStep
INVARIANT VerifiedArmed
INVARIANT HitsExact
