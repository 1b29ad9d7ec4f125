SPECIFICATION Spec
CONSTANTS
  Code <- MCCode
  Main = "main"
  FileOf <- MCFileOf
  Asks <- MCAsks
  StopOnEntry = TRUE
  maxCallDepth = 3
  MaxHits = 2
INVARIANTS StepScope
PROPERTIES SkipsHonoured MarkersStop
