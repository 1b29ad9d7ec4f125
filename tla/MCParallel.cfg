SPECIFICATION MapFairSpec
CONSTANTS
  N = 3
  requested = 0
  NumCPU = 3
  maxParallelWorkers = 4
INVARIANTS EachElementOnce FailureStopsWork
PROPERTIES AlwaysAnswers KeepsPromise
