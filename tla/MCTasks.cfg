SPECIFICATION FairSpec
CONSTANTS
  maxLiveTasks = 2
  maxRetainedTasks = 1
  MaxHandles = 3
INVARIANTS LiveExact HandlesKept TeardownAfterTasks
PROPERTIES FinishedIsTold TeardownReached
