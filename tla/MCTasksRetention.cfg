SPECIFICATION Spec
CONSTANTS
  maxLiveTasks = 2
  maxRetainedTasks = 2
  MaxHandles = 3
PROPERTIES CollectedNeverOccupyRetention
