SPECIFICATION Spec
CONSTANTS
  MaxTexts = 3
  MaxInbox = 2
CHECK_DEADLOCK FALSE
INVARIANTS InStep ShownIsHeld IndexFollows
