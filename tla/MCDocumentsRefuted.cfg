SPECIFICATION Spec
CONSTANTS
  MaxTexts = 4
  MaxInbox = 2
CHECK_DEADLOCK FALSE
INVARIANT EditorWins
INVARIANT DiskInSync
PROPERTY WholeAccepted
