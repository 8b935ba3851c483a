SPECIFICATION FairMemorySpec
CONSTANTS
  WindowSize = 2
  MaxId = 3
  MaxFaults = 1
INVARIANTS
  WindowIsTail
  PatchSticks
  RowsBehindWindow
  OwnDescriptions
  ContextIsRecent
PROPERTY ReplyEnds
CHECK_DEADLOCK FALSE
