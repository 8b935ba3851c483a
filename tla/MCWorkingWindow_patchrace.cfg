SPECIFICATION Spec
CONSTANTS
  WindowSize = 2
  MaxId = 3
  MaxFaults = 1
PROPERTY PatchHitsOwnEntry
CHECK_DEADLOCK FALSE
