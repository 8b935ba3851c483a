SPECIFICATION Spec
CONSTANTS
  Models = 3
  MaxRetries = 6
  Timeout = 7
CHECK_DEADLOCK FALSE
INVARIANTS
  GivesUpLate
  LongestCall
