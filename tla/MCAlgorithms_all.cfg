SPECIFICATION CaseSpec
CONSTANTS
  NEvents = 4
  MaxScore = 2
  LatestTime = 2
  MaxText = 8
  MaxLimit = 4
  MaxBody = 5
CHECK_DEADLOCK FALSE
INVARIANTS
  LeavesNoDuplicates
  DeletesOnlyWorse
  CutWell
  StreamsAlike
