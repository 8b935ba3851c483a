SPECIFICATION FairFactSpec
CONSTANTS
  Tasks = {t1, t2}
  N = 3
  MaxFaults = 2
  Facts <- MCFacts
  Alike <- MCAlike
  MaxNamed = 2
  MaxRows = 4
INVARIANTS
  Overshoot
  NoTwins
  CopiesBounded
  RowsAndPoints
PROPERTIES
  EveryNth
  NeverStalls
