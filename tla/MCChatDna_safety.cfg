SPECIFICATION Spec
CONSTANTS
  Runs = {r1, r2}
  Lookback = 2
  Day = 2
  LongestCall = 1
  MaxSummaries = 4
  MaxFaults = 1
INVARIANTS
  FreshEnough
  BothStores
PROPERTY NeverOverwritten
