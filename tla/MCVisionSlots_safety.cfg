SPECIFICATION FairSpec
CONSTANTS
  Tasks = {t1, t2, t3}
  Caps = {0, 2}
  MaxFaults = 2
INVARIANTS
  SlotCap
  NoOverCount
  QuiescentZero
PROPERTY Recovers
