SPECIFICATION FairSpec
CONSTANTS
  Tasks = {t1, t2, t3}
  Caps = {2}
  MaxFaults = 2
PROPERTY NeverPinned
