SPECIFICATION Spec
CONSTANTS
  Inserters = {i1, i2}
  Categories = {quote, meme}
  Scores <- MCScores
  Vectors <- MCVectors
  Alike <- MCAlike
  Limit = 3
  MaxEvents = 3
  MaxTime = 2
  MaxFaults = 1
CHECK_DEADLOCK FALSE
SYMMETRY Symmetry
INVARIANTS
  TypeOK
  OwnText
  StoresAgree
PROPERTY BetterOneStays
