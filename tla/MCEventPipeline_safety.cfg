SPECIFICATION Spec
CONSTANTS
  NumMsgs = 3
  Texts <- MCTexts
  TextOf <- MCTextOf
  Threshold = 2
  Hour = 1
  MaxKept = 2
  MaxFaults = 1
CHECK_DEADLOCK FALSE
INVARIANTS
  TypeOK
  BufferInOrder
PROPERTIES
  NewAfterHour
  KeepsLedger
