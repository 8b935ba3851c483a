SPECIFICATION FairAnswerSpec
CONSTANTS
  Users = {u1}
  Chats = {c1, c2}
  Nobody = nobody
  Minute = 2
  MaxFaults = 1
  MaxParts = 3
  MaxLosses = 1
INVARIANTS
  ChunksInOrder
  ShownWhole
PROPERTIES
  AskSpacingInChat
  AnswerEnds
