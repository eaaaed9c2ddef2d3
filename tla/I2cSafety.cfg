\* Every transfer of one or two messages of zero to two bytes.
CONSTANTS
  Transfers <- MCTransfers
  MaxMsgs = 2
SPECIFICATION AnsweringSpec
INVARIANTS
  TypeOK
  UndisturbedInv
  SuccessMeansAllMoved
  ReadInBounds
  LastReadByteNotAcked
PROPERTIES
  MessagesInOrder
  WalkReachesStop
