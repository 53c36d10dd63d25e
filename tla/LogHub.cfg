SPECIFICATION FairSpec
CONSTANTS
  Streams = {a, b}
  Capacity = 2
  MaxLines = 4
CHECK_DEADLOCK FALSE
INVARIANTS
  TypeOK
  NoSendOnClosed
  NoLineLost
  InOrder
PROPERTIES
  LinesAreServedInTurn
  LoggingGoesOn
  HandlersLeave
