SPECIFICATION Spec
CONSTANTS
  Clients = {1, 2}
  Sellers = 2
  Rows = 1
  RowLength = 3
  MsgAccess = FALSE
  LuckyDraws = 0
INVARIANT OneSeatEach
CHECK_DEADLOCK FALSE
