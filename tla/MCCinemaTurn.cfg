SPECIFICATION Spec
CONSTANTS
  Clients = {1, 2}
  Sellers = 2
  Rows = 1
  RowLength = 2
  MsgAccess = TRUE
  LuckyDraws = 0
PROPERTY TurnComes
CHECK_DEADLOCK FALSE
