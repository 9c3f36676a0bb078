SPECIFICATION C11Spec
CONSTANTS
  Clients = {1, 2}
  Sellers = 2
  Rows = 1
  RowLength = 2
  MsgAccess = FALSE
  LuckyDraws = 1
  MaxSessions = 2
  Workers = {w1}
  Main = main
INVARIANTS
  TypeOK
  SellersStartOver
  IpcTypeOK
  CompleteIsCleaned
  ResourcesStay
  SemaphoresLock
PROPERTIES
  EverybodyServed
  EndsByCtrlC
CHECK_DEADLOCK FALSE
