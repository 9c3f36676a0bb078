SPECIFICATION Spec
CONSTANTS
  Lines <- MCLines
  MaxLines = 2
  MaxProcs = 4
INVARIANTS
  TypeOK
  RightOnesRun
  Quiet
  GivenBack
  NoReaderWaitsForItself
PROPERTY
  PromptReturns
CHECK_DEADLOCK FALSE
