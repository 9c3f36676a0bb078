SPECIFICATION StackSpec
CONSTANTS
  StackSize = 14
  Half = 4
  SizeT = 1000
  Garbage <- MCGarbage
  Elements <- MCElements
  Receivers = {1, 3, 4}
INVARIANT OverflowIsReal
CHECK_DEADLOCK FALSE
