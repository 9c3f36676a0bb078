SPECIFICATION ContainersSpec
CONSTANTS
  MaxVertices = 3
  Cells = {c1, c2, c3, c4}
  NULL = NULL
  StackSize = 14
  Half = 4
  SizeT = 1000
  Garbage <- MCGarbage
  Elements <- MCElements
  Receivers = {1, 3, 4}
SYMMETRY Symmetry
INVARIANTS
  HeapSound
  Ways
  StackTypeOK
  Layout
PROPERTIES
  ImplementsEdgeLists
  ImplementsLifo
CHECK_DEADLOCK FALSE
