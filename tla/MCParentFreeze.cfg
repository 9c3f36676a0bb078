SPECIFICATION ParentSpec
CONSTANTS
  Permanent = perm
  Children = {c1, c2}
  main = main
  MaxFreezes = 1
PROPERTY KeepsForking
CHECK_DEADLOCK FALSE
