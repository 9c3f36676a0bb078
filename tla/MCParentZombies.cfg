SPECIFICATION ParentSpec
CONSTANTS
  Permanent = perm
  Children = {c1, c2}
  main = main
  MaxFreezes = 0
INVARIANT NoZombieLeft
CHECK_DEADLOCK FALSE
