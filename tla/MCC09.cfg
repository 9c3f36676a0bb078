SPECIFICATION C09Spec
CONSTANTS
  Capacity = 2
  MaxPersons = 5
  PipeSize = 1
  Permanent = perm
  Children = {c1, c2, c3}
  main = main
  MaxFreezes = 1
INVARIANTS
  TypeOK
  ExactlyFull
  OneWakeUp
  NobodyStranded
  ParentTypeOK
  HandlerNeverBlocks
PROPERTIES
  GroupRides
  ImplementsRide
  ParentKeepsForking
CHECK_DEADLOCK FALSE
