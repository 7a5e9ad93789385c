SPECIFICATION Spec
CONSTANTS
  Router <- TwoRouters
  Link <- OneLink
  Events = {"hello", "inactivity", "aging"}
  Scripted = {2}
  DeadInterval = 4
  MaxNow = 8
  MaxDdSeq = 12
  MaxLsSeq = 3
  MaxRetrans = 2
  MaxQueue = 2
INVARIANTS
  HeardNeighbours
PROPERTIES
  ImplementsReplicas
CHECK_DEADLOCK FALSE
