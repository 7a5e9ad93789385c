SPECIFICATION FloodSpec
CONSTANTS
  Router <- ThreeRouters
  Link <- Triangle
  Events = {}
  Scripted = {1}
  DeadInterval = 4
  MaxNow = 0
  MaxDdSeq = 6
  MaxLsSeq = 2
  MaxRetrans = 6
  MaxQueue = 9
INVARIANTS
  InstancesAreMade
PROPERTIES
  FloodingSettles
  InstancesOnlyAdvance
CHECK_DEADLOCK FALSE
