SPECIFICATION Spec
CONSTANTS
  Router <- ThreeRouters
  Adjacent <- Triangle
  Started <- ThreeRouters
  Down = {}
  MaxSize = 12
  MaxChanges = 2
  MaxUpdates = 0
  MaxLost = 0
  MaxQueue = 0
INVARIANTS
  TypeOK
  NewsIsPending
  AgreeWhenQuiet
CHECK_DEADLOCK FALSE
