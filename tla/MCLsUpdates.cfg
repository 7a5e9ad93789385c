SPECIFICATION FairSpec
CONSTANTS
  Router <- ThreeRouters
  Adjacent <- Triangle
  Started <- ThreeRouters
  Down = {}
  MaxSize = 12
  MaxChanges = 1
  MaxUpdates = 1
  MaxLost = 1
  MaxQueue = 1
INVARIANTS
  TimersCoverUnacked
  NewsIsPending
PROPERTIES
  UpdatesEnd
CHECK_DEADLOCK FALSE
