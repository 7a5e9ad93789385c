SPECIFICATION Spec
CONSTANTS
  Router <- TwoRouters
  Originator = 1
  Adjacent <- Pair
  Second = 10
  Delay = 1
  RefreshTime = 30
  MaxAge = 60
  MaxAgeDiff = 15
  InitSeqs = {2}
  MaxSeq = 2
  WraparoundThreshold = 2147483646
  MaxQueue = 1
  MaxRound = 5
INVARIANTS
  OwnIsCurrent
CHECK_DEADLOCK FALSE
