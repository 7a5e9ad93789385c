SPECIFICATION FairSpec
CONSTANTS
  Router <- ThreeRouters
  Originator = 1
  Adjacent <- Line
  Second = 4
  Delay = 1
  RefreshTime = 32
  MaxAge = 64
  MaxAgeDiff = 16
  InitSeqs = {0, 1}
  MaxSeq = 2
  WraparoundThreshold = 2147483646
  MaxQueue = 2
  MaxRound = 18
INVARIANTS
  TypeOK
  AgreeWhenQuiet
  HeldAreAged
  UnchangedIsRefreshed
PROPERTIES
  FloodsEnd
CHECK_DEADLOCK FALSE
