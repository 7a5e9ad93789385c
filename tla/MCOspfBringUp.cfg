SPECIFICATION FairSpec
CONSTANTS
  Router <- TwoRouters
  Link <- OneLink
  Events = {"hello"}
  Scripted = {1, 2}
  DeadInterval = 4
  MaxNow = 0
  MaxDdSeq = 6
  MaxLsSeq = 2
  MaxRetrans = 6
  MaxQueue = 9
INVARIANTS
  SynchronisedWhenQuiet
PROPERTIES
  BringUpConverges
CHECK_DEADLOCK FALSE
