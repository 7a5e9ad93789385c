SPECIFICATION Spec
CONSTANTS
  Router <- TwoRouters
  Link <- OneLink
  Events = {"hello", "resend", "loss"}
  Scripted = {}
  DeadInterval = 4
  MaxNow = 0
  MaxDdSeq = 4
  MaxLsSeq = 0
  MaxRetrans = 2
  MaxQueue = 2
INVARIANTS
  TypeOK
  HigherIdIsMaster
  ExchangeInLockstep
  RepeatsAreNeverDuplicates
  TimersCoverAwaited
  LoadingAwaitsAnswer
  UnackedUpdatesKept
CHECK_DEADLOCK FALSE
