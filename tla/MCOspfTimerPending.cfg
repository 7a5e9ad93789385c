SPECIFICATION Spec
CONSTANTS
  Router <- TwoRouters
  Link <- OneLink
  Events = {"hello", "resend"}
  Scripted = {}
  DeadInterval = 4
  MaxNow = 0
  MaxDdSeq = 3
  MaxLsSeq = 0
  MaxRetrans = 2
  MaxQueue = 2
INVARIANTS
  CancelledTimersArePending
CHECK_DEADLOCK FALSE
