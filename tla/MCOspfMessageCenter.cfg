SPECIFICATION Spec
CONSTANTS
  s1 = s1
  s2 = s2
  Type = {"hello", "dd", "update", "ack"}
  Slot <- TwoSlots
  MaxSize = 2
  Threshold = 4
  MaxMade <- Making
SYMMETRY SlotsAlike
INVARIANTS
  TypeOK
  NewestAreKept
  FirstCycleIsSafe
PROPERTIES
  ImplementsPassing
CHECK_DEADLOCK FALSE
