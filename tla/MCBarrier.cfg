SPECIFICATION BarrierSpec

CONSTANTS
  p1 = p1
  p2 = p2
  p3 = p3
  Group <- Three
  number = 3
  NCPU = 2
  Calls = 3
  Unlocked = Unlocked

INVARIANTS
  BarrierHolds

CHECK_DEADLOCK FALSE
