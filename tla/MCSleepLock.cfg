SPECIFICATION FairSpec

CONSTANTS
  p1 = p1
  p2 = p2
  p3 = p3
  p4 = p4
  Free = Free
  Proc <- Four

INVARIANTS
  TypeOK
  NoLostWakeup

PROPERTIES
  ImplementsMutex
  FreeLockTaken
