SPECIFICATION Spec

CONSTANTS
  r1 = r1
  w1 = w1
  w2 = w2
  a = a
  b = b
  Nothing = Nothing
  Free = Free
  Reader <- OneReader
  Writer <- TwoWriters
  Byte <- AB
  PIPESIZE = 2
  Uint = 4
  MaxN = 3
  MayKill = TRUE

SYMMETRY Symmetry

INVARIANTS
  TypeOK
  NoLostWakeup

PROPERTIES
  ImplementsChannel

CHECK_DEADLOCK FALSE
