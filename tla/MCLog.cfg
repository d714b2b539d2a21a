SPECIFICATION Spec

CONSTANTS
  b1 = b1
  b2 = b2
  b3 = b3
  x = x
  y = y
  p1 = p1
  p2 = p2
  Lost = Lost
  Blank = x
  Block <- Three
  Value <- XY
  Proc <- TwoProc
  MAXOPBLOCKS = 3
  LOGSIZE = 6
  nlog = 6
  OpBlocks = 2
  Crashes = TRUE

SYMMETRY Symmetry

INVARIANTS
  TypeOK
  NoLostWakeup

PROPERTIES
  ImplementsTransactions
