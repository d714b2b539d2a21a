SPECIFICATION FairSpec

CONSTANTS
  c1 = c1
  c2 = c2
  b1 = b1
  b2 = b2
  b3 = b3
  x = x
  y = y
  p1 = p1
  p2 = p2
  p3 = p3
  None = None
  Buf <- Two
  Boot <- Order
  Block <- Three
  Written <- Changing
  Value <- XY
  Initial <- MkfsContents
  Client <- ThreeClients
  MaxDirty = 1
  Crashes = TRUE

INVARIANTS
  TypeOK
  StillMine
  PanicsOnlyWhenFull

PROPERTIES
  ImplementsBlockStore
  RequestServed
