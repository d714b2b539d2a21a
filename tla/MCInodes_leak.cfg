CONSTANTS
  a = a
  b = b
  NInodes = 3
  Name <- MCName
  Requests <- MCRequests
  Proc = {p, q}
  Nobody = Nobody
  Crashes = FALSE
SPECIFICATION Spec
SYMMETRY MCSymmetry
CHECK_DEADLOCK FALSE
INVARIANTS FreedWithLastReference
