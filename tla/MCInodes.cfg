CONSTANTS
  a = a
  b = b
  NInodes = 3
  Name <- MCName
  Requests <- MCRequests
  Proc = {p, q}
  Nobody = Nobody
  Crashes = TRUE
SPECIFICATION Spec
SYMMETRY MCSymmetry
INVARIANTS TypeOK CacheTruthful RefsCounted NamesLive
PROPERTIES ImplementsFileStore LinksBalanced
CHECK_DEADLOCK FALSE
