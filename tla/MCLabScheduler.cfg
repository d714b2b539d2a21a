SPECIFICATION FairSpec
CONSTANTS
  NPROC = 3
  WordSize = 16
  MULT = 2
  ADD = 5
  DrawnTickets = 2
  ExecTickets = 7
  Settable = {2, 3}
  SetTickets = {1}
INVARIANTS
  TypeOK
  AllocReturns
PROPERTIES
  LotteryServed
  SrpfServed
