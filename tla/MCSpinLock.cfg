SPECIFICATION FairSpec
CONSTANTS
  cpu0 = cpu0
  cpu1 = cpu1
  pid1 = pid1
  pid2 = pid2
  reentrant = reentrant
  tickslock = tickslock
  ptable = ptable
  CPU = {cpu0, cpu1}
  Lock = {reentrant, tickslock, ptable}
  IntrLock = {tickslock}
  Pid = {pid1, pid2}
  NoPid = NoPid
  NoCpu = NoCpu
  NoLock = NoLock
  myPid <- MCPid
  lockPid <- MCLockPid
  LockRank <- MCRank
  MaxDepth = 2
  Careless = {cpu1}
INVARIANTS
  TypeOK
  NoPanic
  InterruptsRestored
PROPERTIES
  ImplementsMutex
  LastLockFreed

CHECK_DEADLOCK FALSE
