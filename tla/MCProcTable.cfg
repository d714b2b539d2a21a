SPECIFICATION Spec
CONSTANTS
  NPROC = 3
  cpu0 = cpu0
  cpu1 = cpu1
  CPU = {cpu0, cpu1}
  NoCpu = NoCpu
  Calls = {"fork", "exit", "wait", "kill", "sleep", "fault"}
  KillPids = {2, 3}
  SleepTicks = {1}
  MaxPid = 3
  MaxTicks = 1
  MayFail = TRUE
INVARIANTS
  TypeOK
  RunsOnItsStack
  NoLostWakeup
  KilledSleepsForTick
