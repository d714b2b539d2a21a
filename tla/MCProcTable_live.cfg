SPECIFICATION FairSpec
CONSTANTS
  NPROC = 3
  cpu0 = cpu0
  cpu1 = cpu1
  CPU = {cpu0}
  NoCpu = NoCpu
  Calls = {"fork", "exit", "wait", "kill", "sleep", "fault"}
  KillPids = {2, 3}
  SleepTicks = {1}
  MaxPid = 3
  MaxTicks = 1
  MayFail = FALSE
PROPERTIES
  RunnableRuns
  KilledLeaves
  ZombiesReaped
CHECK_DEADLOCK FALSE
