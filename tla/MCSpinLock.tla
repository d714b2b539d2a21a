----------------------------- MODULE MCSpinLock -----------------------------
(***************************************************************************)
(* Two CPUs; CPU 0's process owns a reentrant lock, which the other CPU    *)
(* may also want; the timer's tickslock is taken by handlers and by        *)
(* threads (sys_sleep), and ptable.lock nests inside it (wakeup).          *)
(***************************************************************************)
EXTENDS SpinLock, TLC

CONSTANTS cpu0, cpu1, pid1, pid2, reentrant, tickslock, ptable

MCPid == cpu0 :> pid1 @@ cpu1 :> pid2
MCLockPid == reentrant :> pid1 @@ tickslock :> NoPid @@ ptable :> NoPid
MCRank == reentrant :> 1 @@ tickslock :> 2 @@ ptable :> 3
=============================================================================
