------------------------------ MODULE SleepLock ------------------------------
(***************************************************************************)
(* The sleep locks of OS-lab-xv6-lock/sleeplock.c, which the buffer cache  *)
(* and the inodes are locked with: a long-term lock whose waiters sleep.   *)
(*                                                                         *)
(* Two spin locks protect it: lk->lk, taken by every operation, and        *)
(* ptable.lock, which sleep() takes before it lets go of lk->lk and which  *)
(* wakeup() and kill() need.  A step is what one of them makes atomic.     *)
(***************************************************************************)
EXTENDS FiniteSets

CONSTANTS
  Proc,  \* the processes that use the lock
  Free   \* the holder of a free spin lock, and the pid in a free sleep lock

ASSUME SleepLockAssumption == Free \notin Proc

VARIABLES
  locked,  \* lk->locked
  pid,     \* lk->pid
  inner,   \* the process that holds lk->lk
  ptable,  \* the process that holds ptable.lock
  pc       \* where each process is

vars == <<locked, pid, inner, ptable, pc>>

PC == {"idle", "test", "unlock_lk", "sched", "asleep", "woken", "owns", "wake"}

\* initsleeplock
Init ==
  /\ locked = FALSE
  /\ pid = Free
  /\ inner = Free
  /\ ptable = Free
  /\ pc = [p \in Proc |-> "idle"]

Goto(p, there) == pc' = [pc EXCEPT ![p] = there]

\* acquiresleep takes lk->lk, first, or again when sleep() returns.
LockInner(p) ==
  /\ pc[p] \in {"idle", "woken"}
  /\ inner = Free
  /\ inner' = p
  /\ Goto(p, "test")
  /\ UNCHANGED <<locked, pid, ptable>>

\* An acquiresleep that tests locked with an if: a woken process goes on.
NoTest == TRUE

LockIsFree == ~locked

Take(p) ==
  /\ pc[p] = "test"
  /\ LockIsFree
  /\ locked' = TRUE
  /\ pid' = p
  /\ inner' = Free
  /\ Goto(p, "owns")
  /\ UNCHANGED ptable

\* A sleep() that releases lk->lk without having taken ptable.lock.
SleepNoTable(p) ==
  /\ pc[p] = "test"
  /\ locked
  /\ inner' = Free
  /\ Goto(p, "sched")
  /\ UNCHANGED <<locked, pid, ptable>>

\* The lock is taken: sleep() acquires ptable.lock while it holds lk->lk ...
SleepLockTable(p) ==
  /\ pc[p] = "test"
  /\ locked
  /\ ptable = Free
  /\ ptable' = p
  /\ Goto(p, "unlock_lk")
  /\ UNCHANGED <<locked, pid, inner>>

\* ... releases lk->lk ...
SleepUnlock(p) ==
  /\ pc[p] = "unlock_lk"
  /\ inner' = Free
  /\ Goto(p, "sched")
  /\ UNCHANGED <<locked, pid, ptable>>

\* ... and sleeps; the scheduler releases ptable.lock.
FallAsleep(p) ==
  /\ pc[p] = "sched"
  /\ ptable' = Free
  /\ Goto(p, "asleep")
  /\ UNCHANGED <<locked, pid, inner>>

Release(p) ==
  /\ pc[p] = "owns"
  /\ inner = Free
  /\ inner' = p
  /\ locked' = FALSE
  /\ pid' = Free
  /\ Goto(p, "wake")
  /\ UNCHANGED ptable

\* A wakeup that wakes nobody.
WakesNobody(q) == FALSE

Wakes(q) == pc[q] = "asleep"

\* releasesleep wakes every sleeper before it releases lk->lk.
Wakeup(p) ==
  /\ pc[p] = "wake"
  /\ ptable = Free
  /\ pc' = [q \in Proc |-> IF q = p THEN "idle" ELSE IF Wakes(q) THEN "woken" ELSE pc[q]]
  /\ inner' = Free
  /\ UNCHANGED <<locked, pid, ptable>>

\* kill() makes a sleeper runnable, whatever it sleeps for.
Kill(p) ==
  /\ pc[p] = "asleep"
  /\ ptable = Free
  /\ Goto(p, "woken")
  /\ UNCHANGED <<locked, pid, inner, ptable>>

Inside(p) ==
  \/ Take(p) \/ SleepLockTable(p) \/ SleepUnlock(p) \/ FallAsleep(p) \/ Wakeup(p)

Next == \E p \in Proc : LockInner(p) \/ Inside(p) \/ Release(p) \/ Kill(p)

Spec == Init /\ [][Next]_vars

\* holdingsleep, by which brelse, bwrite and iunlock decide whether to panic.
Holdingsleep(p) == locked /\ pid = p

-----------------------------------------------------------------------------
\* Each field has its type, and a spin lock is held by the process that is at
\* a place in the code where it must be held.
TypeOK ==
  /\ locked \in BOOLEAN
  /\ pid \in Proc \cup {Free}
  /\ inner \in Proc \cup {Free}
  /\ ptable \in Proc \cup {Free}
  /\ pc \in [Proc -> PC]
  /\ \A p \in Proc : inner = p <=> pc[p] \in {"test", "unlock_lk", "wake"}
  /\ \A p \in Proc : ptable = p <=> pc[p] \in {"unlock_lk", "sched"}

\* holdingsleep tells a process whether it owns the lock, through sleeping,
\* kills and the owner's own release.
OwnerKnows == \A p \in Proc : Holdingsleep(p) <=> pc[p] = "owns"

\* No lost wakeup: nobody sleeps for a lock that is free, unless the process
\* that freed it is still in releasesleep and about to wake everybody.
NoLostWakeup ==
  (\E p \in Proc : pc[p] = "asleep") => locked \/ \E q \in Proc : pc[q] = "wake"

\* A free lock that somebody waits for is taken again.
WaitedFor == ~locked /\ \E p \in Proc : pc[p] \in {"test", "sched", "asleep", "woken"}
FreeLockTaken == WaitedFor ~> locked

\* A CPU is given to whoever is inside an operation; xchg hands lk->lk in
\* the end to a process that goes on trying; nobody is forced to begin.
Fairness ==
  \A p \in Proc :
    /\ WF_vars(Inside(p))
    /\ SF_vars(pc[p] = "woken" /\ LockInner(p))
    /\ SF_vars(SleepLockTable(p))
    /\ SF_vars(Wakeup(p))

FairSpec == Spec /\ Fairness

-----------------------------------------------------------------------------
\* The owner of the lock, for whoever has no business with its spin locks.
Owner == [l \in {"lk"} |-> IF locked THEN pid ELSE Free]

Abstract == INSTANCE Mutex WITH Lock <- {"lk"}, Agent <- Proc, Nobody <- Free, owner <- Owner
ImplementsMutex == Abstract!Spec
=============================================================================
