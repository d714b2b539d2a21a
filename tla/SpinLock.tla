------------------------------ MODULE SpinLock ------------------------------
(***************************************************************************)
(* The spin locks of OS-lab-xv6-lock/spinlock.c, with the lab's change: a  *)
(* lock whose pid was set by setLockPid may be acquired again by the       *)
(* process that holds it.                                                  *)
(*                                                                         *)
(* Every CPU has two contexts: the kernel thread it was running ("base")   *)
(* and the interrupt handler that may run on top of it ("intr").  A step   *)
(* of acquire or release that another CPU or an interrupt can observe is   *)
(* an action of its own; what runs with interrupts off and touches only    *)
(* the CPU's own state belongs to the action before it.  Clients take      *)
(* locks in the order LockRank gives, the kernel's discipline, and a       *)
(* handler holds one lock of IntrLock at a time, as trap() does tickslock. *)
(***************************************************************************)
EXTENDS Integers, FiniteSets

CONSTANTS
  CPU,       \* the processors
  Lock,      \* the spin locks
  IntrLock,  \* the locks an interrupt handler may take
  Pid,       \* process ids
  NoPid,     \* the pid initlock puts in a lock (-1)
  NoCpu,     \* the null cpu pointer
  NoLock,    \* the lock argument of a context that is in no call
  myPid,     \* the process each CPU runs while it holds locks
  lockPid,   \* the pid in each lock, as initlock or setLockPid left it
  LockRank,  \* the order in which nested locks are taken
  MaxDepth,  \* how often a lock is taken again (recursionLock stops at 5)
  Careless   \* the CPUs whose threads call acquire and release on any lock

ASSUME LockAssumption ==
  /\ IsFiniteSet(Lock)
  /\ IntrLock \subseteq Lock
  /\ NoPid \notin Pid
  /\ NoCpu \notin CPU
  /\ NoLock \notin Lock
  /\ myPid \in [CPU -> Pid]
  /\ lockPid \in [Lock -> Pid \cup {NoPid}]
  /\ LockRank \in [Lock -> Nat]
  /\ MaxDepth \in Nat
  /\ Careless \subseteq CPU

Context == {"base", "intr"}

\* Where a context is: in its own code ("run"), at a step of acquire or of
\* release, halted by panic, or, for a handler, not active ("off").
PC == {"run", "off", "panicAcquire", "panicRelease",
       "pushcli", "locked?", "cpu?", "xchg", "setcpu",
       "holding?", "clearcpu", "unlock", "popcli"}

VARIABLES
  locked,   \* lk->locked
  cpu,      \* lk->cpu
  ncli,     \* depth of pushcli nesting of each CPU
  intena,   \* were interrupts enabled before the outermost pushcli
  FL_IF,    \* the CPU's interrupt flag
  pc,       \* where each context is
  lk,       \* the lock its call is about
  eflags,   \* the interrupt flag pushcli read before cli
  held,     \* the locks a context has won and not given back
  depth     \* times the base context has taken a held lock again

vars == <<locked, cpu, ncli, intena, FL_IF, pc, lk, eflags, held, depth>>

Init ==
  /\ locked = [l \in Lock |-> FALSE]
  /\ cpu = [l \in Lock |-> NoCpu]
  /\ ncli = [c \in CPU |-> 0]
  /\ intena = [c \in CPU |-> FALSE]
  /\ FL_IF = [c \in CPU |-> TRUE]
  /\ pc = [c \in CPU |-> [k \in Context |-> IF k = "base" THEN "run" ELSE "off"]]
  /\ lk = [c \in CPU |-> [k \in Context |-> NoLock]]
  /\ eflags = [c \in CPU |-> [k \in Context |-> FALSE]]
  /\ held = [c \in CPU |-> [k \in Context |-> {}]]
  /\ depth = [c \in CPU |-> 0]

-----------------------------------------------------------------------------
\* The interrupted context waits while the handler runs.
Runs(c, k) == k = "base" => pc[c]["intr"] = "off"

At(c, k, here) == Runs(c, k) /\ pc[c][k] = here
Goto(c, k, there) == pc' = [pc EXCEPT ![c][k] = there]

\* What a client asks for: locks in rank order, or a held lock of its own
\* once more, unless it is careless.
MayNest(c, k, l) ==
  IF k = "intr"
  THEN l \in IntrLock /\ held[c][k] = {}
  ELSE \/ \A h \in held[c][k] : LockRank[h] < LockRank[l]
       \/ l \in held[c][k] /\ lockPid[l] = myPid[c] /\ depth[c] < MaxDepth
       \/ c \in Careless /\ (l \in held[c][k] => lockPid[l] # myPid[c])

\* acquire(l), up to readeflags() in pushcli.
Acquire(c, k, l) ==
  /\ At(c, k, "run")
  /\ MayNest(c, k, l)
  /\ lk' = [lk EXCEPT ![c][k] = l]
  /\ eflags' = [eflags EXCEPT ![c][k] = FL_IF[c]]
  /\ Goto(c, k, "pushcli")
  /\ UNCHANGED <<locked, cpu, ncli, intena, FL_IF, held, depth>>

\* A pushcli that saves the flag at every level, over the outermost one's.
SavedIFAlways(c, k) == eflags[c][k]

\* What the outermost pushcli saves.
SavedIF(c, k) == IF ncli[c] = 0 THEN eflags[c][k] ELSE intena[c]

\* cli() and the rest of pushcli.
PushCli(c, k) ==
  /\ At(c, k, "pushcli")
  /\ FL_IF' = [FL_IF EXCEPT ![c] = FALSE]
  /\ intena' = [intena EXCEPT ![c] = SavedIF(c, k)]
  /\ ncli' = [ncli EXCEPT ![c] = @ + 1]
  /\ eflags' = [eflags EXCEPT ![c][k] = FALSE]
  /\ Goto(c, k, "locked?")
  /\ UNCHANGED <<locked, cpu, lk, held, depth>>

\* A popcli that runs one level too far.
PopCliTwice(c) ==
  /\ ncli' = [ncli EXCEPT ![c] = @ - 2]
  /\ FL_IF' = [FL_IF EXCEPT ![c] = ncli[c] = 2 /\ intena[c]]

\* popcli with interrupts off: it enables them when the outermost pushcli
\* found them enabled.
DoPopCli(c) ==
  /\ ncli' = [ncli EXCEPT ![c] = @ - 1]
  /\ FL_IF' = [FL_IF EXCEPT ![c] = ncli[c] = 1 /\ intena[c]]

\* holding() reads lk->locked ...
ReadLocked(c, k) ==
  /\ At(c, k, "locked?")
  /\ Goto(c, k, IF locked[lk[c][k]] THEN "cpu?" ELSE "xchg")
  /\ UNCHANGED <<locked, cpu, ncli, intena, FL_IF, lk, eflags, held, depth>>

\* ... and then lk->cpu: not held by this CPU, so acquire spins for it,
NotHolding(c, k) ==
  /\ At(c, k, "cpu?")
  /\ cpu[lk[c][k]] # c
  /\ Goto(c, k, "xchg")
  /\ UNCHANGED <<locked, cpu, ncli, intena, FL_IF, lk, eflags, held, depth>>

\* held by this CPU and owned by its process: popcli undoes the pushcli,
Reenter(c, k) ==
  /\ At(c, k, "cpu?")
  /\ cpu[lk[c][k]] = c
  /\ lockPid[lk[c][k]] = myPid[c]
  /\ DoPopCli(c)
  /\ depth' = [depth EXCEPT ![c] = @ + 1]
  /\ Goto(c, k, "setcpu")
  /\ UNCHANGED <<locked, cpu, intena, lk, eflags, held>>

\* held by this CPU for anyone else: panic("acquire"), which stops the CPU.
PanicAcquire(c, k) ==
  /\ At(c, k, "cpu?")
  /\ cpu[lk[c][k]] = c
  /\ lockPid[lk[c][k]] # myPid[c]
  /\ Goto(c, k, "panicAcquire")
  /\ UNCHANGED <<locked, cpu, ncli, intena, FL_IF, lk, eflags, held, depth>>

\* An exchange that does not look at what it got back.
XchgAlwaysWins(l) == TRUE

XchgWins(l) == ~locked[l]

\* The xchg that finds 0 wins the lock; one that finds 1 changes nothing.
Xchg(c, k) ==
  /\ At(c, k, "xchg")
  /\ XchgWins(lk[c][k])
  /\ locked' = [locked EXCEPT ![lk[c][k]] = TRUE]
  /\ held' = [held EXCEPT ![c][k] = @ \cup {lk[c][k]}]
  /\ Goto(c, k, "setcpu")
  /\ UNCHANGED <<cpu, ncli, intena, FL_IF, lk, eflags, depth>>

\* lk->cpu = mycpu(), and acquire returns.
SetCpu(c, k) ==
  /\ At(c, k, "setcpu")
  /\ cpu' = [cpu EXCEPT ![lk[c][k]] = c]
  /\ lk' = [lk EXCEPT ![c][k] = NoLock]
  /\ Goto(c, k, "run")
  /\ UNCHANGED <<locked, ncli, intena, FL_IF, eflags, held, depth>>

-----------------------------------------------------------------------------
\* release(l): one call gives the lock back, however often it was taken.
Release(c, k, l) ==
  /\ At(c, k, "run")
  /\ l \in held[c][k] \/ (c \in Careless /\ k = "base")
  /\ lk' = [lk EXCEPT ![c][k] = l]
  /\ Goto(c, k, "holding?")
  /\ UNCHANGED <<locked, cpu, ncli, intena, FL_IF, eflags, held, depth>>

Holding(c, l) == locked[l] /\ cpu[l] = c

\* A release that counts nested acquires by CPU, not by lock.
ReturnWhileNested(c, k) ==
  /\ At(c, k, "holding?")
  /\ Holding(c, lk[c][k])
  /\ Goto(c, k, IF depth[c] > 0 THEN "run" ELSE "clearcpu")
  /\ UNCHANGED <<locked, cpu, ncli, intena, FL_IF, lk, eflags, held, depth>>

CheckHolding(c, k) ==
  /\ At(c, k, "holding?")
  /\ Holding(c, lk[c][k])
  /\ Goto(c, k, "clearcpu")
  /\ UNCHANGED <<locked, cpu, ncli, intena, FL_IF, lk, eflags, held, depth>>

\* panic("release"), whose cli() keeps handlers off this CPU too.
PanicRelease(c, k) ==
  /\ At(c, k, "holding?")
  /\ ~Holding(c, lk[c][k])
  /\ FL_IF' = [FL_IF EXCEPT ![c] = FALSE]
  /\ Goto(c, k, "panicRelease")
  /\ UNCHANGED <<locked, cpu, ncli, intena, lk, eflags, held, depth>>

\* A release that leaves its CPU in the lock.
KeepCpu(c, k) ==
  /\ At(c, k, "clearcpu")
  /\ Goto(c, k, "unlock")
  /\ UNCHANGED <<locked, cpu, ncli, intena, FL_IF, lk, eflags, held, depth>>

ClearCpu(c, k) ==
  /\ At(c, k, "clearcpu")
  /\ cpu' = [cpu EXCEPT ![lk[c][k]] = NoCpu]
  /\ Goto(c, k, "unlock")
  /\ UNCHANGED <<locked, ncli, intena, FL_IF, lk, eflags, held, depth>>

Unlock(c, k) ==
  /\ At(c, k, "unlock")
  /\ locked' = [locked EXCEPT ![lk[c][k]] = FALSE]
  /\ held' = [held EXCEPT ![c][k] = @ \ {lk[c][k]}]
  /\ depth' = IF lockPid[lk[c][k]] = myPid[c] THEN [depth EXCEPT ![c] = 0] ELSE depth
  /\ Goto(c, k, "popcli")
  /\ UNCHANGED <<cpu, ncli, intena, FL_IF, lk, eflags>>

PopCli(c, k) ==
  /\ At(c, k, "popcli")
  /\ DoPopCli(c)
  /\ lk' = [lk EXCEPT ![c][k] = NoLock]
  /\ Goto(c, k, "run")
  /\ UNCHANGED <<locked, cpu, intena, eflags, held, depth>>

-----------------------------------------------------------------------------
\* An interrupt is delivered while FL_IF is set; the gate clears it, and the
\* handler's return restores it.
Interrupt(c) ==
  /\ FL_IF[c]
  /\ pc[c]["intr"] = "off"
  /\ FL_IF' = [FL_IF EXCEPT ![c] = FALSE]
  /\ Goto(c, "intr", "run")
  /\ UNCHANGED <<locked, cpu, ncli, intena, lk, eflags, held, depth>>

IntrReturn(c) ==
  /\ pc[c]["intr"] = "run"
  /\ held[c]["intr"] = {}
  /\ FL_IF' = [FL_IF EXCEPT ![c] = TRUE]
  /\ Goto(c, "intr", "off")
  /\ UNCHANGED <<locked, cpu, ncli, intena, lk, eflags, held, depth>>

\* The steps a context takes once it is inside acquire or release.
Inside(c, k) ==
  \/ PushCli(c, k) \/ ReadLocked(c, k) \/ NotHolding(c, k) \/ Reenter(c, k)
  \/ PanicAcquire(c, k) \/ Xchg(c, k) \/ SetCpu(c, k)
  \/ CheckHolding(c, k) \/ PanicRelease(c, k) \/ ClearCpu(c, k)
  \/ Unlock(c, k) \/ PopCli(c, k)

Next ==
  \E c \in CPU :
    \/ \E k \in Context :
         Inside(c, k) \/ \E l \in Lock : Acquire(c, k, l) \/ Release(c, k, l)
    \/ Interrupt(c)
    \/ IntrReturn(c)

Spec == Init /\ [][Next]_vars

-----------------------------------------------------------------------------
\* Each variable has its type: the shape of spinlock.h and of struct cpu.
TypeOK ==
  /\ locked \in [Lock -> BOOLEAN]
  /\ cpu \in [Lock -> CPU \cup {NoCpu}]
  /\ ncli \in [CPU -> Nat]
  /\ intena \in [CPU -> BOOLEAN]
  /\ FL_IF \in [CPU -> BOOLEAN]
  /\ pc \in [CPU -> [Context -> PC]]
  /\ lk \in [CPU -> [Context -> Lock \cup {NoLock}]]
  /\ eflags \in [CPU -> [Context -> BOOLEAN]]
  /\ held \in [CPU -> [Context -> SUBSET Lock]]
  /\ depth \in [CPU -> Nat]

\* A lock that two contexts have won is the failure acquire() exists to
\* prevent, through any mix of spinning, taking again and the one release.
MutualExclusion ==
  \A c, d \in CPU, j, k \in Context :
    held[c][j] \cap held[d][k] # {} => c = d /\ j = k

\* The word xchg tests is set exactly while somebody has the lock.
LockedIffHeld ==
  \A l \in Lock : locked[l] <=> \E c \in CPU, k \in Context : l \in held[c][k]

\* holding() reads two words without a lock of its own; what it concludes
\* from them is never wrong, so neither panic("acquire") nor
\* panic("release") is reached by clients that follow the lock order, however
\* careless the other CPUs are.
NoPanic ==
  \A c \in CPU \ Careless, k \in Context : pc[c][k] \notin {"panicAcquire", "panicRelease"}

\* The pushcli of a call that has not (or no longer) got its lock.
Pending(c, k) ==
  IF pc[c][k] \in {"locked?", "cpu?", "xchg", "panicAcquire", "popcli"} THEN 1 ELSE 0

Level(c, k) == Cardinality(held[c][k]) + Pending(c, k)

\* "It takes two popcli to undo two pushcli": a CPU's nesting depth is the
\* number of locks it holds plus the calls under way, taking again included.
NcliCountsLocks ==
  \A c \in CPU : ncli[c] = Level(c, "base") + Level(c, "intr")

\* Interrupts are enabled exactly when the CPU is outside every pushcli and
\* outside the handler: acquire never leaves them on under a lock, and the
\* last release always turns them back on.
InterruptsRestored ==
  \A c \in CPU :
    FL_IF[c] <=> /\ ncli[c] = 0
                 /\ pc[c]["intr"] = "off"
                 /\ pc[c]["base"] # "panicRelease"

\* "disable interrupts to avoid deadlock": nothing ever spins for a lock that
\* its own CPU holds, neither a handler for the lock of the thread it
\* interrupted nor a thread for its own: that one panics or takes it again.
NoSelfDeadlock ==
  \A c \in CPU, j, k \in Context : pc[c][k] = "xchg" => lk[c][k] \notin held[c][j]

\* Whoever has a lock with no later lock in the order always gives it back,
\* even if xchg is unfair to the CPUs that spin for it.
LastLock == {l \in Lock : \A h \in Lock : LockRank[h] <= LockRank[l]}
LastLockFreed ==
  \A l \in LastLock, c \in CPU \ Careless, k \in Context :
    l \in held[c][k] ~> l \notin held[c][k]

\* A context inside a call keeps executing, a handler returns, and whoever
\* holds a lock releases it; nothing makes anyone acquire.
Fairness ==
  \A c \in CPU :
    /\ WF_vars(IntrReturn(c))
    /\ \A k \in Context :
         /\ WF_vars(Inside(c, k))
         /\ \A l \in Lock : WF_vars(Release(c, k, l))

FairSpec == Spec /\ Fairness

-----------------------------------------------------------------------------
Agent == CPU \X Context
Nobody == <<NoCpu, "off">>

\* Who has won each lock.
Owner ==
  [l \in Lock |->
    IF locked[l] THEN CHOOSE a \in Agent : l \in held[a[1]][a[2]] ELSE Nobody]

\* The spin lock is a mutex: taking a lock again and the interrupts are
\* steps the mutex does not see.
Abstract == INSTANCE Mutex WITH owner <- Owner
ImplementsMutex == Abstract!Spec
=============================================================================
