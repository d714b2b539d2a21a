------------------------------ MODULE ProcTable ------------------------------
(***************************************************************************)
(* Processes of OS-lab-xv6-lock: the process table, the scheduler of each  *)
(* CPU, fork, exit, wait, kill, sleep and wakeup, the timer interrupt and  *)
(* sys_sleep (proc.c, trap.c, sysproc.c), with the program of init         *)
(* (init.c), which the kernel relies on to reap orphans.                   *)
(*                                                                         *)
(* What a CPU does while it holds ptable.lock is one action, except where  *)
(* the lock is carried through swtch: a process that calls sched() keeps   *)
(* it, the scheduler goes on with it, and the process picked next gives it *)
(* back.  Steps taken without the lock are actions of their own.           *)
(***************************************************************************)
EXTENDS Integers, FiniteSets, FiniteSetsExt

CONSTANTS
  NPROC,      \* the size of the process table
  CPU,        \* the processors
  cpu0,       \* the one whose timer counts ticks
  NoCpu,      \* the holder of a free spin lock
  Calls,      \* the system calls that processes other than init make
  KillPids,   \* the pids they pass to kill
  SleepTicks, \* the durations they pass to sleep
  MaxPid,     \* bound: fork is not called once nextpid has passed it
  MaxTicks,   \* bound: the timer counts no further, and only wakes
  MayFail     \* TRUE: memory may run out

ASSUME ProcAssumption ==
  /\ NPROC \in Nat \ {0}
  /\ cpu0 \in CPU
  /\ NoCpu \notin CPU
  /\ Calls \subseteq {"fork", "exit", "wait", "kill", "sleep", "fault"}
  /\ KillPids \subseteq Nat
  /\ SleepTicks \subseteq Nat
  /\ MaxPid \in Nat
  /\ MaxTicks \in Nat
  /\ MayFail \in BOOLEAN

Slot == 1..NPROC
None == 0       \* no process: a null struct proc *
initproc == 1   \* userinit() finds the first slot free
TicksChan == NPROC + 1   \* &ticks; a process's own address is its slot

State == {"UNUSED", "EMBRYO", "SLEEPING", "RUNNABLE", "RUNNING", "ZOMBIE"}

\* Where a process is.  A process that has called sched() is at the point
\* where swtch will return to.
PC == {"user", "fork", "kstack", "copyuvm", "set_runnable", "exit",
       "wait", "woken_in_wait", "kill", "sleep", "enter_sleep",
       "woken_in_sleep", "test_again", "return", "forkret", "zombie"}

VARIABLES
  state, pid, parent, chan, killed, kstack,  \* struct proc
  pc,         \* where each process is
  np,         \* the slot its fork works on
  until,      \* its sys_sleep ends at this tick
  yielding,   \* it was descheduled by yield(), in a timer interrupt
  proc,       \* mycpu()->proc
  scan,       \* the scheduler's p, 0 outside its loop over the table
  switching,  \* its process has called sched() and not switched yet
  intr,       \* the timer interrupt: "off" or how far trap() has come
  panic,      \* the panic a CPU has stopped in
  ptlock,     \* the CPU that holds ptable.lock
  tickslock,  \* the CPU that holds tickslock
  ticks, nextpid,
  shell       \* init's variable pid: the shell it waits for

procvars == <<state, pid, parent, chan, killed, kstack>>
threadvars == <<pc, np, until, yielding>>
cpuvars == <<proc, scan, switching, intr, panic>>
lockvars == <<ptlock, tickslock>>
vars == <<procvars, threadvars, cpuvars, lockvars, ticks, nextpid, shell>>

\* After main(): init is ready to run and every CPU enters scheduler().
Init ==
  /\ state = [p \in Slot |-> IF p = initproc THEN "RUNNABLE" ELSE "UNUSED"]
  /\ pid = [p \in Slot |-> IF p = initproc THEN 1 ELSE 0]
  /\ parent = [p \in Slot |-> None]
  /\ chan = [p \in Slot |-> None]
  /\ killed = [p \in Slot |-> FALSE]
  /\ kstack = [p \in Slot |-> p = initproc]
  /\ pc = [p \in Slot |-> "forkret"]
  /\ np = [p \in Slot |-> None]
  /\ until = [p \in Slot |-> 0]
  /\ yielding = [p \in Slot |-> FALSE]
  /\ proc = [c \in CPU |-> None]
  /\ scan = [c \in CPU |-> 0]
  /\ switching = [c \in CPU |-> FALSE]
  /\ intr = [c \in CPU |-> "off"]
  /\ panic = [c \in CPU |-> "no"]
  /\ ptlock = NoCpu
  /\ tickslock = NoCpu
  /\ ticks = 0
  /\ nextpid = 2
  /\ shell = 0

-----------------------------------------------------------------------------
\* Process p runs on CPU c and is at this point.
On(c, p, here) ==
  /\ proc[c] = p /\ pc[p] = here /\ ~yielding[p]
  /\ ~switching[c] /\ intr[c] = "off" /\ panic[c] = "no"

Goto(p, there) == pc' = [pc EXCEPT ![p] = there]

Stop(c, message) == panic' = [panic EXCEPT ![c] = message]

\* acquire(&ptable.lock) succeeds, for a stretch that ends in release.
PtableFree == ptlock = NoCpu

\* ptable.lock stays with the CPU: the caller goes on into sched().
ReleaseEarly(c) == ptlock' = NoCpu
KeepPtable(c) == ptlock' = c

First(S) == IF S = {} THEN None ELSE Min(S)

\* wakeup1(ch): the table's states after it.
Wakeup1(ch, st) ==
  [q \in Slot |-> IF st[q] = "SLEEPING" /\ chan[q] = ch THEN "RUNNABLE" ELSE st[q]]

-----------------------------------------------------------------------------
\* scheduler(): take ptable.lock and start at the head of the table.
SchedAcquire(c) ==
  /\ proc[c] = None /\ scan[c] = 0 /\ intr[c] = "off" /\ panic[c] = "no"
  /\ PtableFree
  /\ ptlock' = c
  /\ scan' = [scan EXCEPT ![c] = 1]
  /\ UNCHANGED <<procvars, threadvars, proc, switching, intr, panic, tickslock, ticks, nextpid, shell>>

Runnable(c) == First({q \in scan[c]..NPROC : state[q] = "RUNNABLE"})

\* The table after the choice.
Picked(c) == [state EXCEPT ![Runnable(c)] = "RUNNING"]

\* Switch to the next runnable process; the lock goes with it.
SchedPick(c) ==
  /\ proc[c] = None /\ scan[c] # 0 /\ ptlock = c
  /\ Runnable(c) # None
  /\ proc' = [proc EXCEPT ![c] = Runnable(c)]
  /\ scan' = [scan EXCEPT ![c] = Runnable(c)]
  /\ state' = Picked(c)
  /\ UNCHANGED <<pid, parent, chan, killed, kstack, threadvars, switching, intr, panic, lockvars, ticks, nextpid, shell>>

\* The end of the table: release the lock and enable interrupts.
SchedRelease(c) ==
  /\ proc[c] = None /\ scan[c] # 0 /\ ptlock = c
  /\ Runnable(c) = None
  /\ ptlock' = NoCpu
  /\ scan' = [scan EXCEPT ![c] = 0]
  /\ UNCHANGED <<procvars, threadvars, proc, switching, intr, panic, tickslock, ticks, nextpid, shell>>

\* The locks a CPU holds: its ncli when it is in no call of acquire.
NLocks(c) == (IF ptlock = c THEN 1 ELSE 0) + (IF tickslock = c THEN 1 ELSE 0)

SchedPanic(c) ==
  IF ptlock # c THEN "sched_ptable_lock"
  ELSE IF NLocks(c) # 1 THEN "sched_locks"
  ELSE IF state[proc[c]] = "RUNNING" THEN "sched_running"
  ELSE "no"

\* The slot the scheduler looks at after p; wrong ones start over or skip.
NextAfterRestart(p) == 1
NextAfter(p) == p + 1

\* sched(): back to the scheduler, which looks at the next slot.
Sched(c) ==
  /\ switching[c] /\ panic[c] = "no"
  /\ IF SchedPanic(c) = "no"
     THEN /\ switching' = [switching EXCEPT ![c] = FALSE]
          /\ proc' = [proc EXCEPT ![c] = None]
          /\ scan' = [scan EXCEPT ![c] = NextAfter(proc[c])]
          /\ UNCHANGED panic
     ELSE Stop(c, SchedPanic(c)) /\ UNCHANGED <<switching, proc, scan>>
  /\ UNCHANGED <<procvars, threadvars, intr, lockvars, ticks, nextpid, shell>>

\* A new process starts in forkret(), which gives the lock back.
ForkRet(c, p) ==
  /\ On(c, p, "forkret") /\ ptlock = c
  /\ ptlock' = NoCpu
  /\ Goto(p, "user")
  /\ UNCHANGED <<procvars, np, until, yielding, cpuvars, tickslock, ticks, nextpid, shell>>

-----------------------------------------------------------------------------
\* The timer interrupt reaches a CPU that holds no lock.
Interruptible(c) ==
  /\ intr[c] = "off" /\ panic[c] = "no" /\ ~switching[c]
  /\ NLocks(c) = 0

\* CPU 0 counts a tick under tickslock (at the bound it only wakes) ...
Tick ==
  /\ Interruptible(cpu0)
  /\ tickslock = NoCpu
  /\ tickslock' = cpu0
  /\ ticks' = IF ticks < MaxTicks THEN ticks + 1 ELSE ticks
  /\ intr' = [intr EXCEPT ![cpu0] = "wakeup"]
  /\ UNCHANGED <<procvars, threadvars, proc, scan, switching, panic, ptlock, nextpid, shell>>

\* ... and wakes the processes that sleep on ticks.
TickWakeup ==
  /\ intr[cpu0] = "wakeup"
  /\ PtableFree
  /\ state' = Wakeup1(TicksChan, state)
  /\ tickslock' = NoCpu
  /\ intr' = [intr EXCEPT ![cpu0] = "tail"]
  /\ UNCHANGED <<pid, parent, chan, killed, kstack, threadvars, proc, scan, switching, panic, ptlock, ticks, nextpid, shell>>

\* Another CPU's timer only preempts.
Preempt(c) ==
  /\ Interruptible(c)
  /\ c # cpu0
  /\ intr' = [intr EXCEPT ![c] = "tail"]
  /\ UNCHANGED <<procvars, threadvars, proc, scan, switching, panic, lockvars, ticks, nextpid, shell>>

\* A fault in user code kills the process; trap() goes on as for any trap.
Fault(c, p) ==
  /\ On(c, p, "user")
  /\ "fault" \in Calls /\ p # initproc
  /\ killed' = [killed EXCEPT ![p] = TRUE]
  /\ intr' = [intr EXCEPT ![c] = "tail"]
  /\ UNCHANGED <<state, pid, parent, chan, kstack, threadvars, proc, scan, switching, panic, lockvars, ticks, nextpid, shell>>

\* Whether trap()'s tail makes p exit.
NobodyLeaves(p) == FALSE
MustLeave(p) == killed[p] /\ pc[p] = "user"

\* The tail of trap(): a killed process leaves from user space only,
TrapExit(c, p) ==
  /\ intr[c] = "tail" /\ proc[c] = p
  /\ MustLeave(p)
  /\ Goto(p, "exit")
  /\ intr' = [intr EXCEPT ![c] = "off"]
  /\ UNCHANGED <<procvars, np, until, yielding, proc, scan, switching, panic, lockvars, ticks, nextpid, shell>>

\* any other running process yields,
Yield(c, p) ==
  /\ intr[c] = "tail" /\ proc[c] = p
  /\ ~MustLeave(p)
  /\ state[p] = "RUNNING"
  /\ PtableFree
  /\ KeepPtable(c)
  /\ state' = [state EXCEPT ![p] = "RUNNABLE"]
  /\ yielding' = [yielding EXCEPT ![p] = TRUE]
  /\ switching' = [switching EXCEPT ![c] = TRUE]
  /\ intr' = [intr EXCEPT ![c] = "off"]
  /\ UNCHANGED <<pid, parent, chan, killed, kstack, pc, np, until, proc, scan, panic, tickslock, ticks, nextpid, shell>>

\* and the scheduler just goes on.
TrapReturn(c) ==
  /\ intr[c] = "tail" /\ proc[c] = None
  /\ intr' = [intr EXCEPT ![c] = "off"]
  /\ UNCHANGED <<procvars, threadvars, proc, scan, switching, panic, lockvars, ticks, nextpid, shell>>

\* yield() returns: release the lock, and leave if killed meanwhile.
YieldReturn(c, p) ==
  /\ proc[c] = p /\ yielding[p] /\ ~switching[c] /\ ptlock = c
  /\ ptlock' = NoCpu
  /\ yielding' = [yielding EXCEPT ![p] = FALSE]
  /\ pc' = IF MustLeave(p) THEN [pc EXCEPT ![p] = "exit"] ELSE pc
  /\ UNCHANGED <<procvars, np, until, cpuvars, tickslock, ticks, nextpid, shell>>

-----------------------------------------------------------------------------
\* What p calls next: init runs the loop of init.c, the others anything.
\* At the bound on pids nobody forks and init goes on waiting.
NextCalls(p) ==
  IF p # initproc THEN Calls \ (IF nextpid > MaxPid THEN {"fault", "fork"} ELSE {"fault"})
  ELSE IF shell = -1 THEN {"exit"}
  ELSE IF shell = 0 /\ nextpid <= MaxPid THEN {"fork"}
  ELSE {"wait"}

\* trap() for a system call, up to the call's first step.
Syscall(c, p) ==
  /\ On(c, p, "user")
  /\ \E call \in IF killed[p] THEN {"exit"} ELSE NextCalls(p) : Goto(p, call)
  /\ UNCHANGED <<procvars, np, until, yielding, cpuvars, lockvars, ticks, nextpid, shell>>

\* Its end.
Return(c, p) ==
  /\ On(c, p, "return")
  /\ Goto(p, IF killed[p] THEN "exit" ELSE "user")
  /\ UNCHANGED <<procvars, np, until, yielding, cpuvars, lockvars, ticks, nextpid, shell>>

\* init's variables after fork and after wait.
InitForked(p, result) == shell' = IF p = initproc THEN result ELSE shell
InitReaped(p, result) == shell' = IF p = initproc /\ result \in {shell, -1} THEN 0 ELSE shell

Unused == First({q \in Slot : state[q] = "UNUSED"})

\* allocproc(): claim a slot and a pid,
AllocSlot(c, p) ==
  /\ On(c, p, "fork") /\ PtableFree
  /\ IF Unused = None
     THEN /\ Goto(p, "return")
          /\ InitForked(p, -1)
          /\ UNCHANGED <<state, pid, np, nextpid>>
     ELSE /\ state' = [state EXCEPT ![Unused] = "EMBRYO"]
          /\ pid' = [pid EXCEPT ![Unused] = nextpid]
          /\ nextpid' = nextpid + 1
          /\ np' = [np EXCEPT ![p] = Unused]
          /\ Goto(p, "kstack")
          /\ UNCHANGED shell
  /\ UNCHANGED <<parent, chan, killed, kstack, until, yielding, cpuvars, lockvars, ticks>>

\* then a kernel stack, in which the new thread starts at forkret;
AllocStack(c, p) ==
  /\ On(c, p, "kstack")
  /\ kstack' = [kstack EXCEPT ![np[p]] = TRUE]
  /\ pc' = [pc EXCEPT ![p] = "copyuvm", ![np[p]] = "forkret"]
  /\ UNCHANGED <<state, pid, parent, chan, killed, np, until, yielding, cpuvars, lockvars, ticks, nextpid, shell>>

\* fork() then copies the address space: the slot has its parent.
CopyUvm(c, p) ==
  /\ On(c, p, "copyuvm")
  /\ parent' = [parent EXCEPT ![np[p]] = p]
  /\ Goto(p, "set_runnable")
  /\ UNCHANGED <<state, pid, chan, killed, kstack, np, until, yielding, cpuvars, lockvars, ticks, nextpid, shell>>

\* Without memory for either, the slot is UNUSED again, which takes no lock.
ForkFails(c, p) ==
  /\ MayFail
  /\ On(c, p, "kstack") \/ On(c, p, "copyuvm")
  /\ state' = [state EXCEPT ![np[p]] = "UNUSED"]
  /\ kstack' = [kstack EXCEPT ![np[p]] = FALSE]
  /\ np' = [np EXCEPT ![p] = None]
  /\ InitForked(p, -1)
  /\ Goto(p, "return")
  /\ UNCHANGED <<pid, parent, chan, killed, until, yielding, cpuvars, lockvars, ticks, nextpid>>

SetRunnable(c, p) ==
  /\ On(c, p, "set_runnable") /\ PtableFree
  /\ state' = [state EXCEPT ![np[p]] = "RUNNABLE"]
  /\ InitForked(p, pid[np[p]])
  /\ np' = [np EXCEPT ![p] = None]
  /\ Goto(p, "return")
  /\ UNCHANGED <<pid, parent, chan, killed, kstack, until, yielding, cpuvars, lockvars, ticks, nextpid>>

-----------------------------------------------------------------------------
InitExits(c) ==
  /\ On(c, initproc, "exit")
  /\ Stop(c, "init_exiting")
  /\ UNCHANGED <<procvars, threadvars, proc, scan, switching, intr, lockvars, ticks, nextpid, shell>>

Children(p) == {q \in Slot : parent[q] = p}

\* Whose parent is init after p's exit; a wrong exit forgets its children.
ForgetChildren(p) == parent
PassChildren(p) == [q \in Slot |-> IF parent[q] = p THEN initproc ELSE parent[q]]

\* The processes that exit wakes: those in wait() for p, and init when it
\* inherits a zombie; a wrong exit forgets the first.
WakeAdopterOnly(p) ==
  IF \E q \in Children(p) : state[q] = "ZOMBIE" THEN Wakeup1(initproc, state) ELSE state
WakeForExit(p) ==
  LET woken == Wakeup1(parent[p], state) IN
    IF \E q \in Children(p) : state[q] = "ZOMBIE" THEN Wakeup1(initproc, woken) ELSE woken

\* exit(): wake the parent, give the children to init, become a zombie and
\* call sched() with ptable.lock.  What follows, panic("zombie exit"), is the
\* dead end "zombie" here: ZombiesReaped says that nobody stays there.
Exit(c, p) ==
  /\ On(c, p, "exit") /\ p # initproc /\ PtableFree
  /\ KeepPtable(c)
  /\ parent' = PassChildren(p)
  /\ state' = [WakeForExit(p) EXCEPT ![p] = "ZOMBIE"]
  /\ Goto(p, "zombie")
  /\ switching' = [switching EXCEPT ![c] = TRUE]
  /\ UNCHANGED <<pid, chan, killed, kstack, np, until, yielding, proc, scan, intr, panic, tickslock, ticks, nextpid, shell>>

\* wait(): the scan that starts with acquire, or again after sleep().
Scans(c, p) == (On(c, p, "wait") /\ PtableFree) \/ (On(c, p, "woken_in_wait") /\ ptlock = c)

Zombie(p) == First({q \in Children(p) : state[q] = "ZOMBIE"})

\* It reaps the first zombie child,
Reap(c, p) ==
  /\ Scans(c, p)
  /\ LET q == Zombie(p) IN
       /\ q # None
       /\ InitReaped(p, pid[q])
       /\ state' = [state EXCEPT ![q] = "UNUSED"]
       /\ pid' = [pid EXCEPT ![q] = 0]
       /\ parent' = [parent EXCEPT ![q] = None]
       /\ killed' = [killed EXCEPT ![q] = FALSE]
       /\ kstack' = [kstack EXCEPT ![q] = FALSE]
  /\ chan' = [chan EXCEPT ![p] = None]
  /\ ptlock' = NoCpu
  /\ Goto(p, "return")
  /\ UNCHANGED <<np, until, yielding, cpuvars, tickslock, ticks, nextpid>>

\* or finds nothing to wait for,
NoChildren(c, p) ==
  /\ Scans(c, p)
  /\ Zombie(p) = None
  /\ Children(p) = {} \/ killed[p]
  /\ InitReaped(p, -1)
  /\ chan' = [chan EXCEPT ![p] = None]
  /\ ptlock' = NoCpu
  /\ Goto(p, "return")
  /\ UNCHANGED <<state, pid, parent, killed, kstack, np, until, yielding, cpuvars, tickslock, ticks, nextpid>>

\* or sleeps on itself, keeping ptable.lock.
WaitSleep(c, p) ==
  /\ Scans(c, p)
  /\ Zombie(p) = None
  /\ Children(p) # {} /\ ~killed[p]
  /\ KeepPtable(c)
  /\ chan' = [chan EXCEPT ![p] = p]
  /\ state' = [state EXCEPT ![p] = "SLEEPING"]
  /\ Goto(p, "woken_in_wait")
  /\ switching' = [switching EXCEPT ![c] = TRUE]
  /\ UNCHANGED <<pid, parent, killed, kstack, np, until, yielding, proc, scan, intr, panic, tickslock, ticks, nextpid, shell>>

-----------------------------------------------------------------------------
\* kill(n): the first slot with that pid, whatever its state.
KillTarget(n) == First({q \in Slot : pid[q] = n})

\* kill() wakes a sleeper; a wrong one only marks it.
StaysAsleep(q) == state[q]
Unslept(q) == IF state[q] = "SLEEPING" THEN "RUNNABLE" ELSE state[q]

Kill(c, p) ==
  /\ On(c, p, "kill") /\ PtableFree
  /\ \E n \in KillPids :
       LET q == KillTarget(n) IN
         IF q = None THEN UNCHANGED <<killed, state>>
         ELSE /\ killed' = [killed EXCEPT ![q] = TRUE]
              /\ state' = [state EXCEPT ![q] = Unslept(q)]
  /\ Goto(p, "return")
  /\ UNCHANGED <<pid, parent, chan, kstack, np, until, yielding, cpuvars, lockvars, ticks, nextpid, shell>>

\* sys_sleep(n): read ticks under tickslock, and the loop's first test; the
\* tests after a sleep are the same with ticks0 as it was.
SleepLoop(c, p, end) ==
  /\ until' = [until EXCEPT ![p] = end]
  /\ IF ticks < end /\ ~killed[p]
     THEN tickslock' = c /\ Goto(p, "enter_sleep")
     ELSE UNCHANGED tickslock /\ Goto(p, "return")

SysSleep(c, p) ==
  /\ On(c, p, "sleep") /\ tickslock = NoCpu
  /\ \E n \in SleepTicks : SleepLoop(c, p, ticks + n)
  /\ UNCHANGED <<procvars, np, yielding, cpuvars, ptlock, ticks, nextpid, shell>>

\* sleep() gives up the caller's lock; a wrong one forgets to.
KeepLk == UNCHANGED tickslock
ReleaseLk == tickslock' = NoCpu

\* sleep(&ticks, &tickslock): get ptable.lock, then give tickslock up.
Sleep(c, p) ==
  /\ On(c, p, "enter_sleep") /\ tickslock = c /\ PtableFree
  /\ KeepPtable(c)
  /\ ReleaseLk
  /\ chan' = [chan EXCEPT ![p] = TicksChan]
  /\ state' = [state EXCEPT ![p] = "SLEEPING"]
  /\ Goto(p, "woken_in_sleep")
  /\ switching' = [switching EXCEPT ![c] = TRUE]
  /\ UNCHANGED <<pid, parent, killed, kstack, np, until, yielding, proc, scan, intr, panic, ticks, nextpid, shell>>

Woken(c, p) ==
  /\ On(c, p, "woken_in_sleep") /\ ptlock = c
  /\ chan' = [chan EXCEPT ![p] = None]
  /\ ptlock' = NoCpu
  /\ Goto(p, "test_again")
  /\ UNCHANGED <<state, pid, parent, killed, kstack, np, until, yielding, cpuvars, tickslock, ticks, nextpid, shell>>

TestAgain(c, p) ==
  /\ On(c, p, "test_again") /\ tickslock = NoCpu
  /\ SleepLoop(c, p, until[p])
  /\ UNCHANGED <<procvars, np, yielding, cpuvars, ptlock, ticks, nextpid, shell>>

-----------------------------------------------------------------------------
\* The steps of a system call, and those of the timer's trap.
Kernel(c, p) ==
  \/ Return(c, p) \/ AllocSlot(c, p) \/ AllocStack(c, p)
  \/ CopyUvm(c, p) \/ ForkFails(c, p) \/ SetRunnable(c, p) \/ Exit(c, p)
  \/ Reap(c, p) \/ NoChildren(c, p) \/ WaitSleep(c, p) \/ Kill(c, p)
  \/ SysSleep(c, p) \/ Sleep(c, p) \/ Woken(c, p) \/ TestAgain(c, p)

Trap(c, p) == TrapExit(c, p) \/ Yield(c, p) \/ YieldReturn(c, p)

Dispatch(c) ==
  \/ SchedPick(c) \/ SchedRelease(c) \/ Sched(c) \/ TrapReturn(c)
  \/ \E p \in Slot : ForkRet(c, p)

Next ==
  \/ Tick \/ TickWakeup
  \/ \E c \in CPU :
       \/ SchedAcquire(c) \/ Dispatch(c) \/ Preempt(c) \/ InitExits(c)
       \/ \E p \in Slot : Kernel(c, p) \/ Trap(c, p) \/ Syscall(c, p) \/ Fault(c, p)

Spec == Init /\ [][Next]_vars

\* Every CPU goes on with a trap or a switch, its scheduler and its timer get
\* their turn, and so does the thread of each process, wherever it runs: of
\* those that want a lock one gets it, but xchg fails nobody for ever, and a
\* timer period is much longer than a step.  Nothing makes a process call
\* anything but init, whose loop it is.
GoesOn(c) == Dispatch(c) \/ (c = cpu0 /\ TickWakeup) \/ \E p \in Slot : Trap(c, p)
Timer(c) == Preempt(c) \/ (c = cpu0 /\ Tick)
Thread(p) ==
  \E c \in CPU : Kernel(c, p) \/ (p = initproc /\ (Syscall(c, p) \/ InitExits(c)))

Fairness ==
  /\ \A c \in CPU : SF_vars(GoesOn(c)) /\ SF_vars(SchedAcquire(c)) /\ SF_vars(Timer(c))
  /\ \A p \in Slot : SF_vars(Thread(p))

FairSpec == Spec /\ Fairness

-----------------------------------------------------------------------------
Exists(p) == state[p] \notin {"UNUSED", "EMBRYO"}

\* Each variable has its type; the kernel stops for nothing but init's exit
\* (none of sched's panics is reached); and every process but init has a
\* parent that can still wait for it, whoever exits in whatever order.
TypeOK ==
  /\ state \in [Slot -> State]
  /\ pid \in [Slot -> Nat]
  /\ parent \in [Slot -> Slot \cup {None}]
  /\ chan \in [Slot -> Slot \cup {None, TicksChan}]
  /\ killed \in [Slot -> BOOLEAN]
  /\ kstack \in [Slot -> BOOLEAN]
  /\ pc \in [Slot -> PC]
  /\ np \in [Slot -> Slot \cup {None}]
  /\ until \in [Slot -> Nat]
  /\ yielding \in [Slot -> BOOLEAN]
  /\ proc \in [CPU -> Slot \cup {None}]
  /\ scan \in [CPU -> 0..NPROC + 1]
  /\ switching \in [CPU -> BOOLEAN]
  /\ intr \in [CPU -> {"off", "wakeup", "tail"}]
  /\ panic \in [CPU -> {"no", "init_exiting"}]
  /\ ptlock \in CPU \cup {NoCpu}
  /\ tickslock \in CPU \cup {NoCpu}
  /\ ticks \in Nat
  /\ nextpid \in Nat
  /\ shell \in Nat \cup {-1}
  /\ \A p \in Slot : Exists(p) /\ p # initproc =>
       parent[p] # None /\ Exists(parent[p]) /\ state[parent[p]] # "ZOMBIE"

\* A process runs on one CPU at most, on a stack that nobody has freed: the
\* lock held through swtch keeps wait() away from an exiting process, and a
\* free slot leaves no stack behind.  The table says RUNNING for exactly the
\* processes CPUs run, except while one is on its way to the scheduler.
RunsOnItsStack ==
  /\ \A c \in CPU : proc[c] # None =>
       /\ kstack[proc[c]]
       /\ \A d \in CPU : proc[d] = proc[c] => d = c
  /\ \A p \in Slot :
       /\ state[p] = "UNUSED" => ~kstack[p]
       /\ state[p] = "RUNNING" <=> \E c \in CPU : proc[c] = p /\ ~switching[c]

\* "Once we hold ptable.lock, we can be guaranteed that we won't miss any
\* wakeup": whenever the lock is free, no parent sleeps in wait() over a
\* zombie child, its own or one it adopted.
NoLostExit ==
  PtableFree => \A p \in Slot :
    state[p] = "SLEEPING" /\ chan[p] = p =>
      \A q \in Children(p) : state[q] # "ZOMBIE"

\* The same of sys_sleep and the timer, which meet under two locks: nobody
\* sleeps past its time once the tick is through.
NoOversleep ==
  PtableFree /\ tickslock = NoCpu => \A p \in Slot :
    state[p] = "SLEEPING" /\ chan[p] = TicksChan => ticks < until[p]

\* sleep() and wakeup() lose nothing, neither an exit nor a tick.
NoLostWakeup == NoLostExit /\ NoOversleep

\* Nor a kill: wait() tests killed under the lock that kill() takes, and
\* sys_sleep does not, so that a process killed after its test does sleep --
\* but only for a tick, which comes (NoOversleep), and never for a child.
KilledSleepsForTick ==
  \A p \in Slot : killed[p] /\ state[p] = "SLEEPING" => chan[p] = TicksChan

\* init runs, unless its fork found no memory or no slot.
InitRuns == \A c \in CPU : panic[c] # "init_exiting"

\* The scheduler's promise: a process that can run gets to run,
RunnableRuns ==
  \A p \in Slot : state[p] = "RUNNABLE" ~> state[p] = "RUNNING" \/ ~InitRuns

\* a killed one leaves, from user code or any call: also one that was killed in
\* sys_sleep before its test of killed, or asleep in it.  (Only another CPU can
\* kill it between the test and the sleep: KilledSleepsForTick and NoOversleep
\* say of that case that the next tick lets it go on to its test again.)
KilledLeaves ==
  \A p \in Slot \ {initproc} :
    killed[p] /\ Exists(p) ~> state[p] \in {"ZOMBIE", "UNUSED"} \/ ~InitRuns

\* and no zombie stays one whose parent is init or has left (as long as init
\* runs): exit() passes it to init and wakes init for it.
Orphan(p) == parent[p] = initproc \/ state[parent[p]] \in {"ZOMBIE", "UNUSED"}
ZombiesReaped ==
  \A p \in Slot :
    state[p] = "ZOMBIE" /\ Orphan(p) ~> state[p] = "UNUSED" \/ ~InitRuns
=============================================================================
