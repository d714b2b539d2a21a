--------------------------- MODULE ProcTable_proofs ---------------------------
(***************************************************************************)
(* Proofs about ProcTable, for any number of slots and CPUs and whatever   *)
(* system calls the processes make.  The invariant says which CPU is in a  *)
(* critical section of ptable.lock (also the one carried through swtch)    *)
(* and of tickslock, which process each CPU runs, where a process that     *)
(* does not run stands, which slots fork() works on, who is whose parent,  *)
(* and that no sleeper has an event behind it.                             *)
(***************************************************************************)
EXTENDS ProcTable, WellFoundedInduction, TLAPS

\* The points at which a process that is not interrupted has ptable.lock when
\* it runs, and the ones inside fork with a new slot.
Resumes == {"forkret", "woken_in_wait", "woken_in_sleep"}
Forks == {"kstack", "copyuvm", "set_runnable"}

\* CPU c is in a critical section of ptable.lock, or of tickslock.
InPtable(c) ==
  \/ proc[c] = None /\ scan[c] # 0
  \/ switching[c]
  \/ proc[c] # None /\ (yielding[proc[c]] \/ pc[proc[c]] \in Resumes)
AtSleep(c) == proc[c] # None /\ pc[proc[c]] = "enter_sleep"
InTicks(c) == intr[c] = "wakeup" \/ AtSleep(c)

Types ==
  /\ state \in [Slot -> State]
  /\ pid \in [Slot -> Nat]
  /\ parent \in [Slot -> Slot \cup {None}]
  /\ chan \in [Slot -> Slot \cup {None, TicksChan}]
  /\ killed \in [Slot -> BOOLEAN]
  /\ kstack \in [Slot -> BOOLEAN]
  /\ pc \in [Slot -> PC]
  /\ np \in [Slot -> Slot \cup {None}]
  /\ until \in [Slot -> Nat]
  /\ yielding \in [Slot -> BOOLEAN]
  /\ proc \in [CPU -> Slot \cup {None}]
  /\ scan \in [CPU -> 0..NPROC + 1]
  /\ switching \in [CPU -> BOOLEAN]
  /\ intr \in [CPU -> {"off", "wakeup", "tail"}]
  /\ panic \in [CPU -> {"no", "init_exiting"}]
  /\ ptlock \in CPU \cup {NoCpu}
  /\ tickslock \in CPU \cup {NoCpu}
  /\ ticks \in Nat
  /\ nextpid \in Nat
  /\ shell \in Nat \cup {-1}

Locks ==
  \A c \in CPU :
    /\ ptlock = c <=> InPtable(c)
    /\ tickslock = c <=> InTicks(c)
    /\ intr[c] # "off" => ~InPtable(c) /\ ~AtSleep(c)
    /\ intr[c] = "wakeup" => c = cpu0
    /\ switching[c] => intr[c] = "off" /\ ~InTicks(c)

Running ==
  /\ \A c, d \in CPU : proc[c] # None /\ proc[c] = proc[d] => c = d
  /\ \A c \in CPU : switching[c] => proc[c] # None /\ state[proc[c]] \in {"RUNNABLE", "SLEEPING", "ZOMBIE"}
  /\ \A c \in CPU : proc[c] # None /\ ~switching[c] => state[proc[c]] = "RUNNING"
  /\ \A p \in Slot : state[p] = "RUNNING" => \E c \in CPU : proc[c] = p /\ ~switching[c]

Points ==
  \A p \in Slot :
    /\ state[p] \in {"SLEEPING", "RUNNABLE"} => yielding[p] \/ pc[p] \in Resumes
    /\ state[p] \notin {"RUNNABLE", "RUNNING"} => ~yielding[p] /\ np[p] = None
    /\ yielding[p] => pc[p] \notin Resumes \cup {"enter_sleep"}
    /\ pc[p] = "enter_sleep" => state[p] = "RUNNING" /\ ticks < until[p]
    /\ killed[p] /\ state[p] = "SLEEPING" => chan[p] = TicksChan

Forking ==
  /\ \A p, q \in Slot : np[p] # None /\ np[p] = np[q] => p = q
  /\ \A p \in Slot : np[p] # None <=> pc[p] \in Forks
  /\ \A p \in Slot : np[p] # None =>
       /\ state[np[p]] = "EMBRYO"
       /\ pc[p] \in {"kstack", "copyuvm"} => parent[np[p]] = None
       /\ pc[p] = "set_runnable" => parent[np[p]] = p
       /\ pc[p] # "kstack" => kstack[np[p]] /\ pc[np[p]] = "forkret"

Families ==
  /\ Exists(initproc) /\ state[initproc] # "ZOMBIE" /\ parent[initproc] = None
  /\ \A p \in Slot :
       /\ parent[p] # p
       /\ Exists(p) => kstack[p]
       /\ state[p] = "UNUSED" => ~kstack[p] /\ parent[p] = None
       /\ Exists(p) /\ p # initproc =>
            parent[p] # None /\ Exists(parent[p]) /\ state[parent[p]] # "ZOMBIE"

Exits ==
  \A p \in Slot : state[p] = "SLEEPING" /\ chan[p] = p =>
    \A q \in Children(p) : state[q] # "ZOMBIE"

Sleepers ==
  intr[cpu0] # "wakeup" => \A p \in Slot :
    state[p] = "SLEEPING" /\ chan[p] = TicksChan => ticks < until[p]

IInv == Types /\ Locks /\ Running /\ Points /\ Forking /\ Families /\ Exits /\ Sleepers

-----------------------------------------------------------------------------
\* The loops over the table take the first slot of a set: a nonempty set of
\* slots has one.
LEMMA HasMin ==
  ASSUME NEW S \in SUBSET Nat, S # {}
  PROVE  Min(S) \in S
<1> DEFINE Less == {ss \in Nat \X Nat : ss[1] < ss[2]}
<1>1. IsWellFoundedOn(Less, Nat)
  BY NatLessThanWellFounded DEF OpToRel
<1> HIDE DEF Less
<1>2. PICK x \in S : \A y \in S : ~(<<y, x>> \in Less)
  BY <1>1, WFMin
<1>3. ASSUME NEW y \in S PROVE x <= y
  <2>1. x \in Nat /\ y \in Nat /\ ~(<<y, x>> \in Less)
    BY <1>2
  <2>2. ~(y < x)
    BY <2>1 DEF Less
  <2> QED
    BY <2>1, <2>2
<1> QED
  BY <1>3 DEF Min

LEMMA FirstIs ==
  ASSUME NEW S \in SUBSET Slot
  PROVE  /\ First(S) = None <=> S = {}
         /\ S # {} => First(S) \in S
<1>1. Slot \subseteq Nat /\ None \notin Slot
  BY ProcAssumption DEF ProcAssumption, Slot, None
<1>2. S # {} => Min(S) \in S
  BY <1>1, HasMin
<1> QED
  BY <1>1, <1>2 DEF First

\* The names for no process, no CPU and &ticks are nobody's.
LEMMA Names ==
  /\ None \notin Slot /\ initproc \in Slot /\ TicksChan \notin Slot /\ TicksChan # None
  /\ NoCpu \notin CPU /\ cpu0 \in CPU
BY ProcAssumption DEF ProcAssumption, Slot, None, initproc, TicksChan

\* What the loops find: a free slot (allocproc), a zombie child (wait), a
\* runnable process (scheduler), the target of kill.
LEMMA UnusedIs == Unused = None \/ (Unused \in Slot /\ state[Unused] = "UNUSED")
BY FirstIs DEF Unused

LEMMA ZombieIs ==
  ASSUME NEW p \in Slot
  PROVE  /\ Zombie(p) = None => \A q \in Children(p) : state[q] # "ZOMBIE"
         /\ Zombie(p) # None =>
              Zombie(p) \in Slot /\ parent[Zombie(p)] = p /\ state[Zombie(p)] = "ZOMBIE"
<1> DEFINE S == {q \in Children(p) : state[q] = "ZOMBIE"}
<1>1. S \in SUBSET Slot
  BY DEF Children
<1>2. Zombie(p) = First(S)
  BY DEF Zombie
<1>3. S # {} => Zombie(p) \in S
  BY <1>1, <1>2, FirstIs
<1>4. S = {} => Zombie(p) = None
  BY <1>1, <1>2, FirstIs
<1> QED
  BY <1>1, <1>2, <1>3, <1>4, FirstIs DEF Children

LEMMA RunnableIs ==
  ASSUME Types, NEW c \in CPU, scan[c] # 0, Runnable(c) # None
  PROVE  Runnable(c) \in Slot /\ state[Runnable(c)] = "RUNNABLE"
<1>1. {q \in scan[c]..NPROC : state[q] = "RUNNABLE"} \in SUBSET Slot
  BY ProcAssumption DEF ProcAssumption, Types, Slot
<1> QED
  BY <1>1, FirstIs DEF Runnable

LEMMA KillTargetIs ==
  ASSUME NEW n
  PROVE  KillTarget(n) = None \/ KillTarget(n) \in Slot
BY FirstIs DEF KillTarget

\* The slot that fork works on belongs to no other fork, is not the caller's
\* and runs nowhere.
LEMMA ForkChildIs ==
  ASSUME Types, Running, Forking, Families, NEW p \in Slot, pc[p] \in Forks, state[p] = "RUNNING"
  PROVE  /\ np[p] \in Slot /\ state[np[p]] = "EMBRYO" /\ np[p] # p /\ np[p] # initproc
         /\ \A d \in CPU : proc[d] # np[p]
         /\ \A q \in Slot : q # p => np[q] # np[p]
<1>1. np[p] # None /\ np[p] \in Slot
  BY DEF Forking, Types
<1>2. state[np[p]] = "EMBRYO"
  BY <1>1 DEF Forking
<1>3. np[p] # p
  BY <1>2
<1>4. np[p] # initproc
  BY <1>2 DEF Families, Exists
<1>5. \A d \in CPU : proc[d] # np[p]
  BY <1>1, <1>2 DEF Running
<1>6. \A q \in Slot : q # p => np[q] # np[p]
  BY <1>1 DEF Forking
<1> QED
  BY <1>1, <1>2, <1>3, <1>4, <1>5, <1>6

\* The steps of the timer interrupt.
LEMMA TickKeeps ==
  ASSUME IInv, Tick
  PROVE  IInv'
<1> USE Names DEF IInv, Tick, Interruptible, procvars, threadvars, NLocks
<1>1. \A p \in Slot : pc[p] # "enter_sleep"
  BY DEF Points, Running, Locks, InTicks, AtSleep, Types
<1>2. Types'
  BY <1>1 DEF Types, PC, State, Exists
<1>3. Locks'
  BY <1>1 DEF Locks, InPtable, InTicks, AtSleep, Types, Running, Points, Resumes
<1>4. Running'
  BY <1>1 DEF Running, Types
<1>5. Points'
  BY <1>1 DEF Points, Types, Resumes
<1>6. Forking'
  BY <1>1 DEF Forking, Types, Forks, Points
<1>7. Families'
  BY <1>1 DEF Families, Exists, Types
<1>8. Exits'
  BY <1>1 DEF Exits, Children, Types
<1>9. Sleepers'
  BY <1>1 DEF Sleepers, Types
<1> QED
  BY <1>2, <1>3, <1>4, <1>5, <1>6, <1>7, <1>8, <1>9

LEMMA TickWakeupKeeps ==
  ASSUME IInv, TickWakeup
  PROVE  IInv'
<1> USE Names DEF IInv, TickWakeup, Wakeup1, PtableFree, threadvars
<1>1. Types'
  BY DEF Types, PC, State, Exists
<1>2. Locks'
  BY DEF Locks, InPtable, InTicks, AtSleep, Types, Running, Points, Resumes
<1>3. Running'
  BY DEF Running, Types
<1>4. Points'
  BY DEF Points, Types, Resumes
<1>5. Forking'
  BY DEF Forking, Types, Forks, Points
<1>6. Families'
  BY DEF Families, Exists, Types
<1>7. Exits'
  BY DEF Exits, Children, Types
<1>8. Sleepers'
  BY DEF Sleepers, Types
<1> QED
  BY <1>1, <1>2, <1>3, <1>4, <1>5, <1>6, <1>7, <1>8

\* The scheduler and sched().
LEMMA SchedAcquireKeeps ==
  ASSUME IInv, NEW c \in CPU, SchedAcquire(c)
  PROVE  IInv'
<1> USE Names DEF IInv, SchedAcquire, PtableFree, procvars, threadvars
<1>1. 1 \in 0..NPROC + 1 /\ 1 # 0
  BY ProcAssumption DEF ProcAssumption
<1>2. Types'
  BY <1>1 DEF Types, PC, State, Exists
<1>3. Locks'
  BY <1>1 DEF Locks, InPtable, InTicks, AtSleep, Types, Running, Points, Resumes
<1>4. Running'
  BY <1>1 DEF Running, Types
<1>5. Points'
  BY <1>1 DEF Points, Types, Resumes
<1>6. Forking'
  BY <1>1 DEF Forking, Types, Forks, Points
<1>7. Families'
  BY <1>1 DEF Families, Exists, Types
<1>8. Exits'
  BY <1>1 DEF Exits, Children, Types
<1>9. Sleepers'
  BY <1>1 DEF Sleepers, Types
<1> QED
  BY <1>2, <1>3, <1>4, <1>5, <1>6, <1>7, <1>8, <1>9

LEMMA SchedPickKeeps ==
  ASSUME IInv, NEW c \in CPU, SchedPick(c)
  PROVE  IInv'
<1> USE Names DEF IInv, SchedPick, Picked, threadvars, lockvars
<1>1. Runnable(c) \in Slot /\ state[Runnable(c)] = "RUNNABLE"
  BY RunnableIs DEF Types
<1>2. Runnable(c) \in 0..NPROC + 1 /\ Runnable(c) # None
  BY <1>1, ProcAssumption DEF Slot, ProcAssumption
<1>3. ~switching[c] /\ \A d \in CPU : proc[d] # Runnable(c)
  BY <1>1 DEF Running, Locks, InPtable
<1>4. Types'
  BY <1>1, <1>2, <1>3 DEF Types, PC, State, Exists
<1>5. Locks'
  BY <1>1, <1>2, <1>3 DEF Locks, InPtable, InTicks, AtSleep, Types, Running, Points, Resumes
<1>6. Running'
  BY <1>1, <1>2, <1>3 DEF Running, Types
<1>7. Points'
  BY <1>1, <1>2, <1>3 DEF Points, Types, Resumes
<1>8. Forking'
  BY <1>1, <1>2, <1>3 DEF Forking, Types, Forks, Points
<1>9. Families'
  BY <1>1, <1>2, <1>3 DEF Families, Exists, Types
<1>10. Exits'
  BY <1>1, <1>2, <1>3 DEF Exits, Children, Types
<1>11. Sleepers'
  BY <1>1, <1>2, <1>3 DEF Sleepers, Types
<1> QED
  BY <1>4, <1>5, <1>6, <1>7, <1>8, <1>9, <1>10, <1>11

LEMMA SchedReleaseKeeps ==
  ASSUME IInv, NEW c \in CPU, SchedRelease(c)
  PROVE  IInv'
<1> USE Names DEF IInv, SchedRelease, procvars, threadvars
<1>1. 0 \in 0..NPROC + 1
  BY ProcAssumption DEF ProcAssumption
<1>2. Types'
  BY <1>1 DEF Types, PC, State, Exists
<1>3. Locks'
  BY <1>1 DEF Locks, InPtable, InTicks, AtSleep, Types, Running, Points, Resumes
<1>4. Running'
  BY <1>1 DEF Running, Types
<1>5. Points'
  BY <1>1 DEF Points, Types, Resumes
<1>6. Forking'
  BY <1>1 DEF Forking, Types, Forks, Points
<1>7. Families'
  BY <1>1 DEF Families, Exists, Types
<1>8. Exits'
  BY <1>1 DEF Exits, Children, Types
<1>9. Sleepers'
  BY <1>1 DEF Sleepers, Types
<1> QED
  BY <1>2, <1>3, <1>4, <1>5, <1>6, <1>7, <1>8, <1>9

LEMMA SchedKeeps ==
  ASSUME IInv, NEW c \in CPU, Sched(c)
  PROVE  IInv'
<1> USE Names DEF IInv, procvars, threadvars, lockvars
<1>1. switching[c] /\ proc[c] \in Slot
  BY DEF Sched, Running, Types
<1>2. proc[c] + 1 \in 0..NPROC + 1 /\ proc[c] + 1 # 0
  BY <1>1, ProcAssumption DEF ProcAssumption, Slot
<1>3. proc[c] # None /\ state[proc[c]] # "RUNNING" /\ ptlock = c
  BY <1>1 DEF Locks, InPtable, Running
<1>4. tickslock # c
  BY <1>1 DEF Locks
<1>5. /\ switching' = [switching EXCEPT ![c] = FALSE]
      /\ proc' = [proc EXCEPT ![c] = None]
      /\ scan' = [scan EXCEPT ![c] = proc[c] + 1]
      /\ panic' = panic
      /\ UNCHANGED <<procvars, threadvars, intr, lockvars, ticks, nextpid, shell>>
  BY <1>3, <1>4 DEF Sched, SchedPanic, NextAfter, NLocks
<1>6. Types'
  <2>1. scan' \in [CPU -> 0..NPROC + 1]
    BY <1>2, <1>5 DEF Types
  <2> QED
    BY <1>5, <2>1 DEF Types
<1>7. Locks'
  BY <1>1, <1>2, <1>3, <1>4, <1>5 DEF Locks, InPtable, InTicks, AtSleep, Types, Running, Points, Resumes
<1>8. Running'
  BY <1>1, <1>2, <1>3, <1>4, <1>5 DEF Running, Types
<1>9. Points'
  BY <1>1, <1>2, <1>3, <1>4, <1>5 DEF Points, Types, Resumes
<1>10. Forking'
  BY <1>1, <1>2, <1>3, <1>4, <1>5 DEF Forking, Types, Forks, Points
<1>11. Families'
  BY <1>1, <1>2, <1>3, <1>4, <1>5 DEF Families, Exists, Types
<1>12. Exits'
  BY <1>1, <1>2, <1>3, <1>4, <1>5 DEF Exits, Children, Types
<1>13. Sleepers'
  BY <1>1, <1>2, <1>3, <1>4, <1>5 DEF Sleepers, Types
<1> QED
  BY <1>6, <1>7, <1>8, <1>9, <1>10, <1>11, <1>12, <1>13

\* The end of an interrupt, the next one, and the exit of init.
LEMMA TrapReturnKeeps ==
  ASSUME IInv, NEW c \in CPU, TrapReturn(c)
  PROVE  IInv'
<1> USE Names DEF IInv, TrapReturn, procvars, threadvars, lockvars
<1>1. Types'
  BY DEF Types, PC, State, Exists
<1>2. Locks'
  BY DEF Locks, InPtable, InTicks, AtSleep, Types, Running, Points, Resumes
<1>3. Running'
  BY DEF Running, Types
<1>4. Points'
  BY DEF Points, Types, Resumes
<1>5. Forking'
  BY DEF Forking, Types, Forks, Points
<1>6. Families'
  BY DEF Families, Exists, Types
<1>7. Exits'
  BY DEF Exits, Children, Types
<1>8. Sleepers'
  BY DEF Sleepers, Types
<1> QED
  BY <1>1, <1>2, <1>3, <1>4, <1>5, <1>6, <1>7, <1>8

LEMMA PreemptKeeps ==
  ASSUME IInv, NEW c \in CPU, Preempt(c)
  PROVE  IInv'
<1> USE Names DEF IInv, Preempt, Interruptible, procvars, threadvars,
         lockvars, NLocks
<1>1. Types'
  BY DEF Types, PC, State, Exists
<1>2. Locks'
  BY DEF Locks, InPtable, InTicks, AtSleep, Types, Running, Points, Resumes
<1>3. Running'
  BY DEF Running, Types
<1>4. Points'
  BY DEF Points, Types, Resumes
<1>5. Forking'
  BY DEF Forking, Types, Forks, Points
<1>6. Families'
  BY DEF Families, Exists, Types
<1>7. Exits'
  BY DEF Exits, Children, Types
<1>8. Sleepers'
  BY DEF Sleepers, Types
<1> QED
  BY <1>1, <1>2, <1>3, <1>4, <1>5, <1>6, <1>7, <1>8

LEMMA InitExitsKeeps ==
  ASSUME IInv, NEW c \in CPU, InitExits(c)
  PROVE  IInv'
<1> USE Names DEF IInv, InitExits, On, Stop, procvars, threadvars, lockvars
<1>1. Types'
  BY DEF Types, PC, State, Exists
<1>2. Locks'
  BY DEF Locks, InPtable, InTicks, AtSleep, Types, Running, Points, Resumes
<1>3. Running'
  BY DEF Running, Types
<1>4. Points'
  BY DEF Points, Types, Resumes
<1>5. Forking'
  BY DEF Forking, Types, Forks, Points
<1>6. Families'
  BY DEF Families, Exists, Types
<1>7. Exits'
  BY DEF Exits, Children, Types
<1>8. Sleepers'
  BY DEF Sleepers, Types
<1> QED
  BY <1>1, <1>2, <1>3, <1>4, <1>5, <1>6, <1>7, <1>8

\* A system call returns; fork() claims a slot, fills it and lets it run.
LEMMA ReturnKeeps ==
  ASSUME IInv, NEW c \in CPU, NEW p \in Slot, Return(c, p)
  PROVE  IInv'
<1> USE Names DEF IInv, Return, On, Goto, procvars, cpuvars, lockvars
<1>1. /\ proc[c] = p /\ state[p] = "RUNNING" /\ ~switching[c]
      /\ \A d \in CPU : proc[d] = p => d = c
  BY DEF Running, Types
<1>2. Types'
  BY <1>1 DEF Types, PC, State, Exists
<1>3. Locks'
  BY <1>1 DEF Locks, InPtable, InTicks, AtSleep, Types, Running, Points, Resumes
<1>4. Running'
  BY <1>1 DEF Running, Types
<1>5. Points'
  BY <1>1 DEF Points, Types, Resumes
<1>6. Forking'
  BY <1>1 DEF Forking, Types, Forks, Points
<1>7. Families'
  BY <1>1 DEF Families, Exists, Types
<1>8. Exits'
  BY <1>1 DEF Exits, Children, Types
<1>9. Sleepers'
  BY <1>1 DEF Sleepers, Types
<1> QED
  BY <1>2, <1>3, <1>4, <1>5, <1>6, <1>7, <1>8, <1>9

LEMMA AllocSlotKeeps ==
  ASSUME IInv, NEW c \in CPU, NEW p \in Slot, AllocSlot(c, p)
  PROVE  IInv'
<1> USE Names DEF IInv, AllocSlot, InitForked, On, Goto, PtableFree, cpuvars,
         lockvars
<1>1. /\ proc[c] = p /\ state[p] = "RUNNING" /\ ~switching[c]
      /\ \A d \in CPU : proc[d] = p => d = c
  BY DEF Running, Types
<1>2. Unused = None \/ (Unused \in Slot /\ state[Unused] = "UNUSED")
  BY UnusedIs
<1>3. nextpid + 1 \in Nat
  BY DEF Types
<1>4. np[p] = None
  BY DEF Forking, Forks
<1>5. Unused # p
  BY <1>1, <1>2
<1>6. Types'
  BY <1>1, <1>2, <1>3, <1>4, <1>5 DEF Types, PC, State, Exists
<1>7. Locks'
  BY <1>1, <1>2, <1>3, <1>4, <1>5 DEF Locks, InPtable, InTicks, AtSleep, Types, Running, Points, Resumes
<1>8. Running'
  BY <1>1, <1>2, <1>3, <1>4, <1>5 DEF Running, Types
<1>9. Points'
  BY <1>1, <1>2, <1>3, <1>4, <1>5 DEF Points, Types, Resumes
<1>10. Forking'
  <2>1. CASE Unused = None
    BY <1>1, <1>4, <2>1 DEF Forking, Types, Forks
  <2>2. CASE Unused \in Slot
    <3>1. \A q \in Slot : q # p => np'[q] = np[q] /\ pc'[q] = pc[q]
      BY <2>2 DEF Types
    <3>2. np'[p] = Unused /\ pc'[p] = "kstack" /\ state'[Unused] = "EMBRYO"
      BY <2>2 DEF Types
    <3>3. \A q \in Slot : q # p => np[q] # Unused
      BY <1>2, <2>2 DEF Forking
    <3>4. \A q \in Slot : q # Unused => state'[q] = state[q]
      BY <2>2 DEF Types
    <3>5. parent[Unused] = None
      BY <1>2, <2>2 DEF Families
    <3>6. pc[p] = "fork" /\ state[p] = "RUNNING" /\ Unused # None /\ p # Unused
      BY <1>1, <1>4, <1>5, <2>2
    <3>7. \A q, r \in Slot : np'[q] # None /\ np'[q] = np'[r] => q = r
      BY <3>1, <3>2, <3>3 DEF Forking
    <3>8. \A q \in Slot : np'[q] # None <=> pc'[q] \in Forks
      BY <3>1, <3>2, <3>6 DEF Forking, Forks
    <3>9. ASSUME NEW q \in Slot, np'[q] # None, q # p
          PROVE  /\ state'[np'[q]] = "EMBRYO"
                 /\ pc'[q] \in {"kstack", "copyuvm"} => parent'[np'[q]] = None
                 /\ pc'[q] = "set_runnable" => parent'[np'[q]] = q
                 /\ pc'[q] # "kstack" => kstack'[np'[q]] /\ pc'[np'[q]] = "forkret"
      <4>1. np'[q] = np[q] /\ np[q] \in Slot /\ np[q] # Unused /\ np[q] # p
        BY <3>1, <3>3, <3>6, <3>9 DEF Forking, Types
      <4> QED
        BY <3>1, <3>4, <3>9, <4>1 DEF Forking
    <3> QED
      BY <3>2, <3>5, <3>7, <3>8, <3>9 DEF Forking
  <2> QED
    BY <1>2, <2>1, <2>2
<1>11. Families'
  BY <1>1, <1>2, <1>3, <1>4, <1>5 DEF Families, Exists, Types
<1>12. Exits'
  BY <1>1, <1>2, <1>3, <1>4, <1>5 DEF Exits, Children, Types
<1>13. Sleepers'
  BY <1>1, <1>2, <1>3, <1>4, <1>5 DEF Sleepers, Types
<1> QED
  BY <1>6, <1>7, <1>8, <1>9, <1>10, <1>11, <1>12, <1>13

LEMMA AllocStackKeeps ==
  ASSUME IInv, NEW c \in CPU, NEW p \in Slot, AllocStack(c, p)
  PROVE  IInv'
<1> USE Names DEF IInv, AllocStack, On, cpuvars, lockvars
<1>1. /\ proc[c] = p /\ state[p] = "RUNNING" /\ ~switching[c]
      /\ \A d \in CPU : proc[d] = p => d = c
  BY DEF Running, Types
<1>2. /\ np[p] \in Slot /\ state[np[p]] = "EMBRYO" /\ np[p] # p /\ np[p] # initproc
      /\ \A d \in CPU : proc[d] # np[p]
      /\ \A q \in Slot : q # p => np[q] # np[p]
  BY <1>1, ForkChildIs DEF Forks
<1>3. Types'
  BY <1>1, <1>2 DEF Types, PC, State, Exists
<1>4. Locks'
  BY <1>1, <1>2 DEF Locks, InPtable, InTicks, AtSleep, Types, Running, Points, Resumes
<1>5. Running'
  BY <1>1, <1>2 DEF Running, Types
<1>6. Points'
  BY <1>1, <1>2 DEF Points, Types, Resumes, Forking, Forks
<1>7. Forking'
  BY <1>1, <1>2 DEF Forking, Types, Forks, Points
<1>8. Families'
  BY <1>1, <1>2 DEF Families, Exists, Types, Forking
<1>9. Exits'
  BY <1>1, <1>2 DEF Exits, Children, Types
<1>10. Sleepers'
  BY <1>1, <1>2 DEF Sleepers, Types
<1> QED
  BY <1>3, <1>4, <1>5, <1>6, <1>7, <1>8, <1>9, <1>10

LEMMA CopyUvmKeeps ==
  ASSUME IInv, NEW c \in CPU, NEW p \in Slot, CopyUvm(c, p)
  PROVE  IInv'
<1> USE Names DEF IInv, CopyUvm, On, Goto, cpuvars, lockvars
<1>1. /\ proc[c] = p /\ state[p] = "RUNNING" /\ ~switching[c]
      /\ \A d \in CPU : proc[d] = p => d = c
  BY DEF Running, Types
<1>2. /\ np[p] \in Slot /\ state[np[p]] = "EMBRYO" /\ np[p] # p /\ np[p] # initproc
      /\ \A d \in CPU : proc[d] # np[p]
      /\ \A q \in Slot : q # p => np[q] # np[p]
  BY <1>1, ForkChildIs DEF Forks
<1>3. Types'
  BY <1>1, <1>2 DEF Types, PC, State, Exists
<1>4. Locks'
  BY <1>1, <1>2 DEF Locks, InPtable, InTicks, AtSleep, Types, Running, Points, Resumes
<1>5. Running'
  BY <1>1, <1>2 DEF Running, Types
<1>6. Points'
  BY <1>1, <1>2 DEF Points, Types, Resumes, Forking, Forks
<1>7. Forking'
  BY <1>1, <1>2 DEF Forking, Types, Forks, Points
<1>8. Families'
  BY <1>1, <1>2 DEF Families, Exists, Types, Forking
<1>9. Exits'
  BY <1>1, <1>2 DEF Exits, Children, Types
<1>10. Sleepers'
  BY <1>1, <1>2 DEF Sleepers, Types
<1> QED
  BY <1>3, <1>4, <1>5, <1>6, <1>7, <1>8, <1>9, <1>10

LEMMA ForkFailsKeeps ==
  ASSUME IInv, NEW c \in CPU, NEW p \in Slot, ForkFails(c, p)
  PROVE  IInv'
<1> USE Names DEF IInv, ForkFails, InitForked, On, Goto, cpuvars, lockvars
<1>1. /\ proc[c] = p /\ state[p] = "RUNNING" /\ ~switching[c]
      /\ \A d \in CPU : proc[d] = p => d = c
  BY DEF Running, Types
<1>2. /\ np[p] \in Slot /\ state[np[p]] = "EMBRYO" /\ np[p] # p /\ np[p] # initproc
      /\ \A d \in CPU : proc[d] # np[p]
      /\ \A q \in Slot : q # p => np[q] # np[p]
  BY <1>1, ForkChildIs DEF Forks
<1>3. Types'
  BY <1>1, <1>2 DEF Types, PC, State, Exists
<1>4. Locks'
  BY <1>1, <1>2 DEF Locks, InPtable, InTicks, AtSleep, Types, Running, Points, Resumes
<1>5. Running'
  BY <1>1, <1>2 DEF Running, Types
<1>6. Points'
  BY <1>1, <1>2 DEF Points, Types, Resumes, Forking, Forks
<1>7. Forking'
  BY <1>1, <1>2 DEF Forking, Types, Forks, Points
<1>8. Families'
  BY <1>1, <1>2 DEF Families, Exists, Types, Forking
<1>9. Exits'
  BY <1>1, <1>2 DEF Exits, Children, Types
<1>10. Sleepers'
  BY <1>1, <1>2 DEF Sleepers, Types
<1> QED
  BY <1>3, <1>4, <1>5, <1>6, <1>7, <1>8, <1>9, <1>10

LEMMA SetRunnableKeeps ==
  ASSUME IInv, NEW c \in CPU, NEW p \in Slot, SetRunnable(c, p)
  PROVE  IInv'
<1> USE Names DEF IInv, SetRunnable, InitForked, On, Goto, PtableFree,
         cpuvars, lockvars
<1>1. /\ proc[c] = p /\ state[p] = "RUNNING" /\ ~switching[c]
      /\ \A d \in CPU : proc[d] = p => d = c
  BY DEF Running, Types
<1>2. /\ np[p] \in Slot /\ state[np[p]] = "EMBRYO" /\ np[p] # p /\ np[p] # initproc
      /\ \A d \in CPU : proc[d] # np[p]
      /\ \A q \in Slot : q # p => np[q] # np[p]
  BY <1>1, ForkChildIs DEF Forks
<1>3. Types'
  BY <1>1, <1>2 DEF Types, PC, State, Exists
<1>4. Locks'
  BY <1>1, <1>2 DEF Locks, InPtable, InTicks, AtSleep, Types, Running, Points, Resumes
<1>5. Running'
  BY <1>1, <1>2 DEF Running, Types
<1>6. Points'
  BY <1>1, <1>2 DEF Points, Types, Resumes, Forking, Forks
<1>7. Forking'
  BY <1>1, <1>2 DEF Forking, Types, Forks, Points
<1>8. Families'
  BY <1>1, <1>2 DEF Families, Exists, Types, Forking
<1>9. Exits'
  BY <1>1, <1>2 DEF Exits, Children, Types
<1>10. Sleepers'
  BY <1>1, <1>2 DEF Sleepers, Types
<1> QED
  BY <1>3, <1>4, <1>5, <1>6, <1>7, <1>8, <1>9, <1>10

\* exit(): only the parent and, for an inherited zombie, init are woken.
LEMMA ExitKeeps ==
  ASSUME IInv, NEW c \in CPU, NEW p \in Slot, Exit(c, p)
  PROVE  IInv'
<1> USE Names DEF IInv, Exit, WakeForExit, Wakeup1, PassChildren, On, Goto,
         PtableFree, KeepPtable
<1>1. /\ proc[c] = p /\ state[p] = "RUNNING" /\ ~switching[c]
      /\ \A d \in CPU : proc[d] = p => d = c
  BY DEF Running, Types
<1>2. \A q \in Slot : q # p => state'[q] = state[q] \/ (state[q] = "SLEEPING" /\ state'[q] = "RUNNABLE")
  BY DEF Types
<1>3. state'[p] = "ZOMBIE"
  BY DEF Types
<1>4. Types'
  BY <1>1, <1>2, <1>3 DEF Types, PC, State, Exists
<1>5. Locks'
  BY <1>1, <1>2, <1>3 DEF Locks, InPtable, InTicks, AtSleep, Types, Running, Points, Resumes
<1>6. Running'
  BY <1>1, <1>2, <1>3 DEF Running, Types
<1>7. Points'
  BY <1>1, <1>2, <1>3 DEF Points, Types, Resumes, Forking, Forks
<1>8. Forking'
  <2>1. pc[p] \notin Forks /\ np[p] = None
    BY DEF Forking, Forks
  <2>2. \A q \in Slot : pc'[q] = IF q = p THEN "zombie" ELSE pc[q]
    BY DEF Types
  <2>3. np' = np /\ kstack' = kstack
    OBVIOUS
  <2>4. ASSUME NEW q \in Slot, np[q] # None
        PROVE  /\ state'[np[q]] = "EMBRYO"
               /\ pc[q] \in {"kstack", "copyuvm"} => parent'[np[q]] = None
               /\ pc[q] = "set_runnable" => parent'[np[q]] = q
               /\ pc[q] # "kstack" => kstack[np[q]] /\ pc'[np[q]] = "forkret"
    <3>1. q # p /\ np[q] \in Slot /\ state[np[q]] = "EMBRYO" /\ np[q] # p
      BY <2>1, <2>4, <1>1 DEF Forking, Types
    <3>2. parent[np[q]] # p
      BY <2>4, <3>1 DEF Forking, Forks
    <3>3. parent'[np[q]] = parent[np[q]] /\ state'[np[q]] = "EMBRYO"
      BY <3>1, <3>2, <1>2 DEF Types
    <3> QED
      BY <2>2, <2>4, <3>1, <3>3 DEF Forking
  <2>5. \A q, r \in Slot : np'[q] # None /\ np'[q] = np'[r] => q = r
    BY <2>3 DEF Forking
  <2>6. \A q \in Slot : np'[q] # None <=> pc'[q] \in Forks
    BY <2>1, <2>2, <2>3 DEF Forking, Forks
  <2>7. ASSUME NEW q \in Slot, np'[q] # None
        PROVE  /\ state'[np'[q]] = "EMBRYO"
               /\ pc'[q] \in {"kstack", "copyuvm"} => parent'[np'[q]] = None
               /\ pc'[q] = "set_runnable" => parent'[np'[q]] = q
               /\ pc'[q] # "kstack" => kstack'[np'[q]] /\ pc'[np'[q]] = "forkret"
    <3>1. q # p /\ np'[q] = np[q] /\ pc'[q] = pc[q]
      BY <2>1, <2>2, <2>3, <2>7
    <3> QED
      BY <2>3, <2>4, <2>7, <3>1
  <2> QED
    BY <2>5, <2>6, <2>7 DEF Forking
<1>9. Families'
  BY <1>1, <1>2, <1>3 DEF Families, Exists, Types
<1>10. Exits'
  <2> SUFFICES ASSUME NEW r \in Slot, state'[r] = "SLEEPING", chan[r] = r,
                       NEW q \in Slot, parent'[q] = r, state'[q] = "ZOMBIE"
                PROVE  FALSE
    BY DEF Exits, Children
  <2>1. r # p /\ state[r] = "SLEEPING" /\ r # parent[p]
    BY <1>2, <1>3 DEF Types
  <2>2. q # p
    BY <2>1 DEF Types, Families
  <2>3. state[q] = "ZOMBIE"
    BY <1>2, <2>2
  <2>4. CASE parent[q] = p
    <3>1. r = initproc
      BY <2>4 DEF Types
    <3>2. state'[r] # "SLEEPING"
      BY <2>1, <2>3, <2>4, <3>1 DEF Children, Types
    <3> QED
      BY <3>2
  <2>5. CASE parent[q] # p
    BY <2>1, <2>3, <2>5 DEF Exits, Children, Types
  <2> QED
    BY <2>4, <2>5
<1>11. Sleepers'
  BY <1>1, <1>2, <1>3 DEF Sleepers, Types
<1> QED
  BY <1>4, <1>5, <1>6, <1>7, <1>8, <1>9, <1>10, <1>11

\* wait(): whom it reaps runs nowhere, because exit() carries the lock to the
\* scheduler.
LEMMA ReapKeeps ==
  ASSUME IInv, NEW c \in CPU, NEW p \in Slot, Reap(c, p)
  PROVE  IInv'
<1> USE Names DEF IInv, Reap, Scans, InitReaped, Goto, cpuvars, On, PtableFree
<1>1. /\ proc[c] = p /\ state[p] = "RUNNING" /\ ~switching[c]
      /\ \A d \in CPU : proc[d] = p => d = c
  BY DEF Running, Types, Scans
<1>2. /\ Zombie(p) \in Slot /\ parent[Zombie(p)] = p /\ state[Zombie(p)] = "ZOMBIE"
  BY ZombieIs
<1>3. \A d \in CPU : proc[d] # Zombie(p)
  BY <1>1, <1>2 DEF Running, Locks, InPtable
<1>4. Types'
  BY <1>1, <1>2, <1>3 DEF Types, PC, State, Exists
<1>5. Locks'
  BY <1>1, <1>2, <1>3 DEF Locks, InPtable, InTicks, AtSleep, Types, Running, Points, Resumes
<1>6. Running'
  BY <1>1, <1>2, <1>3 DEF Running, Types
<1>7. Points'
  BY <1>1, <1>2, <1>3 DEF Points, Types, Resumes
<1>8. Forking'
  BY <1>1, <1>2, <1>3 DEF Forking, Types, Forks, Points
<1>9. Families'
  BY <1>1, <1>2, <1>3 DEF Families, Exists, Types
<1>10. Exits'
  BY <1>1, <1>2, <1>3 DEF Exits, Children, Types
<1>11. Sleepers'
  BY <1>1, <1>2, <1>3 DEF Sleepers, Types
<1> QED
  BY <1>4, <1>5, <1>6, <1>7, <1>8, <1>9, <1>10, <1>11

LEMMA NoChildrenKeeps ==
  ASSUME IInv, NEW c \in CPU, NEW p \in Slot, NoChildren(c, p)
  PROVE  IInv'
<1> USE Names DEF IInv, NoChildren, Scans, InitReaped, Goto, cpuvars, On,
         PtableFree
<1>1. /\ proc[c] = p /\ state[p] = "RUNNING" /\ ~switching[c]
      /\ \A d \in CPU : proc[d] = p => d = c
  BY DEF Running, Types, Scans
<1>2. \A q \in Children(p) : state[q] # "ZOMBIE"
  BY ZombieIs
<1>3. Types'
  BY <1>1, <1>2 DEF Types, PC, State, Exists
<1>4. Locks'
  BY <1>1, <1>2 DEF Locks, InPtable, InTicks, AtSleep, Types, Running, Points, Resumes
<1>5. Running'
  BY <1>1, <1>2 DEF Running, Types
<1>6. Points'
  BY <1>1, <1>2 DEF Points, Types, Resumes
<1>7. Forking'
  BY <1>1, <1>2 DEF Forking, Types, Forks, Points
<1>8. Families'
  BY <1>1, <1>2 DEF Families, Exists, Types
<1>9. Exits'
  BY <1>1, <1>2 DEF Exits, Children, Types
<1>10. Sleepers'
  BY <1>1, <1>2 DEF Sleepers, Types
<1> QED
  BY <1>3, <1>4, <1>5, <1>6, <1>7, <1>8, <1>9, <1>10

LEMMA WaitSleepKeeps ==
  ASSUME IInv, NEW c \in CPU, NEW p \in Slot, WaitSleep(c, p)
  PROVE  IInv'
<1> USE Names DEF IInv, WaitSleep, Scans, Goto, KeepPtable, On, PtableFree
<1>1. /\ proc[c] = p /\ state[p] = "RUNNING" /\ ~switching[c]
      /\ \A d \in CPU : proc[d] = p => d = c
  BY DEF Running, Types, Scans
<1>2. \A q \in Children(p) : state[q] # "ZOMBIE"
  BY ZombieIs
<1>3. Types'
  BY <1>1, <1>2 DEF Types, PC, State, Exists
<1>4. Locks'
  BY <1>1, <1>2 DEF Locks, InPtable, InTicks, AtSleep, Types, Running, Points, Resumes
<1>5. Running'
  BY <1>1, <1>2 DEF Running, Types
<1>6. Points'
  BY <1>1, <1>2 DEF Points, Types, Resumes, Forking, Forks
<1>7. Forking'
  BY <1>1, <1>2 DEF Forking, Types, Forks, Points
<1>8. Families'
  BY <1>1, <1>2 DEF Families, Exists, Types
<1>9. Exits'
  BY <1>1, <1>2 DEF Exits, Children, Types
<1>10. Sleepers'
  BY <1>1, <1>2 DEF Sleepers, Types
<1> QED
  BY <1>3, <1>4, <1>5, <1>6, <1>7, <1>8, <1>9, <1>10

\* kill() and sys_sleep(): a sleeper leaves with its channel, and sleeps only
\* when its time has not come.
LEMMA KillKeeps ==
  ASSUME IInv, NEW c \in CPU, NEW p \in Slot, Kill(c, p)
  PROVE  IInv'
<1> USE Names DEF IInv, Kill, On, Goto, PtableFree, cpuvars, lockvars
<1>1. /\ proc[c] = p /\ state[p] = "RUNNING" /\ ~switching[c]
      /\ \A d \in CPU : proc[d] = p => d = c
  BY DEF Running, Types
<1>2. PICK n \in KillPids :
        IF KillTarget(n) = None THEN UNCHANGED <<killed, state>>
        ELSE /\ killed' = [killed EXCEPT ![KillTarget(n)] = TRUE]
             /\ state' = [state EXCEPT ![KillTarget(n)] = Unslept(KillTarget(n))]
  BY DEF Kill
<1>3. KillTarget(n) = None \/ KillTarget(n) \in Slot
  BY KillTargetIs
<1>4. state' = state \/ \E q \in Slot : state[q] = "SLEEPING" /\ state' = [state EXCEPT ![q] = "RUNNABLE"]
  BY <1>2, <1>3 DEF Types, Unslept
<1>5. killed' \in [Slot -> BOOLEAN]
  BY <1>2, <1>3 DEF Types
<1>6. Types'
  BY <1>1, <1>2, <1>3, <1>4, <1>5 DEF Types, PC, State, Exists
<1>7. Locks'
  BY <1>1, <1>2, <1>3, <1>4, <1>5 DEF Locks, InPtable, InTicks, AtSleep, Types, Running, Points, Resumes
<1>8. Running'
  BY <1>1, <1>2, <1>3, <1>4, <1>5 DEF Running, Types
<1>9. Points'
  <2>1. ASSUME NEW q \in Slot, killed'[q], state'[q] = "SLEEPING"
        PROVE  chan'[q] = TicksChan
    <3>1. state[q] = "SLEEPING" /\ killed[q]
      BY <1>2, <1>3, <2>1 DEF Types, Unslept
    <3> QED
      BY <3>1 DEF Points
  <2> QED
    BY <1>1, <1>4, <2>1 DEF Points, Types, Resumes
<1>10. Forking'
  BY <1>1, <1>2, <1>3, <1>4, <1>5 DEF Forking, Types, Forks, Points
<1>11. Families'
  BY <1>1, <1>2, <1>3, <1>4, <1>5 DEF Families, Exists, Types
<1>12. Exits'
  BY <1>1, <1>2, <1>3, <1>4, <1>5 DEF Exits, Children, Types
<1>13. Sleepers'
  BY <1>1, <1>2, <1>3, <1>4, <1>5 DEF Sleepers, Types
<1> QED
  BY <1>6, <1>7, <1>8, <1>9, <1>10, <1>11, <1>12, <1>13

LEMMA SysSleepKeeps ==
  ASSUME IInv, NEW c \in CPU, NEW p \in Slot, SysSleep(c, p)
  PROVE  IInv'
<1> USE Names DEF IInv, SysSleep, SleepLoop, On, procvars, cpuvars, Goto
<1>1. /\ proc[c] = p /\ state[p] = "RUNNING" /\ ~switching[c]
      /\ \A d \in CPU : proc[d] = p => d = c
  BY DEF Running, Types
<1>2. PICK n \in SleepTicks : SleepLoop(c, p, ticks + n)
  OBVIOUS
<1>3. ticks + n \in Nat
  BY ProcAssumption DEF ProcAssumption, Types
<1>4. Types'
  BY <1>1, <1>2, <1>3 DEF Types, PC, State, Exists
<1>5. Locks'
  BY <1>1, <1>2, <1>3 DEF Locks, InPtable, InTicks, AtSleep, Types, Running, Points, Resumes
<1>6. Running'
  BY <1>1, <1>2, <1>3 DEF Running, Types
<1>7. Points'
  BY <1>1, <1>2, <1>3 DEF Points, Types, Resumes
<1>8. Forking'
  BY <1>1, <1>2, <1>3 DEF Forking, Types, Forks, Points
<1>9. Families'
  BY <1>1, <1>2, <1>3 DEF Families, Exists, Types
<1>10. Exits'
  BY <1>1, <1>2, <1>3 DEF Exits, Children, Types
<1>11. Sleepers'
  BY <1>1, <1>2, <1>3 DEF Sleepers, Types
<1> QED
  BY <1>4, <1>5, <1>6, <1>7, <1>8, <1>9, <1>10, <1>11

LEMMA SleepKeeps ==
  ASSUME IInv, NEW c \in CPU, NEW p \in Slot, Sleep(c, p)
  PROVE  IInv'
<1> USE Names DEF IInv, Sleep, ReleaseLk, On, Goto, PtableFree, KeepPtable
<1>1. /\ proc[c] = p /\ state[p] = "RUNNING" /\ ~switching[c]
      /\ \A d \in CPU : proc[d] = p => d = c
  BY DEF Running, Types
<1>2. Types'
  BY <1>1 DEF Types, PC, State, Exists
<1>3. Locks'
  BY <1>1 DEF Locks, InPtable, InTicks, AtSleep, Types, Running, Points, Resumes
<1>4. Running'
  BY <1>1 DEF Running, Types
<1>5. Points'
  BY <1>1 DEF Points, Types, Resumes, Forking, Forks
<1>6. Forking'
  BY <1>1 DEF Forking, Types, Forks, Points
<1>7. Families'
  BY <1>1 DEF Families, Exists, Types
<1>8. Exits'
  BY <1>1 DEF Exits, Children, Types
<1>9. Sleepers'
  BY <1>1 DEF Sleepers, Types, Points
<1> QED
  BY <1>2, <1>3, <1>4, <1>5, <1>6, <1>7, <1>8, <1>9

LEMMA WokenKeeps ==
  ASSUME IInv, NEW c \in CPU, NEW p \in Slot, Woken(c, p)
  PROVE  IInv'
<1> USE Names DEF IInv, Woken, On, Goto, cpuvars
<1>1. /\ proc[c] = p /\ state[p] = "RUNNING" /\ ~switching[c]
      /\ \A d \in CPU : proc[d] = p => d = c
  BY DEF Running, Types
<1>2. Types'
  BY <1>1 DEF Types, PC, State, Exists
<1>3. Locks'
  BY <1>1 DEF Locks, InPtable, InTicks, AtSleep, Types, Running, Points, Resumes
<1>4. Running'
  BY <1>1 DEF Running, Types
<1>5. Points'
  BY <1>1 DEF Points, Types, Resumes
<1>6. Forking'
  BY <1>1 DEF Forking, Types, Forks, Points
<1>7. Families'
  BY <1>1 DEF Families, Exists, Types
<1>8. Exits'
  BY <1>1 DEF Exits, Children, Types
<1>9. Sleepers'
  BY <1>1 DEF Sleepers, Types
<1> QED
  BY <1>2, <1>3, <1>4, <1>5, <1>6, <1>7, <1>8, <1>9

LEMMA TestAgainKeeps ==
  ASSUME IInv, NEW c \in CPU, NEW p \in Slot, TestAgain(c, p)
  PROVE  IInv'
<1> USE Names DEF IInv, TestAgain, SleepLoop, On, procvars, cpuvars, Goto
<1>1. /\ proc[c] = p /\ state[p] = "RUNNING" /\ ~switching[c]
      /\ \A d \in CPU : proc[d] = p => d = c
  BY DEF Running, Types
<1>2. Types'
  BY <1>1 DEF Types, PC, State, Exists
<1>3. Locks'
  BY <1>1 DEF Locks, InPtable, InTicks, AtSleep, Types, Running, Points, Resumes
<1>4. Running'
  BY <1>1 DEF Running, Types
<1>5. Points'
  BY <1>1 DEF Points, Types, Resumes
<1>6. Forking'
  BY <1>1 DEF Forking, Types, Forks, Points
<1>7. Families'
  BY <1>1 DEF Families, Exists, Types
<1>8. Exits'
  BY <1>1 DEF Exits, Children, Types
<1>9. Sleepers'
  BY <1>1 DEF Sleepers, Types
<1> QED
  BY <1>2, <1>3, <1>4, <1>5, <1>6, <1>7, <1>8, <1>9

\* The tail of trap(), and the first step of a system call.
LEMMA TrapExitKeeps ==
  ASSUME IInv, NEW c \in CPU, NEW p \in Slot, TrapExit(c, p)
  PROVE  IInv'
<1> USE Names DEF IInv, TrapExit, MustLeave, Goto, procvars, lockvars
<1>1. /\ proc[c] = p /\ state[p] = "RUNNING" /\ ~switching[c]
      /\ \A d \in CPU : proc[d] = p => d = c
  BY DEF Running, Types, Locks, InPtable
<1>2. Types'
  BY <1>1 DEF Types, PC, State, Exists
<1>3. Locks'
  BY <1>1 DEF Locks, InPtable, InTicks, AtSleep, Types, Running, Points, Resumes
<1>4. Running'
  BY <1>1 DEF Running, Types
<1>5. Points'
  BY <1>1 DEF Points, Types, Resumes
<1>6. Forking'
  BY <1>1 DEF Forking, Types, Forks, Points
<1>7. Families'
  BY <1>1 DEF Families, Exists, Types
<1>8. Exits'
  BY <1>1 DEF Exits, Children, Types
<1>9. Sleepers'
  BY <1>1 DEF Sleepers, Types
<1> QED
  BY <1>2, <1>3, <1>4, <1>5, <1>6, <1>7, <1>8, <1>9

LEMMA YieldKeeps ==
  ASSUME IInv, NEW c \in CPU, NEW p \in Slot, Yield(c, p)
  PROVE  IInv'
<1> USE Names DEF IInv, Yield, PtableFree, KeepPtable
<1>1. /\ proc[c] = p /\ state[p] = "RUNNING" /\ ~switching[c]
      /\ \A d \in CPU : proc[d] = p => d = c
  BY DEF Running, Types
<1>2. Types'
  BY <1>1 DEF Types, PC, State, Exists
<1>3. Locks'
  BY <1>1 DEF Locks, InPtable, InTicks, AtSleep, Types, Running, Points, Resumes
<1>4. Running'
  BY <1>1 DEF Running, Types
<1>5. Points'
  BY <1>1 DEF Points, Types, Resumes, Locks, InPtable, AtSleep
<1>6. Forking'
  BY <1>1 DEF Forking, Types, Forks, Points
<1>7. Families'
  BY <1>1 DEF Families, Exists, Types
<1>8. Exits'
  BY <1>1 DEF Exits, Children, Types
<1>9. Sleepers'
  BY <1>1 DEF Sleepers, Types
<1> QED
  BY <1>2, <1>3, <1>4, <1>5, <1>6, <1>7, <1>8, <1>9

LEMMA YieldReturnKeeps ==
  ASSUME IInv, NEW c \in CPU, NEW p \in Slot, YieldReturn(c, p)
  PROVE  IInv'
<1> USE Names DEF IInv, YieldReturn, MustLeave, procvars, cpuvars
<1>1. /\ proc[c] = p /\ state[p] = "RUNNING" /\ ~switching[c]
      /\ \A d \in CPU : proc[d] = p => d = c
  BY DEF Running, Types
<1>2. Types'
  BY <1>1 DEF Types, PC, State, Exists
<1>3. Locks'
  BY <1>1 DEF Locks, InPtable, InTicks, AtSleep, Types, Running, Points, Resumes
<1>4. Running'
  BY <1>1 DEF Running, Types
<1>5. Points'
  BY <1>1 DEF Points, Types, Resumes
<1>6. Forking'
  BY <1>1 DEF Forking, Types, Forks, Points
<1>7. Families'
  BY <1>1 DEF Families, Exists, Types
<1>8. Exits'
  BY <1>1 DEF Exits, Children, Types
<1>9. Sleepers'
  BY <1>1 DEF Sleepers, Types
<1> QED
  BY <1>2, <1>3, <1>4, <1>5, <1>6, <1>7, <1>8, <1>9

LEMMA SyscallKeeps ==
  ASSUME IInv, NEW c \in CPU, NEW p \in Slot, Syscall(c, p)
  PROVE  IInv'
<1> USE Names DEF IInv, Syscall, NextCalls, On, Goto, procvars, cpuvars,
         lockvars
<1>1. /\ proc[c] = p /\ state[p] = "RUNNING" /\ ~switching[c]
      /\ \A d \in CPU : proc[d] = p => d = c
  BY DEF Running, Types
<1>2. \E x \in {"fork", "exit", "wait", "kill", "sleep"} : pc' = [pc EXCEPT ![p] = x]
  BY ProcAssumption DEF ProcAssumption
<1>3. Types'
  BY <1>1, <1>2 DEF Types, PC, State, Exists
<1>4. Locks'
  BY <1>1, <1>2 DEF Locks, InPtable, InTicks, AtSleep, Types, Running, Points, Resumes
<1>5. Running'
  BY <1>1, <1>2 DEF Running, Types
<1>6. Points'
  BY <1>1, <1>2 DEF Points, Types, Resumes
<1>7. Forking'
  BY <1>1, <1>2 DEF Forking, Types, Forks, Points
<1>8. Families'
  BY <1>1, <1>2 DEF Families, Exists, Types
<1>9. Exits'
  BY <1>1, <1>2 DEF Exits, Children, Types
<1>10. Sleepers'
  BY <1>1, <1>2 DEF Sleepers, Types
<1> QED
  BY <1>3, <1>4, <1>5, <1>6, <1>7, <1>8, <1>9, <1>10

LEMMA FaultKeeps ==
  ASSUME IInv, NEW c \in CPU, NEW p \in Slot, Fault(c, p)
  PROVE  IInv'
<1> USE Names DEF IInv, Fault, On, threadvars, lockvars
<1>1. /\ proc[c] = p /\ state[p] = "RUNNING" /\ ~switching[c]
      /\ \A d \in CPU : proc[d] = p => d = c
  BY DEF Running, Types
<1>2. Types'
  BY <1>1 DEF Types, PC, State, Exists
<1>3. Locks'
  BY <1>1 DEF Locks, InPtable, InTicks, AtSleep, Types, Running, Points, Resumes
<1>4. Running'
  BY <1>1 DEF Running, Types
<1>5. Points'
  BY <1>1 DEF Points, Types, Resumes
<1>6. Forking'
  BY <1>1 DEF Forking, Types, Forks, Points
<1>7. Families'
  BY <1>1 DEF Families, Exists, Types
<1>8. Exits'
  BY <1>1 DEF Exits, Children, Types
<1>9. Sleepers'
  BY <1>1 DEF Sleepers, Types
<1> QED
  BY <1>2, <1>3, <1>4, <1>5, <1>6, <1>7, <1>8, <1>9

LEMMA ForkRetKeeps ==
  ASSUME IInv, NEW c \in CPU, NEW p \in Slot, ForkRet(c, p)
  PROVE  IInv'
<1> USE Names DEF IInv, ForkRet, On, Goto, procvars, cpuvars
<1>1. /\ proc[c] = p /\ state[p] = "RUNNING" /\ ~switching[c]
      /\ \A d \in CPU : proc[d] = p => d = c
  BY DEF Running, Types
<1>2. Types'
  BY <1>1 DEF Types, PC, State, Exists
<1>3. Locks'
  BY <1>1 DEF Locks, InPtable, InTicks, AtSleep, Types, Running, Points, Resumes
<1>4. Running'
  BY <1>1 DEF Running, Types
<1>5. Points'
  BY <1>1 DEF Points, Types, Resumes
<1>6. Forking'
  BY <1>1 DEF Forking, Types, Forks, Points
<1>7. Families'
  BY <1>1 DEF Families, Exists, Types
<1>8. Exits'
  BY <1>1 DEF Exits, Children, Types
<1>9. Sleepers'
  BY <1>1 DEF Sleepers, Types
<1> QED
  BY <1>2, <1>3, <1>4, <1>5, <1>6, <1>7, <1>8, <1>9

LEMMA InitKeeps == Init => IInv
<1> SUFFICES ASSUME Init PROVE IInv
  OBVIOUS
<1> USE Names DEF Init
<1>1. Types
  <2>1. 0 \in 0..NPROC + 1 /\ 0 \in Nat /\ 2 \in Nat /\ 1 \in Nat
    BY ProcAssumption DEF ProcAssumption
  <2> QED
    BY <2>1 DEF Types, State, PC
<1>2. Locks
  BY DEF Locks, InPtable, InTicks, AtSleep
<1>3. Running
  BY DEF Running
<1>4. Points
  BY DEF Points, Resumes
<1>5. Forking
  BY DEF Forking, Forks
<1>6. Families
  BY DEF Families, Exists
<1>7. Exits
  BY DEF Exits, Children
<1>8. Sleepers
  BY DEF Sleepers
<1> QED
  BY <1>1, <1>2, <1>3, <1>4, <1>5, <1>6, <1>7, <1>8 DEF IInv

LEMMA StutterKeeps == IInv /\ UNCHANGED vars => IInv'
<1> SUFFICES ASSUME IInv, UNCHANGED vars PROVE IInv'
  OBVIOUS
<1> USE DEF IInv, vars, procvars, threadvars, cpuvars, lockvars
<1>1. Types'
  BY DEF Types
<1>2. Locks'
  BY DEF Locks, InPtable, InTicks, AtSleep
<1>3. Running'
  BY DEF Running
<1>4. Points'
  BY DEF Points
<1>5. Forking'
  BY DEF Forking
<1>6. Families'
  BY DEF Families, Exists
<1>7. Exits'
  BY DEF Exits, Children
<1>8. Sleepers'
  BY DEF Sleepers
<1> QED
  BY <1>1, <1>2, <1>3, <1>4, <1>5, <1>6, <1>7, <1>8

\* One case per action: whatever step the kernel takes, IInv holds after it.
LEMMA NextKeeps == IInv /\ [Next]_vars => IInv'
<1> SUFFICES ASSUME IInv, [Next]_vars PROVE IInv'
  OBVIOUS
<1>1. CASE Tick
  BY <1>1, TickKeeps
<1>2. CASE TickWakeup
  BY <1>2, TickWakeupKeeps
<1>3. ASSUME NEW c \in CPU,
             \/ SchedAcquire(c) \/ Dispatch(c) \/ Preempt(c) \/ InitExits(c)
             \/ \E p \in Slot : Kernel(c, p) \/ Trap(c, p) \/ Syscall(c, p) \/ Fault(c, p)
      PROVE  IInv'
  <2>1. CASE SchedAcquire(c)
    BY <2>1, SchedAcquireKeeps
  <2>2. CASE Preempt(c)
    BY <2>2, PreemptKeeps
  <2>3. CASE InitExits(c)
    BY <2>3, InitExitsKeeps
  <2>4. CASE Dispatch(c)
    BY <2>4, SchedPickKeeps, SchedReleaseKeeps, SchedKeeps, TrapReturnKeeps, ForkRetKeeps
       DEF Dispatch
  <2>5. ASSUME NEW p \in Slot, Kernel(c, p)
        PROVE  IInv'
    BY <2>5, ReturnKeeps, AllocSlotKeeps, AllocStackKeeps, CopyUvmKeeps,
       ForkFailsKeeps, SetRunnableKeeps, ExitKeeps, ReapKeeps, NoChildrenKeeps,
       WaitSleepKeeps, KillKeeps, SysSleepKeeps, SleepKeeps, WokenKeeps,
       TestAgainKeeps
       DEF Kernel
  <2>6. ASSUME NEW p \in Slot, Trap(c, p)
        PROVE  IInv'
    BY <2>6, TrapExitKeeps, YieldKeeps, YieldReturnKeeps DEF Trap
  <2>7. ASSUME NEW p \in Slot, Syscall(c, p) \/ Fault(c, p)
        PROVE  IInv'
    BY <2>7, SyscallKeeps, FaultKeeps
  <2> QED
    BY <1>3, <2>1, <2>2, <2>3, <2>4, <2>5, <2>6, <2>7
<1>4. CASE UNCHANGED vars
  BY <1>4, StutterKeeps
<1> QED
  BY <1>1, <1>2, <1>3, <1>4 DEF Next

\* The inductive invariant of the process table, for every number of
\* processes and CPUs, whatever system calls the processes make.
THEOREM Invariant == Spec => []IInv
<1> QED
  BY InitKeeps, NextKeeps, PTL DEF Spec

-----------------------------------------------------------------------------
\* Every variable of the process table keeps its type; of sched()'s panics
\* none is reached, and init's exit is the only other; and every live process
\* but init has a live parent that can still wait for it (exit() passes the
\* children to init before it becomes a zombie, fork() is the parent of its
\* child before the child can run).
THEOREM TypeCorrect == Spec => []TypeOK
<1>1. IInv => TypeOK
  BY DEF IInv, Types, Families, TypeOK
<1> QED
  BY <1>1, Invariant, PTL

\* swtch() never puts two CPUs on one kernel stack and wait() frees none that
\* a CPU is on: a process runs on one CPU at most, on a stack it owns, and
\* the table says RUNNING for exactly the processes that do.
THEOREM RunsOnOwnStack == Spec => []RunsOnItsStack
<1>1. ASSUME IInv PROVE RunsOnItsStack
  <2> USE <1>1, Names DEF IInv
  <2>1. ASSUME NEW c \in CPU, proc[c] # None
        PROVE  /\ kstack[proc[c]]
               /\ \A d \in CPU : proc[d] = proc[c] => d = c
    <3>1. proc[c] \in Slot /\ Exists(proc[c])
      BY <2>1 DEF Running, Exists, Types
    <3> QED
      BY <2>1, <3>1 DEF Running, Families
  <2>2. ASSUME NEW p \in Slot
        PROVE  /\ state[p] = "UNUSED" => ~kstack[p]
               /\ state[p] = "RUNNING" <=> \E c \in CPU : proc[c] = p /\ ~switching[c]
    BY <2>2 DEF Running, Families
  <2> QED
    BY <2>1, <2>2 DEF RunsOnItsStack
<1> QED
  BY <1>1, Invariant, PTL

\* sleep() and wakeup() lose no event: when ptable.lock is free no parent
\* sleeps in wait() over a zombie child, and when tickslock is free too nobody
\* sleeps in sys_sleep() past its time.
THEOREM WakeupsAreNotLost == Spec => []NoLostWakeup
<1>1. IInv => NoLostExit
  BY DEF IInv, Exits, NoLostExit
<1>2. ASSUME IInv PROVE NoOversleep
  <2>1. tickslock = NoCpu => intr[cpu0] # "wakeup"
    BY <1>2, Names DEF IInv, Locks, InTicks
  <2> QED
    BY <1>2, <2>1 DEF IInv, Sleepers, NoOversleep
<1> QED
  BY <1>1, <1>2, Invariant, PTL DEF NoLostWakeup

\* A process that was killed sleeps for a tick or not at all: wait() never
\* sleeps once killed is set and kill() wakes who sleeps in it, though
\* sys_sleep's test of killed and its sleep are under different locks.
THEOREM KilledSleepsShort == Spec => []KilledSleepsForTick
<1>1. IInv => KilledSleepsForTick
  BY DEF IInv, Points, KilledSleepsForTick
<1> QED
  BY <1>1, Invariant, PTL
=============================================================================
