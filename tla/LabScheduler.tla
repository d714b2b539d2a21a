---------------------------- MODULE LabScheduler ----------------------------
(***************************************************************************)
(* The three-level scheduler of OS-lab-xv6-scheduling (proc.c), which runs *)
(* on one CPU: a pass draws a ticket among the LOTTERY processes, turns to *)
(* the HRRN processes if no LOTTERY process could run, and to the SRPF     *)
(* processes if no HRRN process was run.                                   *)
(*                                                                         *)
(* A stretch with ptable.lock is one action; the timer and the disk        *)
(* interrupt between two of them, so the draw and the scan see different   *)
(* tables.  Response ratios and priorities only order the processes of a   *)
(* level: any of them may be the one chosen here.                          *)
(* Who is whose parent and who sleeps on what is ProcTable's subject.      *)
(***************************************************************************)
EXTENDS Integers, FiniteSetsExt

CONSTANTS
  NPROC,       \* the size of the process table
  WordSize,    \* the values of an int are -WordSize \div 2 .. WordSize \div 2 - 1
  MULT, ADD,   \* the factor and the summand of generate_random
  DrawnTickets,  \* allocproc draws the tickets of a process below this
  ExecTickets, \* exec gives a process this many
  Settable,    \* the slots whose tickets and level users change
  SetTickets   \* the numbers they pass to set_tickets

ASSUME LabAssumption ==
  /\ NPROC \in Nat \ {0}
  /\ WordSize \in Nat \ {0} /\ WordSize % 2 = 0
  /\ MULT \in Nat /\ MULT % 2 = 0
  /\ ADD \in Nat /\ ADD % 2 = 1
  /\ DrawnTickets \in Nat \ {0} /\ DrawnTickets % 2 = 0
  /\ ExecTickets \in Nat
  /\ Settable \subseteq 1..NPROC
  /\ SetTickets \cup {ExecTickets} \subseteq -(WordSize \div 2)..(WordSize \div 2 - 1)

Slot == 1..NPROC
None == 0
initproc == 1
Level == {"LOTTERY", "HRRN", "SRPF"}

VARIABLES
  state, level, tickets,  \* struct proc
  ticks,                  \* the clock, a uint that wraps
  cpu,        \* c->proc
  at,         \* the part of scheduler() that is next
  rnd,        \* the draw
  found,      \* the levels in which the pass has found a runnable process
  locked,     \* ptable.lock
  failed,     \* the free slots that a fork without memory left with a pid
  np,         \* the slot that each process's fork works on
  ticked      \* the timer has interrupted this pass of the scheduler

procvars == <<state, level, tickets>>
passvars == <<at, rnd, found>>
vars == <<procvars, ticks, cpu, passvars, locked, failed, np, ticked>>

\* init has called exec, and nobody else is there.
Init ==
  /\ state = [p \in Slot |-> IF p = initproc THEN "RUNNABLE" ELSE "UNUSED"]
  /\ level = [p \in Slot |-> "LOTTERY"]
  /\ tickets = [p \in Slot |-> IF p = initproc THEN ExecTickets ELSE 0]
  /\ ticks = 0
  /\ cpu = None
  /\ at = "draw" /\ rnd = 0 /\ found = {}
  /\ locked = FALSE
  /\ failed = {}
  /\ np = [p \in Slot |-> None]
  /\ ticked = FALSE

-----------------------------------------------------------------------------
\* The value a word has as an int, and C's remainder: it has the sign of
\* the dividend.
ToInt(x) == ((x + WordSize \div 2) % WordSize) - WordSize \div 2
Abs(x) == IF x < 0 THEN -x ELSE x
Remainder(a, b) == IF a < 0 THEN -((-a) % Abs(b)) ELSE a % Abs(b)

\* generate_random(ceil) at time t.  A wrong one works on unsigned words,
\* another one adds an even number.
DrawUnsigned(t, ceil) == IF ceil = 0 THEN 1 ELSE ((t * MULT + ADD) % WordSize) % Abs(ceil)
DrawEven(t, ceil) == IF ceil = 0 THEN 1 ELSE Remainder(ToInt(t * MULT + ADD + 1), ceil)
Draw(t, ceil) == IF ceil = 0 THEN 1 ELSE Remainder(ToInt(t * MULT + ADD), ceil)

\* Sums of tickets wrap as ints do.
SumTickets(S) == MapThenSumSet(LAMBDA p : tickets[p], S)

InState(s) == {p \in Slot : state[p] = s}
OfLevel(l) == {p \in Slot : level[p] = l}
Runnable(l) == InState("RUNNABLE") \cap OfLevel(l)

-----------------------------------------------------------------------------
\* Switch to p; the process releases ptable.lock before it does anything.
Dispatch(p) ==
  /\ cpu' = p
  /\ state' = [state EXCEPT ![p] = "RUNNING"]
  /\ locked' = FALSE

\* scheduler(), step by step: getTotal counts every slot of the level,
\* whatever its state, and generate_random draws below the sum; no process
\* runs between the two, so they are one step;
Counted == OfLevel("LOTTERY")
Total == ToInt(SumTickets(Counted))

DrawTicket ==
  /\ cpu = None /\ at = "draw" /\ ~locked
  /\ rnd' = Draw(ticks, Total)
  /\ at' = "lottery"
  /\ UNCHANGED <<procvars, ticks, cpu, found, locked, failed, np, ticked>>

\* the scan subtracts the tickets of each process until none of the draw is
\* left.
UpTo(p) == SumTickets({q \in Runnable("LOTTERY") : q <= p})
Named == {p \in Runnable("LOTTERY") : ToInt(rnd - UpTo(p)) <= 0}

Lottery ==
  /\ cpu = None /\ at = "lottery" /\ ~locked
  /\ found' = IF Runnable("LOTTERY") = {} THEN {} ELSE {"LOTTERY"}
  /\ IF Named = {}
     THEN locked' = TRUE /\ UNCHANGED <<cpu, state>>
     ELSE Dispatch(Min(Named))
  /\ at' = "hrrn" /\ rnd' = 0
  /\ UNCHANGED <<level, tickets, ticks, failed, np, ticked>>

\* One of the lower levels: some process of it, if its turn has come.
Choose(l, itsTurn, next) ==
  /\ cpu = None /\ locked
  /\ IF itsTurn /\ Runnable(l) # {}
     THEN /\ \E p \in Runnable(l) : Dispatch(p)
          /\ found' = found \cup {l}
     ELSE UNCHANGED <<cpu, state, locked, found>>
  /\ at' = next
  /\ UNCHANGED <<level, tickets, ticks, rnd, failed, np, ticked>>

\* HRRN has its turn when the scan met no LOTTERY process, SRPF when no
\* HRRN process has run in this pass.
HrrnTurn == "LOTTERY" \notin found
SrpfLast == found = {}
SrpfTurn == "HRRN" \notin found

Hrrn == at = "hrrn" /\ Choose("HRRN", HrrnTurn, "srpf")
Srpf == at = "srpf" /\ Choose("SRPF", SrpfTurn, "end")

\* The end of the pass: "continue" goes round again without the release.
KeepsLockUnlessAll == found # Level
KeepsLock == "SRPF" \notin found /\ {"HRRN", "LOTTERY"} \subseteq found

EndPass ==
  /\ cpu = None /\ at = "end" /\ locked
  /\ locked' = KeepsLock
  /\ at' = "draw" /\ found' = {} /\ ticked' = FALSE
  /\ UNCHANGED <<procvars, ticks, cpu, rnd, failed, np>>

-----------------------------------------------------------------------------
\* wakeup() on the channels of some sleeping processes.
Wake(st, S) == [p \in Slot |-> IF p \in S THEN "RUNNABLE" ELSE st[p]]

\* The running process gives up the CPU with ptable.lock held.
GiveUp(next) ==
  /\ state' = [state EXCEPT ![cpu] = next]
  /\ cpu' = None
  /\ locked' = TRUE

NextTick == (ticks + 1) % WordSize

\* The timer counts a tick, wakes those who sleep on ticks and makes the
\* running process yield ...
TimerYield ==
  /\ cpu # None /\ ~locked
  /\ ticks' = NextTick
  /\ \E S \in SUBSET InState("SLEEPING") : state' = Wake([state EXCEPT ![cpu] = "RUNNABLE"], S)
  /\ cpu' = None
  /\ locked' = TRUE
  /\ UNCHANGED <<level, tickets, passvars, failed, np, ticked>>

\* ... or interrupts the scheduler itself.  A pass is far shorter than a
\* tick, so this happens once in a pass at most.
TimerIdle ==
  /\ cpu = None /\ ~locked /\ ~ticked
  /\ ticks' = NextTick
  /\ ticked' = TRUE
  /\ \E S \in SUBSET InState("SLEEPING") : state' = Wake(state, S)
  /\ UNCHANGED <<level, tickets, cpu, passvars, locked, failed, np>>

\* A device's interrupt, or the running process, wakes one.
Wakeup ==
  /\ ~locked
  /\ \E p \in InState("SLEEPING") : state' = Wake(state, {p})
  /\ UNCHANGED <<level, tickets, ticks, cpu, passvars, locked, failed, np, ticked>>

-----------------------------------------------------------------------------
\* What the running process does.  While its fork is under way it does
\* nothing else.
Acts == cpu # None /\ ~locked /\ np[cpu] = None

Sleep ==
  /\ Acts
  /\ GiveUp("SLEEPING")
  /\ UNCHANGED <<level, tickets, ticks, passvars, failed, np, ticked>>

Exit ==
  /\ Acts /\ cpu # initproc
  /\ GiveUp("ZOMBIE")
  /\ UNCHANGED <<level, tickets, ticks, passvars, failed, np, ticked>>

\* wait() frees the slot of a child and leaves its level and its tickets.
Reap ==
  /\ Acts
  /\ \E p \in InState("ZOMBIE") : state' = [state EXCEPT ![p] = "UNUSED"]
  /\ UNCHANGED <<level, tickets, ticks, cpu, passvars, locked, failed, np, ticked>>

FreeSlot == IF InState("UNUSED") = {} THEN None ELSE Min(InState("UNUSED"))

\* fork(): allocproc draws until the number of tickets is not 0.  The loop
\* has ptable.lock, so the clock stands still and it ends at once or never.
Alloc ==
  /\ Acts /\ FreeSlot # None
  /\ IF Draw(ticks, DrawnTickets) = 0
     THEN locked' = TRUE /\ UNCHANGED <<procvars, failed, np>>
     ELSE /\ state' = [state EXCEPT ![FreeSlot] = "EMBRYO"]
          /\ level' = [level EXCEPT ![FreeSlot] = "LOTTERY"]
          /\ tickets' = [tickets EXCEPT ![FreeSlot] = Draw(ticks, DrawnTickets)]
          /\ failed' = failed \ {FreeSlot}
          /\ np' = [np EXCEPT ![cpu] = FreeSlot]
          /\ UNCHANGED locked
  /\ UNCHANGED <<ticks, cpu, passvars, ticked>>

\* The new process becomes runnable, or there is no memory for it, and its
\* slot is free again but keeps its pid.
EndFork ==
  /\ cpu # None /\ ~locked /\ np[cpu] # None
  /\ \E s \in {"RUNNABLE", "UNUSED"} :
       /\ state' = [state EXCEPT ![np[cpu]] = s]
       /\ failed' = IF s = "UNUSED" THEN failed \cup {np[cpu]} ELSE failed
  /\ np' = [np EXCEPT ![cpu] = None]
  /\ UNCHANGED <<level, tickets, ticks, cpu, passvars, locked, ticked>>

Exec ==
  /\ Acts
  /\ tickets' = [tickets EXCEPT ![cpu] = ExecTickets]
  /\ UNCHANGED <<state, level, ticks, cpu, passvars, locked, failed, np, ticked>>

\* set_tickets and change_queue find the process by its pid; pid 0 is that
\* of the first slot without one.
WithPid == {p \in Slot : state[p] # "UNUSED"} \cup failed
Target ==
  {p \in Settable : p \in WithPid \/ \A q \in 1..(p - 1) : q \in WithPid}

SetTicketsOf ==
  /\ Acts
  /\ \E p \in Target, n \in SetTickets : tickets' = [tickets EXCEPT ![p] = n]
  /\ UNCHANGED <<state, level, ticks, cpu, passvars, locked, failed, np, ticked>>

ChangeQueue ==
  /\ Acts
  /\ \E p \in Target, l \in Level : level' = [level EXCEPT ![p] = l]
  /\ UNCHANGED <<state, tickets, ticks, cpu, passvars, locked, failed, np, ticked>>

-----------------------------------------------------------------------------
Scheduler == DrawTicket \/ Lottery \/ Hrrn \/ Srpf \/ EndPass
Running ==
  Sleep \/ Exit \/ Reap \/ Alloc \/ EndFork \/ Exec \/ SetTicketsOf \/ ChangeQueue

Next == Scheduler \/ TimerYield \/ TimerIdle \/ Wakeup \/ Running

Spec == Init /\ [][Next]_vars

\* The scheduler loops and the timer ticks; programs owe nothing.
Fairness == WF_vars(Scheduler) /\ WF_vars(TimerYield) /\ SF_vars(TimerIdle)

FairSpec == Spec /\ Fairness
-----------------------------------------------------------------------------
(* Type correctness.  One process at most is RUNNING; ptable.lock is the   *)
(* scheduler's exactly from the scan to the end of a pass, so the          *)
(* "continue" that would keep it (proc.c:485) is never taken.              *)
TypeOK ==
  /\ state \in [Slot -> {"UNUSED", "EMBRYO", "SLEEPING", "RUNNABLE", "RUNNING", "ZOMBIE"}]
  /\ level \in [Slot -> Level]
  /\ tickets \in [Slot -> Int]
  /\ ticks \in 0..(WordSize - 1)
  /\ cpu \in Slot \cup {None}
  /\ at \in {"draw", "lottery", "hrrn", "srpf", "end"}
  /\ rnd \in Int
  /\ found \subseteq Level
  /\ locked \in BOOLEAN /\ ticked \in BOOLEAN
  /\ np \in [Slot -> Slot \cup {None}]
  /\ \A p \in Slot : np[p] # None => state[np[p]] = "EMBRYO"
  /\ InState("RUNNING") = {cpu} \ {None}
  /\ cpu = None => (locked <=> at \in {"hrrn", "srpf", "end"})

(* allocproc's loop, which waits for a draw other than 0 with the lock     *)
(* held and the clock stopped (proc.c:118), is never entered for good.     *)
AllocReturns == cpu # None => ~locked

(* While a LOTTERY process is runnable, one of the level gets the CPU in   *)
(* the end: no combination of dead processes' tickets and of negative ones *)
(* makes every draw miss, as long as init keeps its tickets.               *)
LotteryServed ==
  Runnable("LOTTERY") # {} ~> Runnable("LOTTERY") = {} \/ (cpu # None /\ level[cpu] = "LOTTERY")

(* A runnable SRPF process waits for the HRRN level, not for the LOTTERY   *)
(* level: one of the two lower levels gets the CPU however many LOTTERY    *)
(* processes there are.                                                    *)
SrpfServed ==
  Runnable("SRPF") # {} ~> Runnable("SRPF") = {} \/ (cpu # None /\ level[cpu] # "LOTTERY")
=============================================================================
