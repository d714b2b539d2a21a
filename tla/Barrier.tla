------------------------------- MODULE Barrier -------------------------------
(***************************************************************************)
(* The lab's barrier, OS-lab-xv6-lock/proc.c, as bar.c uses it: a group of *)
(* "number" processes calls barrier(number) several times in a row.        *)
(*                                                                         *)
(* The scheduler is there only for what the barrier depends on: at most    *)
(* NCPU processes run, and the timer preempts a process wherever it holds  *)
(* no spin lock.  sleep() and wakeup() are one step each, as ptable.lock   *)
(* makes them; module ProcTable has their details.                         *)
(***************************************************************************)
EXTENDS Integers, FiniteSets

CONSTANTS
  Group,   \* the processes of the group
  number,  \* the argument of every barrier call
  NCPU,    \* the processors
  Calls,   \* how often each process calls barrier (three times in bar.c)
  Unlocked \* the holder of a free spin lock

\* What the theorems assume of these.
BarrierAssumption ==
  /\ IsFiniteSet(Group)
  /\ number \in Nat \ {0}
  /\ NCPU \in Nat \ {0}
  /\ Calls \in Nat
  /\ Unlocked \notin Group

VARIABLES
  waitCount,  \* bar.waitCount
  countLock,  \* the process that holds bar.countLock
  sl,         \* the process that holds bar.sl
  at,         \* where each process is in barrier
  running,    \* the processes that are on a CPU
  entered,    \* the barrier calls each process has made ...
  passed,     \* ... and those it has returned from
  rounds,     \* the rounds the barrier has completed
  round       \* the round each process was last counted in

barrierVars == <<waitCount, countLock, sl, at, running, entered, passed, rounds, round>>

\* init_barrier, before the group is forked.
InitBarrier ==
  /\ waitCount = 0
  /\ countLock = Unlocked
  /\ sl = Unlocked
  /\ at = [p \in Group |-> "user"]
  /\ running = {}
  /\ entered = [p \in Group |-> 0]
  /\ passed = [p \in Group |-> 0]
  /\ rounds = 0
  /\ round = [p \in Group |-> -1]

At(p, here) == p \in running /\ at[p] = here
Proceed(p, there) == at' = [at EXCEPT ![p] = there]

\* barrier returns to the process.
Pass(p) ==
  /\ passed' = [passed EXCEPT ![p] = @ + 1]
  /\ Proceed(p, "user")

\* A call of barrier, and its test of waitCount without countLock.
Enter(p) ==
  /\ At(p, "user")
  /\ entered[p] < Calls
  /\ entered' = [entered EXCEPT ![p] = @ + 1]
  /\ IF waitCount < number
     THEN Proceed(p, "count") /\ UNCHANGED passed
     ELSE Pass(p)
  /\ UNCHANGED <<waitCount, countLock, sl, running, rounds, round>>

IsLast(n) == n = number

\* Under countLock a process counts itself.
Count(p) ==
  /\ At(p, "count")
  /\ countLock = Unlocked
  /\ countLock' = p
  /\ waitCount' = waitCount + 1
  /\ round' = [round EXCEPT ![p] = rounds]
  /\ Proceed(p, IF IsLast(waitCount + 1) THEN "wake" ELSE "leave")
  /\ UNCHANGED <<sl, running, entered, passed, rounds>>

\* The last one wakes the sleepers ...
WakeAll(p) ==
  /\ At(p, "wake")
  /\ at' = [q \in Group |->
              IF q = p THEN "reset" ELSE IF at[q] = "asleep" THEN "woken" ELSE at[q]]
  /\ UNCHANGED <<waitCount, countLock, sl, running, entered, passed, rounds, round>>

ResetCount(n) == 0

\* ... and only then resets the count, releases countLock and returns.
Reset(p) ==
  /\ At(p, "reset")
  /\ waitCount' = ResetCount(waitCount)
  /\ countLock' = Unlocked
  /\ rounds' = rounds + 1
  /\ Pass(p)
  /\ UNCHANGED <<sl, running, entered, round>>

\* The others release countLock, and then go for sl.
Leave(p) ==
  /\ At(p, "leave")
  /\ countLock' = Unlocked
  /\ Proceed(p, "lock_sl")
  /\ UNCHANGED <<waitCount, sl, running, entered, passed, rounds, round>>

LockSl(p) ==
  /\ At(p, "lock_sl")
  /\ sl = Unlocked
  /\ sl' = p
  /\ Proceed(p, "sleep")
  /\ UNCHANGED <<waitCount, countLock, running, entered, passed, rounds, round>>

\* sleep(&bar.sl, &bar.sl), with no test of what the process waits for.
Sleep(p) ==
  /\ At(p, "sleep")
  /\ sl' = Unlocked
  /\ running' = running \ {p}
  /\ Proceed(p, "asleep")
  /\ UNCHANGED <<waitCount, countLock, entered, passed, rounds, round>>

\* sleep returns with sl, which barrier releases.
Wake(p) ==
  /\ At(p, "woken")
  /\ sl = Unlocked
  /\ Pass(p)
  /\ UNCHANGED <<waitCount, countLock, sl, running, entered, rounds, round>>

-----------------------------------------------------------------------------
Dispatch(p) ==
  /\ p \notin running
  /\ at[p] # "asleep"
  /\ Cardinality(running) < NCPU
  /\ running' = running \cup {p}
  /\ UNCHANGED <<waitCount, countLock, sl, at, entered, passed, rounds, round>>

\* The timer interrupts a process that has interrupts enabled.
Preempt(p) ==
  /\ p \in running
  /\ p \notin {countLock, sl}
  /\ running' = running \ {p}
  /\ UNCHANGED <<waitCount, countLock, sl, at, entered, passed, rounds, round>>

Step(p) ==
  \/ Enter(p) \/ Count(p) \/ WakeAll(p) \/ Reset(p)
  \/ Leave(p) \/ LockSl(p) \/ Sleep(p) \/ Wake(p)

BarrierNext == \E p \in Group : Step(p) \/ Dispatch(p) \/ Preempt(p)

BarrierSpec == InitBarrier /\ [][BarrierNext]_barrierVars

-----------------------------------------------------------------------------
\* The count never passes number, whose case barrier leaves out (it would
\* return with countLock held), and it reaches it only under countLock.  It is
\* the number of processes counted since the last reset: none is counted twice
\* in a round, however it overtakes the others.
BarrierTypeOK ==
  /\ waitCount \in 0..number
  /\ countLock \in Group \cup {Unlocked}
  /\ waitCount = number => countLock # Unlocked
  /\ waitCount = Cardinality({p \in Group : round[p] = rounds})
  /\ sl \in Group \cup {Unlocked}
  /\ at \in [Group -> {"user", "count", "wake", "reset", "leave", "lock_sl", "sleep",
                      "asleep", "woken"}]
  /\ running \subseteq Group /\ Cardinality(running) <= NCPU
  /\ entered \in [Group -> 0..Calls]
  /\ passed \in [Group -> 0..Calls]

\* A process that barrier has counted is woken, or returns, only when number
\* processes have been counted in that same round, however many CPUs there are
\* and whoever is let past the count, is late for the wakeup, or is woken by
\* that of a later round.
RoundIsFull ==
  \A p \in Group :
    at[p] \in {"user", "woken"} => round[p] < rounds \/ waitCount = number

\* "all processes arrived" (proc.c): nobody returns from its n-th call of
\* barrier before everybody has made theirs.  On two CPUs the code breaks it: a process
\* that the wakeup has let go and that calls barrier again reads the old count.
BarrierHolds == \A p, q \in Group : passed[p] <= entered[q]
=============================================================================
