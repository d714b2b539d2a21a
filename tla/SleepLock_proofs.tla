-------------------------- MODULE SleepLock_proofs --------------------------
(***************************************************************************)
(* The safety of the sleep locks, for any number of processes; below, that *)
(* of the barrier.                                                         *)
(*                                                                         *)
(* NoLostWakeup is not inductive: a process that has tested lk->locked     *)
(* is not asleep yet.  It counts as a sleeper from the moment it has       *)
(* ptable.lock, which keeps every wakeup out until it does sleep.          *)
(***************************************************************************)
EXTENDS SleepLock, Barrier, FiniteSetTheorems, TLAPS

\* Whoever sleeps, or has gone too far to notice a wakeup, will be woken.
Announced ==
  (\E p \in Proc : pc[p] \in {"unlock_lk", "sched", "asleep"}) =>
    locked \/ \E q \in Proc : pc[q] = "wake"

IInv == TypeOK /\ OwnerKnows /\ Announced

\* A free lock, free spin locks and idle processes satisfy the invariant.
LEMMA InitIInv == Init => IInv
BY SleepLockAssumption DEF Init, IInv, TypeOK, PC, OwnerKnows, Holdingsleep, Announced,
   SleepLockAssumption

\* Every step of acquiresleep, releasesleep, sleep, wakeup and kill keeps it.
LEMMA NextIInv == IInv /\ [Next]_vars => IInv'
<1> SUFFICES ASSUME IInv, [Next]_vars PROVE IInv'
  OBVIOUS
<1> USE SleepLockAssumption DEF IInv, SleepLockAssumption, Goto, Holdingsleep
<1>1. CASE UNCHANGED vars
  BY <1>1 DEF vars, TypeOK, OwnerKnows, Announced
<1>2. ASSUME NEW p \in Proc, LockInner(p)
      PROVE  IInv'
  <2>1. TypeOK'
    BY <1>2 DEF LockInner, TypeOK, PC
  <2>2. OwnerKnows'
    BY <1>2 DEF LockInner, TypeOK, OwnerKnows
  <2>3. Announced'
    BY <1>2 DEF LockInner, TypeOK, Announced
  <2> QED
    BY <2>1, <2>2, <2>3
<1>3. ASSUME NEW p \in Proc, Take(p)
      PROVE  IInv'
  <2>1. TypeOK'
    BY <1>3 DEF Take, TypeOK, PC
  <2>2. OwnerKnows'
    BY <1>3 DEF Take, LockIsFree, TypeOK, OwnerKnows
  <2>3. Announced'
    BY <1>3 DEF Take, TypeOK, Announced
  <2> QED
    BY <2>1, <2>2, <2>3
<1>4. ASSUME NEW p \in Proc, SleepLockTable(p)
      PROVE  IInv'
  <2>1. TypeOK'
    BY <1>4 DEF SleepLockTable, TypeOK, PC
  <2>2. OwnerKnows'
    BY <1>4 DEF SleepLockTable, TypeOK, OwnerKnows
  <2>3. Announced'
    BY <1>4 DEF SleepLockTable, TypeOK, Announced
  <2> QED
    BY <2>1, <2>2, <2>3
<1>5. ASSUME NEW p \in Proc, SleepUnlock(p)
      PROVE  IInv'
  <2>1. TypeOK'
    BY <1>5 DEF SleepUnlock, TypeOK, PC
  <2>2. OwnerKnows'
    BY <1>5 DEF SleepUnlock, TypeOK, OwnerKnows
  <2>3. Announced'
    BY <1>5 DEF SleepUnlock, TypeOK, Announced
  <2> QED
    BY <2>1, <2>2, <2>3
<1>6. ASSUME NEW p \in Proc, FallAsleep(p)
      PROVE  IInv'
  <2>1. TypeOK'
    BY <1>6 DEF FallAsleep, TypeOK, PC
  <2>2. OwnerKnows'
    BY <1>6 DEF FallAsleep, TypeOK, OwnerKnows
  <2>3. Announced'
    BY <1>6 DEF FallAsleep, TypeOK, Announced
  <2> QED
    BY <2>1, <2>2, <2>3
<1>7. ASSUME NEW p \in Proc, Release(p)
      PROVE  IInv'
  <2>1. TypeOK'
    BY <1>7 DEF Release, TypeOK, PC
  <2>2. OwnerKnows'
    BY <1>7 DEF Release, TypeOK, OwnerKnows
  <2>3. Announced'
    BY <1>7 DEF Release, TypeOK, Announced
  <2> QED
    BY <2>1, <2>2, <2>3
<1>8. ASSUME NEW p \in Proc, Wakeup(p)
      PROVE  IInv'
  <2>1. TypeOK'
    BY <1>8 DEF Wakeup, Wakes, TypeOK, PC
  <2>2. OwnerKnows'
    BY <1>8 DEF Wakeup, Wakes, TypeOK, OwnerKnows
  <2>3. Announced'
    BY <1>8 DEF Wakeup, Wakes, TypeOK, Announced
  <2> QED
    BY <2>1, <2>2, <2>3
<1>9. ASSUME NEW p \in Proc, Kill(p)
      PROVE  IInv'
  <2>1. TypeOK'
    BY <1>9 DEF Kill, TypeOK, PC
  <2>2. OwnerKnows'
    BY <1>9 DEF Kill, TypeOK, OwnerKnows
  <2>3. Announced'
    BY <1>9 DEF Kill, TypeOK, Announced
  <2> QED
    BY <2>1, <2>2, <2>3
<1> QED
  BY <1>1, <1>2, <1>3, <1>4, <1>5, <1>6, <1>7, <1>8, <1>9 DEF Next, Inside

\* The inductive invariant holds of every run.
THEOREM Invariant == Spec => []IInv
<1> QED
  BY InitIInv, NextIInv, PTL DEF Spec

\* lk->lk and ptable.lock are held exactly at the places of acquiresleep,
\* sleep and releasesleep where the code holds them.
THEOREM TypeCorrect == Spec => []TypeOK
<1>1. IInv => TypeOK
  BY DEF IInv
<1> QED
  BY <1>1, Invariant, PTL

\* holdingsleep, on which brelse, bwrite and iunlock base their panics, is
\* true of a process exactly while it owns the lock.
THEOREM OwnerAlwaysKnows == Spec => []OwnerKnows
<1>1. IInv => OwnerKnows
  BY DEF IInv
<1> QED
  BY <1>1, Invariant, PTL

\* acquiresleep never sleeps through the releasesleep it waits for.
THEOREM WakeupsAreNotLost == Spec => []NoLostWakeup
<1>1. IInv => NoLostWakeup
  BY DEF IInv, Announced, NoLostWakeup
<1> QED
  BY <1>1, Invariant, PTL

\* The sleep lock implements the mutex: it is taken when acquiresleep finds
\* it free, and freed at once by releasesleep, whoever sleeps or is killed.
THEOREM Implementation == Spec => ImplementsMutex
<1>1. Init => Abstract!Init
  BY DEF Init, Owner, Abstract!Init
<1>2. IInv /\ [Next]_vars => [Abstract!Next]_Owner
  <2> SUFFICES ASSUME IInv, [Next]_vars PROVE [Abstract!Next]_Owner
    OBVIOUS
  <2>1. ASSUME NEW p \in Proc, Take(p)
        PROVE  Abstract!Next
    <3>1. Abstract!Take(p, "lk")
      BY <2>1 DEF Take, LockIsFree, Owner, Abstract!Take
    <3> QED
      BY <3>1 DEF Abstract!Next
  <2>2. ASSUME NEW p \in Proc, Release(p)
        PROVE  Abstract!Next
    <3>1. locked /\ pid = p
      BY <2>2 DEF IInv, OwnerKnows, Holdingsleep, Release
    <3>2. Abstract!Give(p, "lk")
      BY <2>2, <3>1 DEF Release, Owner, Abstract!Give
    <3> QED
      BY <3>2 DEF Abstract!Next
  <2>3. ASSUME UNCHANGED <<locked, pid>>
        PROVE  Owner' = Owner
    BY <2>3 DEF Owner
  <2> QED
    BY <2>1, <2>2, <2>3 DEF Next, Inside, vars, LockInner, SleepLockTable, SleepUnlock,
       FallAsleep, Wakeup, Kill
<1> QED
  BY <1>1, <1>2, Invariant, PTL DEF Spec, ImplementsMutex, Abstract!Spec

-----------------------------------------------------------------------------
(***************************************************************************)
(* The barrier, whose processes sleep in the same way, but without a test  *)
(* of what they wait for.                                                  *)
(*                                                                         *)
(* The count is true (BarrierCounts), and a round is full when it lets its *)
(* processes go (RoundsAreFull), on any number of CPUs: a process that is  *)
(* counted comes out only when the count is complete, and Enter then lets  *)
(* it pass again instead of having it counted twice (CountedOnce).         *)
(***************************************************************************)

\* Is a process counted in the round that goes on?
Counted(p) == round[p] = rounds

CountLocked == {"wake", "reset", "leave"}

BarrierTypes ==
  /\ waitCount \in Nat /\ rounds \in Nat
  /\ countLock \in Group \cup {Unlocked} /\ sl \in Group \cup {Unlocked}
  /\ at \in [Group -> {"user", "count", "lock_sl", "sleep", "asleep", "woken"} \cup CountLocked]
  /\ running \subseteq Group /\ IsFiniteSet(running) /\ Cardinality(running) <= NCPU
  /\ entered \in [Group -> 0..Calls] /\ passed \in [Group -> 0..Calls]
  /\ round \in [Group -> Nat \cup {-1}]

\* A process has returned from all its calls, but for the one that it is in.
Calling ==
  \A p \in Group : passed[p] = IF at[p] = "user" THEN entered[p] ELSE entered[p] - 1

\* The locks are held where the code says so.
BarrierLocks ==
  /\ \A p \in Group : countLock = p <=> at[p] \in CountLocked
  /\ \A p \in Group : sl = p <=> at[p] = "sleep"

\* The count is true, and complete exactly while the last one is at work.
CountTrue ==
  /\ waitCount = Cardinality({p \in Group : Counted(p)})
  /\ waitCount <= number
  /\ waitCount = number <=> \E p \in Group : at[p] \in {"wake", "reset"}

\* Nobody is counted who will be counted in the round again: a counted process
\* leaves the barrier only when the count is complete, and Enter then tests it.
CountedOnce ==
  \A p \in Group :
    /\ round[p] <= rounds
    /\ at[p] = "count" => ~Counted(p)
    /\ at[p] \in {"user", "woken"} /\ Counted(p) => waitCount = number
    /\ at[p] \in CountLocked => Counted(p)

BInv == BarrierTypes /\ Calling /\ BarrierLocks /\ CountTrue /\ CountedOnce
\* A call that the count turns away passes, which is still within Calls.
LEMMA EnterCounts ==
  ASSUME BarrierAssumption, BInv, NEW p \in Group, Enter(p)
  PROVE  BInv'
<1> USE DEF BInv, Enter, At, Proceed, Pass, BarrierAssumption, Counted
<1>1. BarrierTypes'
  <2>1. entered' \in [Group -> 0..Calls]
    BY DEF BarrierTypes
  <2>2. passed' \in [Group -> 0..Calls]
    BY DEF BarrierTypes, Calling
  <2> QED
    BY <2>1, <2>2 DEF BarrierTypes
<1>2. Calling'
  BY DEF BarrierTypes, Calling, CountLocked
<1>3. BarrierLocks'
  BY DEF BarrierTypes, CountLocked, BarrierLocks
<1>4. CountTrue'
  BY DEF BarrierTypes, CountLocked, BarrierLocks, CountTrue
<1>5. CountedOnce'
  BY DEF BarrierTypes, CountLocked, CountTrue, CountedOnce
<1> QED
  BY <1>1, <1>2, <1>3, <1>4, <1>5

\* The process was not in the count before.
LEMMA CountCounts ==
  ASSUME BarrierAssumption, BInv, NEW p \in Group, Count(p)
  PROVE  BInv'
<1> USE DEF BInv, Count, At, Proceed, IsLast, BarrierAssumption, Counted
<1>1. BarrierTypes'
  BY DEF BarrierTypes, CountLocked
<1>2. Calling'
  BY DEF BarrierTypes, Calling
<1>3. BarrierLocks'
  BY DEF BarrierTypes, CountLocked, BarrierLocks
<1>4. CountTrue'
  <2> DEFINE C == {q \in Group : Counted(q)}
  <2>1. C \in SUBSET Group /\ IsFiniteSet(Group)
    OBVIOUS
  <2> HIDE DEF C
  <2>2. IsFiniteSet(C)
    BY <2>1, FS_Subset
  <2> USE DEF C
  <2>3. p \notin C
    BY DEF CountedOnce
  <2>4. {q \in Group : round'[q] = rounds'} = C \cup {p}
    BY DEF BarrierTypes
  <2>5. waitCount' = Cardinality({q \in Group : round'[q] = rounds'})
    BY <2>2, <2>4, <2>3, FS_AddElement DEF CountTrue
  <2>6. waitCount < number
    BY DEF BarrierTypes, BarrierLocks, CountLocked, CountTrue
  <2>7. waitCount' <= number /\ (waitCount' = number => at'[p] = "wake")
    BY <2>6 DEF BarrierTypes
  <2>8. waitCount' # number => \A q \in Group : at'[q] \notin {"wake", "reset"}
    BY <2>6 DEF BarrierTypes, BarrierLocks, CountLocked
  <2> QED
    BY <2>5, <2>7, <2>8 DEF CountTrue
<1>5. CountedOnce'
  BY DEF BarrierTypes, CountLocked, BarrierLocks, CountTrue, CountedOnce
<1> QED
  BY <1>1, <1>2, <1>3, <1>4, <1>5

\* The sleepers that are counted may go: the count is complete.
LEMMA WakeAllCounts ==
  ASSUME BarrierAssumption, BInv, NEW p \in Group, WakeAll(p)
  PROVE  BInv'
<1> USE DEF BInv, WakeAll, At, BarrierAssumption, Counted
<1>1. BarrierTypes'
  BY DEF BarrierTypes, CountLocked
<1>2. Calling'
  BY DEF BarrierTypes, Calling
<1>3. BarrierLocks'
  BY DEF CountLocked, BarrierLocks
<1>4. CountTrue'
  BY DEF CountLocked, BarrierLocks, CountTrue
<1>5. CountedOnce'
  BY DEF CountLocked, CountTrue, CountedOnce
<1> QED
  BY <1>1, <1>2, <1>3, <1>4, <1>5

\* A new round begins, with nobody in the count.
LEMMA ResetCounts ==
  ASSUME BarrierAssumption, BInv, NEW p \in Group, Reset(p)
  PROVE  BInv'
<1> USE DEF BInv, Reset, At, Proceed, Pass, ResetCount, BarrierAssumption, Counted
<1>1. BarrierTypes'
  <2>1. passed' \in [Group -> 0..Calls]
    BY DEF BarrierTypes, Calling
  <2> QED
    BY <2>1 DEF BarrierTypes
<1>2. Calling'
  BY DEF BarrierTypes, Calling
<1>3. BarrierLocks'
  BY DEF BarrierTypes, CountLocked, BarrierLocks
<1>4. CountTrue'
  <2>1. {q \in Group : round'[q] = rounds'} = {}
    BY DEF BarrierTypes, CountedOnce
  <2>2. \A q \in Group : at'[q] \notin {"wake", "reset"}
    BY DEF BarrierTypes, BarrierLocks
  <2> QED
    BY <2>1, <2>2, FS_EmptySet DEF CountTrue
<1>5. CountedOnce'
  BY DEF BarrierTypes, CountLocked, BarrierLocks, CountTrue, CountedOnce
<1> QED
  BY <1>1, <1>2, <1>3, <1>4, <1>5

\* The lock goes, and the count is not complete.
LEMMA LeaveCounts ==
  ASSUME BarrierAssumption, BInv, NEW p \in Group, Leave(p)
  PROVE  BInv'
<1> USE DEF BInv, Leave, At, Proceed, BarrierAssumption, Counted
<1>1. BarrierTypes'
  BY DEF BarrierTypes, CountLocked
<1>2. Calling'
  BY DEF BarrierTypes, Calling
<1>3. BarrierLocks'
  BY DEF BarrierTypes, CountLocked, BarrierLocks
<1>4. CountTrue'
  BY DEF BarrierTypes, CountLocked, BarrierLocks, CountTrue
<1>5. CountedOnce'
  BY DEF CountLocked, CountTrue, CountedOnce
<1> QED
  BY <1>1, <1>2, <1>3, <1>4, <1>5

LEMMA LockSlCounts ==
  ASSUME BarrierAssumption, BInv, NEW p \in Group, LockSl(p)
  PROVE  BInv'
<1> USE DEF BInv, LockSl, At, Proceed, BarrierAssumption, Counted
<1>1. BarrierTypes'
  BY DEF BarrierTypes, CountLocked
<1>2. Calling'
  BY DEF BarrierTypes, Calling
<1>3. BarrierLocks'
  BY DEF BarrierTypes, CountLocked, BarrierLocks
<1>4. CountTrue'
  BY DEF BarrierTypes, CountLocked, BarrierLocks, CountTrue
<1>5. CountedOnce'
  BY DEF CountLocked, CountTrue, CountedOnce
<1> QED
  BY <1>1, <1>2, <1>3, <1>4, <1>5

\* A sleeper leaves its CPU.
LEMMA SleepCounts ==
  ASSUME BarrierAssumption, BInv, NEW p \in Group, Sleep(p)
  PROVE  BInv'
<1> USE DEF BInv, Sleep, At, Proceed, BarrierAssumption, Counted
<1>1. BarrierTypes'
  <2>1. /\ IsFiniteSet(running') /\ Cardinality(running) \in Nat
        /\ Cardinality(running') <= Cardinality(running)
    BY FS_Subset, FS_CardinalityType DEF BarrierTypes
  <2>2. Cardinality(running') \in Nat
    BY <2>1, FS_CardinalityType
  <2> QED
    BY <2>1, <2>2 DEF BarrierTypes
<1>2. Calling'
  BY DEF BarrierTypes, Calling, CountLocked
<1>3. BarrierLocks'
  BY DEF BarrierTypes, CountLocked, BarrierLocks
<1>4. CountTrue'
  BY DEF BarrierTypes, CountLocked, BarrierLocks, CountTrue
<1>5. CountedOnce'
  BY DEF CountLocked, CountTrue, CountedOnce
<1> QED
  BY <1>1, <1>2, <1>3, <1>4, <1>5

LEMMA WakeCounts ==
  ASSUME BarrierAssumption, BInv, NEW p \in Group, Wake(p)
  PROVE  BInv'
<1> USE DEF BInv, Wake, At, Proceed, Pass, BarrierAssumption, Counted
<1>1. BarrierTypes'
  <2>1. passed' \in [Group -> 0..Calls]
    BY DEF BarrierTypes, Calling
  <2> QED
    BY <2>1 DEF BarrierTypes
<1>2. Calling'
  BY DEF BarrierTypes, Calling
<1>3. BarrierLocks'
  BY DEF BarrierTypes, CountLocked, BarrierLocks
<1>4. CountTrue'
  BY DEF CountLocked, BarrierLocks, CountTrue
<1>5. CountedOnce'
  BY DEF CountLocked, CountTrue, CountedOnce
<1> QED
  BY <1>1, <1>2, <1>3, <1>4, <1>5

\* A free CPU is used.
LEMMA DispatchCounts ==
  ASSUME BarrierAssumption, BInv, NEW p \in Group, Dispatch(p)
  PROVE  BInv'
<1> USE DEF BInv, Dispatch, BarrierAssumption, Counted
<1>1. BarrierTypes'
  <2>1. IsFiniteSet(running') /\ Cardinality(running') = Cardinality(running) + 1 /\ Cardinality(running) \in Nat
    BY FS_AddElement, FS_CardinalityType DEF BarrierTypes
  <2>2. Cardinality(running') <= NCPU
    BY <2>1
  <2> QED
    BY <2>1, <2>2 DEF BarrierTypes
<1>2. Calling'
  BY DEF BarrierTypes, Calling, BarrierLocks
<1>3. BarrierLocks'
  BY DEF CountLocked, BarrierLocks
<1>4. CountTrue'
  BY DEF BarrierLocks, CountTrue
<1>5. CountedOnce'
  BY DEF CountTrue, CountedOnce
<1> QED
  BY <1>1, <1>2, <1>3, <1>4, <1>5

LEMMA PreemptCounts ==
  ASSUME BarrierAssumption, BInv, NEW p \in Group, Preempt(p)
  PROVE  BInv'
<1> USE DEF BInv, Preempt, BarrierAssumption, Counted
<1>1. BarrierTypes'
  <2>1. /\ IsFiniteSet(running') /\ Cardinality(running) \in Nat
        /\ Cardinality(running') <= Cardinality(running)
    BY FS_Subset, FS_CardinalityType DEF BarrierTypes
  <2>2. Cardinality(running') \in Nat
    BY <2>1, FS_CardinalityType
  <2> QED
    BY <2>1, <2>2 DEF BarrierTypes
<1>2. Calling'
  BY DEF BarrierTypes, Calling, CountLocked
<1>3. BarrierLocks'
  BY DEF CountLocked, BarrierLocks
<1>4. CountTrue'
  BY DEF BarrierLocks, CountTrue
<1>5. CountedOnce'
  BY DEF CountTrue, CountedOnce
<1> QED
  BY <1>1, <1>2, <1>3, <1>4, <1>5

\* The group has not started.
LEMMA BarrierStarts ==
  ASSUME BarrierAssumption, InitBarrier
  PROVE  BInv
<1> USE DEF InitBarrier, BarrierAssumption, Counted
<1>1. BarrierTypes
  BY FS_EmptySet DEF BarrierTypes
<1>2. CountTrue
  BY FS_EmptySet DEF CountTrue
<1> QED
  BY <1>1, <1>2 DEF BInv, Calling, BarrierLocks, CountLocked, CountedOnce

LEMMA BarrierStep ==
  ASSUME BarrierAssumption, BInv, [BarrierNext]_barrierVars
  PROVE  BInv'
<1>1. CASE UNCHANGED barrierVars
  BY <1>1 DEF barrierVars, BInv, BarrierTypes, Calling, BarrierLocks, CountTrue, CountedOnce, Counted
<1>2. CASE BarrierNext
  BY <1>2, EnterCounts, CountCounts, WakeAllCounts, ResetCounts, LeaveCounts, LockSlCounts,
     SleepCounts, WakeCounts, DispatchCounts, PreemptCounts DEF BarrierNext, Step
<1> QED
  BY <1>1, <1>2

\* The barrier's invariant is one, with any number of processors.
THEOREM BarrierInvariant ==
  ASSUME BarrierAssumption
  PROVE  BarrierSpec => []BInv
BY BarrierStarts, BarrierStep, PTL DEF BarrierSpec

\* What the count and the locks of barrier are worth, on any number of CPUs and
\* for any argument: the count is the number of the processes counted since the
\* last reset, it never passes number, and reaches it only under countLock.
\* The count is that of the processes counted since the last reset: barrier
\* counts nobody twice in a round, and the count reaches the argument only
\* under countLock, whatever the number of processors.
THEOREM BarrierCounts ==
  ASSUME BarrierAssumption
  PROVE  BarrierSpec => []BarrierTypeOK
<1>1. BInv => BarrierTypeOK
  <2> SUFFICES ASSUME BInv PROVE BarrierTypeOK
    OBVIOUS
  <2>1. waitCount = number => countLock # Unlocked
    BY DEF BarrierAssumption, BInv, BarrierLocks, CountTrue, CountLocked
  <2>2. waitCount \in 0..number /\ waitCount = Cardinality({p \in Group : round[p] = rounds})
    BY DEF BInv, BarrierTypes, CountTrue, Counted
  <2>3. at \in [Group -> {"user", "count", "wake", "reset", "leave", "lock_sl", "sleep", "asleep", "woken"}]
    BY DEF BInv, BarrierTypes, CountLocked
  <2> QED
    BY <2>1, <2>2, <2>3 DEF BInv, BarrierTypes, BarrierTypeOK
<1> QED
  BY <1>1, BarrierInvariant, PTL

\* Whoever barrier has counted goes on only when a full number of processes have
\* been counted in that round, on any number of CPUs (the test of waitCount under
\* countLock, the wakeup, the reset).  What it does not promise to those who are
\* let past the count is the subject of BarrierHolds.
THEOREM RoundsAreFull ==
  ASSUME BarrierAssumption
  PROVE  BarrierSpec => []RoundIsFull
<1>1. BInv => RoundIsFull
  <2> SUFFICES ASSUME BInv, NEW p \in Group, at[p] \in {"user", "woken"}, waitCount # number
               PROVE  round[p] < rounds
    BY DEF RoundIsFull
  <2>1. round[p] <= rounds /\ ~Counted(p)
    BY DEF BInv, CountedOnce
  <2>2. round[p] \in Int /\ rounds \in Int
    BY DEF BInv, BarrierTypes
  <2> QED
    BY <2>1, <2>2 DEF Counted
<1> QED
  BY <1>1, BarrierInvariant, PTL
=============================================================================
