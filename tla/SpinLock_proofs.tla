--------------------------- MODULE SpinLock_proofs ---------------------------
(***************************************************************************)
(* The safety of the spin locks, for any CPUs, locks and callers.          *)
(*                                                                         *)
(* Mutual exclusion is not inductive by itself: a release is only harmless *)
(* because holding() is right, holding() is right because lk->cpu names    *)
(* the owner, and that only stays true because a handler never finds the   *)
(* thread below it inside a lock, which in turn rests on the counts of     *)
(* pushcli and popcli.  IInv is the conjunction of these facts.            *)
(***************************************************************************)
EXTENDS SpinLock, FiniteSetTheorems, TLAPS

\* A context that is inside a call has a lock to work on, and one that has
\* got as far as these steps holds it.
Calls ==
  \A c \in CPU, k \in Context :
    /\ pc[c][k] \notin {"run", "off"} => lk[c][k] \in Lock
    /\ pc[c][k] \in {"setcpu", "clearcpu", "unlock"} => lk[c][k] \in held[c][k]
    /\ pc[c]["intr"] = "holding?" => lk[c]["intr"] \in held[c]["intr"]
    /\ pc[c]["base"] # "off"

\* lk->cpu names the owner, from setcpu until clearcpu.
CpuIsOwner ==
  /\ \A l \in Lock, c \in CPU : cpu[l] = c =>
       \E k \in Context : l \in held[c][k] /\ ~(pc[c][k] = "unlock" /\ lk[c][k] = l)
  /\ \A l \in Lock, c \in CPU, k \in Context : l \in held[c][k] =>
       cpu[l] = c \/ (pc[c][k] \in {"setcpu", "unlock"} /\ lk[c][k] = l)

\* A handler runs on top of a thread that holds nothing, and takes one lock
\* at a time.
HandlerAlone ==
  \A c \in CPU :
    /\ pc[c]["intr"] = "off" => held[c]["intr"] = {}
    /\ pc[c]["intr"] # "off" =>
         held[c]["base"] = {} /\ pc[c]["base"] \in {"run", "pushcli", "holding?"}
    /\ pc[c]["intr"] \in {"pushcli", "locked?", "cpu?", "xchg", "popcli"} =>
         held[c]["intr"] = {}
    /\ \A l, m \in held[c]["intr"] : l = m

\* What pushcli has read and saved is the flag the outermost level found.
FlagSaved ==
  \A c \in CPU :
    /\ pc[c]["base"] = "pushcli" => (eflags[c]["base"] <=> held[c]["base"] = {})
    /\ pc[c]["intr"] = "pushcli" => ~eflags[c]["intr"]
    /\ ncli[c] > 0 => (intena[c] <=> pc[c]["intr"] = "off")

IInv ==
  /\ TypeOK
  /\ MutualExclusion
  /\ LockedIffHeld
  /\ Calls
  /\ CpuIsOwner
  /\ HandlerAlone
  /\ FlagSaved
  /\ NcliCountsLocks
  /\ InterruptsRestored
  /\ NoSelfDeadlock

-----------------------------------------------------------------------------
\* What a context holds is finite, so its cardinality counts it.
LEMMA HeldFinite ==
  ASSUME TypeOK, NEW c \in CPU, NEW k \in Context
  PROVE  IsFiniteSet(held[c][k]) /\ Cardinality(held[c][k]) \in Nat
<1>1. held[c][k] \subseteq Lock
  BY DEF TypeOK
<1> QED
  BY <1>1, LockAssumption, FS_Subset, FS_CardinalityType DEF LockAssumption

\* A level is a number, at least that of the call under way.
LEMMA LevelNat ==
  ASSUME TypeOK, NEW c \in CPU, NEW k \in Context
  PROVE  /\ Level(c, k) \in Nat
         /\ Pending(c, k) \in 0..1
         /\ Level(c, k) >= Pending(c, k)
<1>1. Cardinality(held[c][k]) \in Nat
  BY HeldFinite
<1>2. Pending(c, k) \in 0..1
  BY DEF Pending
<1> QED
  BY <1>1, <1>2 DEF Level

\* There is nothing but a thread and a handler.
LEMMA BothContexts ==
  "base" \in Context /\ "intr" \in Context /\ \A k \in Context : k = "base" \/ k = "intr"
  BY DEF Context

\* A step that moves ncli[c] and the level of one context of c by n.
LEMMA CountStep ==
  ASSUME TypeOK, TypeOK', NcliCountsLocks, NEW c \in CPU, NEW k \in Context, NEW n \in Int,
         ncli' = [ncli EXCEPT ![c] = @ + n],
         \A d \in CPU, j \in Context : d # c \/ j # k => pc'[d][j] = pc[d][j] /\ held'[d][j] = held[d][j],
         Level(c, k)' = Level(c, k) + n
  PROVE  NcliCountsLocks'
<1>1. \A d \in CPU, j \in Context : d # c \/ j # k => Level(d, j)' = Level(d, j)
  BY DEF Level, Pending
<1>2. \A d \in CPU, j \in Context : Level(d, j) \in Nat
  BY LevelNat
<1>3. \A d \in CPU : ncli'[d] = IF d = c THEN ncli[d] + n ELSE ncli[d]
  BY DEF TypeOK
<1>4. \A d \in CPU : d # c => ncli'[d] = Level(d, "base")' + Level(d, "intr")'
  BY <1>1, <1>3, BothContexts DEF NcliCountsLocks
<1>5. ncli'[c] = Level(c, "base")' + Level(c, "intr")'
  BY <1>1, <1>2, <1>3, BothContexts DEF NcliCountsLocks
<1> QED
  BY <1>4, <1>5 DEF NcliCountsLocks

\* A thread with no handler above it sees interrupts enabled exactly when it
\* holds no lock, wherever it has made no pushcli of its own.
LEMMA ThreadFlag ==
  ASSUME IInv, NEW c \in CPU, pc[c]["intr"] = "off",
         pc[c]["base"] \in {"run", "pushcli", "holding?"}
  PROVE  (FL_IF[c] <=> held[c]["base"] = {}) /\ (ncli[c] = 0 <=> held[c]["base"] = {})
<1>1. Pending(c, "base") = 0 /\ Pending(c, "intr") = 0
  BY DEF Pending
<1>2. Cardinality(held[c]["intr"]) = 0
  BY FS_EmptySet DEF IInv, HandlerAlone
<1>3. ncli[c] = Cardinality(held[c]["base"])
  BY <1>1, <1>2, HeldFinite, BothContexts DEF IInv, NcliCountsLocks, Level
<1>4. ncli[c] = 0 <=> held[c]["base"] = {}
  BY <1>3, HeldFinite, BothContexts, FS_EmptySet DEF IInv
<1> QED
  BY <1>4 DEF IInv, InterruptsRestored

\* acquire() is entered with the flag that the depth implies.
LEMMA AcquireStep ==
  ASSUME IInv, NEW c \in CPU, NEW k \in Context, NEW l \in Lock, Acquire(c, k, l)
  PROVE  IInv'
<1> USE DEF IInv, At, Goto
<1>1. pc[c][k] = "run" /\ Runs(c, k)
  BY DEF Calls, Runs, Acquire
<1>2. TypeOK'
  BY <1>1 DEF TypeOK, PC, Acquire
<1>3. \A d \in CPU : /\ pc'[d]["intr"] = "off" <=> pc[d]["intr"] = "off"
                     /\ pc'[d]["base"] = "panicRelease" <=> pc[d]["base"] = "panicRelease"
  BY <1>1 DEF TypeOK, Context, Acquire
<1>4. MutualExclusion'
  BY <1>1 DEF TypeOK, Context, MutualExclusion, Acquire
<1>5. LockedIffHeld'
  BY <1>1 DEF TypeOK, Context, LockedIffHeld, Acquire
<1>6. Calls'
  BY <1>1 DEF TypeOK, Context, Calls, Acquire
<1>7. CpuIsOwner'
  BY <1>1 DEF TypeOK, Context, Calls, CpuIsOwner, Acquire
<1>8. HandlerAlone'
  BY <1>1 DEF TypeOK, Context, Runs, HandlerAlone, MayNest, Acquire
<1>9. FlagSaved'
  <2>1. k = "base" => (FL_IF[c] <=> held[c]["base"] = {})
    BY <1>1, ThreadFlag DEF Runs
  <2>2. k = "intr" => ~FL_IF[c]
    BY <1>1 DEF InterruptsRestored
  <2> QED
    BY <1>1, <2>1, <2>2 DEF TypeOK, Context, FlagSaved, Acquire
<1>10. NcliCountsLocks'
  <2>1. Level(c, k)' = Level(c, k) + 0
    <3>1. held'[c][k] = held[c][k]
      BY DEF TypeOK, Acquire
    <3>2. Pending(c, k) = 0 /\ Pending(c, k)' = 0
      BY <1>1 DEF Pending, TypeOK, Acquire
    <3> QED
      BY <3>1, <3>2, HeldFinite, LevelNat DEF Level
  <2>2. ncli' = [ncli EXCEPT ![c] = @ + 0]
    BY DEF TypeOK, Acquire
  <2>3. \A d \in CPU, j \in Context :
           d # c \/ j # k => pc'[d][j] = pc[d][j] /\ held'[d][j] = held[d][j]
    BY DEF TypeOK, Acquire
  <2> QED
    BY <1>2, <2>1, <2>2, <2>3, 0 \in Int, CountStep
<1>11. InterruptsRestored'
  BY <1>1, <1>3 DEF InterruptsRestored, Acquire
<1>12. NoSelfDeadlock'
  BY <1>1 DEF TypeOK, Context, Runs, NoSelfDeadlock, HandlerAlone, Acquire
<1> QED
  BY <1>2, <1>4, <1>5, <1>6, <1>7, <1>8, <1>9, <1>10, <1>11, <1>12

\* pushcli raises the depth and saves the flag at the bottom.
LEMMA PushCliStep ==
  ASSUME IInv, NEW c \in CPU, NEW k \in Context, PushCli(c, k)
  PROVE  IInv'
<1> USE DEF IInv, At, Goto
<1>1. lk[c][k] \in Lock /\ pc[c][k] = "pushcli" /\ Runs(c, k)
  BY DEF Calls, Runs, PushCli
<1>2. TypeOK'
  BY <1>1 DEF TypeOK, PC, PushCli, SavedIF
<1>3. \A d \in CPU : /\ pc'[d]["intr"] = "off" <=> pc[d]["intr"] = "off"
                     /\ pc'[d]["base"] = "panicRelease" <=> pc[d]["base"] = "panicRelease"
  BY <1>1 DEF TypeOK, Context, PushCli, SavedIF
<1>4. MutualExclusion'
  BY <1>1 DEF TypeOK, Context, MutualExclusion, PushCli, SavedIF
<1>5. LockedIffHeld'
  BY <1>1 DEF TypeOK, Context, LockedIffHeld, PushCli, SavedIF
<1>6. Calls'
  BY <1>1 DEF TypeOK, Context, Calls, PushCli, SavedIF
<1>7. CpuIsOwner'
  BY <1>1 DEF TypeOK, Context, Calls, CpuIsOwner, PushCli, SavedIF
<1>8. HandlerAlone'
  BY <1>1 DEF TypeOK, Context, Runs, HandlerAlone, PushCli, SavedIF
<1>9. FlagSaved'
  <2>1. k = "base" => (SavedIF(c, k) <=> TRUE)
    BY <1>1, ThreadFlag DEF Runs, FlagSaved, SavedIF, TypeOK
  <2>2. k = "intr" => (SavedIF(c, k) <=> FALSE)
    BY <1>1 DEF FlagSaved, SavedIF, TypeOK
  <2> QED
    BY <1>1, <2>1, <2>2 DEF TypeOK, Context, Runs, FlagSaved, PushCli
<1>10. NcliCountsLocks'
  <2>1. Level(c, k)' = Level(c, k) + 1
    <3>1. held'[c][k] = held[c][k]
      BY DEF TypeOK, PushCli, SavedIF
    <3>2. Pending(c, k) = 0 /\ Pending(c, k)' = 1
      BY <1>1 DEF Pending, TypeOK, PushCli, SavedIF
    <3> QED
      BY <3>1, <3>2, HeldFinite, LevelNat DEF Level
  <2>2. ncli' = [ncli EXCEPT ![c] = @ + 1]
    BY DEF TypeOK, PushCli, SavedIF
  <2>3. \A d \in CPU, j \in Context :
           d # c \/ j # k => pc'[d][j] = pc[d][j] /\ held'[d][j] = held[d][j]
    BY DEF TypeOK, PushCli, SavedIF
  <2> QED
    BY <1>2, <2>1, <2>2, <2>3, 1 \in Int, CountStep
<1>11. InterruptsRestored'
  <2>1. FL_IF'[c] = FALSE /\ ncli'[c] # 0
    BY <1>1 DEF TypeOK, PushCli
  <2>2. \A d \in CPU : d # c => FL_IF'[d] = FL_IF[d] /\ ncli'[d] = ncli[d]
    BY DEF TypeOK, PushCli
  <2> QED
    BY <1>3, <2>1, <2>2 DEF InterruptsRestored
<1>12. NoSelfDeadlock'
  BY <1>1 DEF TypeOK, Context, Runs, NoSelfDeadlock, HandlerAlone, PushCli, SavedIF
<1> QED
  BY <1>2, <1>4, <1>5, <1>6, <1>7, <1>8, <1>9, <1>10, <1>11, <1>12

\* What holding() reads first tells only that nobody owns a lock.
LEMMA ReadLockedStep ==
  ASSUME IInv, NEW c \in CPU, NEW k \in Context, ReadLocked(c, k)
  PROVE  IInv'
<1> USE DEF IInv, At, Goto
<1>1. lk[c][k] \in Lock /\ pc[c][k] = "locked?"
  BY DEF Calls, Runs, ReadLocked
<1>2. TypeOK'
  BY <1>1 DEF TypeOK, PC, ReadLocked
<1>3. \A d \in CPU : /\ pc'[d]["intr"] = "off" <=> pc[d]["intr"] = "off"
                     /\ pc'[d]["base"] = "panicRelease" <=> pc[d]["base"] = "panicRelease"
  BY <1>1 DEF TypeOK, Context, ReadLocked
<1>4. MutualExclusion'
  BY <1>1 DEF TypeOK, Context, MutualExclusion, ReadLocked
<1>5. LockedIffHeld'
  BY <1>1 DEF TypeOK, Context, LockedIffHeld, ReadLocked
<1>6. Calls'
  BY <1>1 DEF TypeOK, Context, Calls, ReadLocked
<1>7. CpuIsOwner'
  BY <1>1 DEF TypeOK, Context, Calls, CpuIsOwner, ReadLocked
<1>8. HandlerAlone'
  BY <1>1 DEF TypeOK, Context, Runs, HandlerAlone, ReadLocked
<1>9. FlagSaved'
  BY <1>1 DEF TypeOK, Context, Runs, FlagSaved, HandlerAlone, ReadLocked
<1>10. NcliCountsLocks'
  <2>1. Level(c, k)' = Level(c, k) + 0
    <3>1. held'[c][k] = held[c][k]
      BY DEF TypeOK, ReadLocked
    <3>2. Pending(c, k) = 1 /\ Pending(c, k)' = 1
      BY <1>1 DEF Pending, TypeOK, ReadLocked
    <3> QED
      BY <3>1, <3>2, HeldFinite, LevelNat DEF Level
  <2>2. ncli' = [ncli EXCEPT ![c] = @ + 0]
    BY DEF TypeOK, ReadLocked
  <2>3. \A d \in CPU, j \in Context :
           d # c \/ j # k => pc'[d][j] = pc[d][j] /\ held'[d][j] = held[d][j]
    BY DEF TypeOK, ReadLocked
  <2> QED
    BY <1>2, <2>1, <2>2, <2>3, 0 \in Int, CountStep
<1>11. InterruptsRestored'
  BY <1>1, <1>3 DEF InterruptsRestored, ReadLocked
<1>12. NoSelfDeadlock'
  BY <1>1 DEF TypeOK, Context, Runs, NoSelfDeadlock, HandlerAlone, LockedIffHeld, ReadLocked
<1> QED
  BY <1>2, <1>4, <1>5, <1>6, <1>7, <1>8, <1>9, <1>10, <1>11, <1>12

\* A lock whose cpu is another one is not held here.
LEMMA NotHoldingStep ==
  ASSUME IInv, NEW c \in CPU, NEW k \in Context, NotHolding(c, k)
  PROVE  IInv'
<1> USE DEF IInv, At, Goto
<1>1. lk[c][k] \in Lock /\ pc[c][k] = "cpu?" /\ Runs(c, k) /\ cpu[lk[c][k]] # c
  BY DEF Calls, Runs, NotHolding
<1>2. TypeOK'
  BY <1>1 DEF TypeOK, PC, NotHolding
<1>3. \A d \in CPU : /\ pc'[d]["intr"] = "off" <=> pc[d]["intr"] = "off"
                     /\ pc'[d]["base"] = "panicRelease" <=> pc[d]["base"] = "panicRelease"
  BY <1>1 DEF TypeOK, Context, NotHolding
<1>4. MutualExclusion'
  BY <1>1 DEF TypeOK, Context, MutualExclusion, NotHolding
<1>5. LockedIffHeld'
  BY <1>1 DEF TypeOK, Context, LockedIffHeld, NotHolding
<1>6. Calls'
  BY <1>1 DEF TypeOK, Context, Calls, NotHolding
<1>7. CpuIsOwner'
  BY <1>1 DEF TypeOK, Context, Calls, CpuIsOwner, NotHolding
<1>8. HandlerAlone'
  BY <1>1 DEF TypeOK, Context, Runs, HandlerAlone, NotHolding
<1>9. FlagSaved'
  BY <1>1 DEF TypeOK, Context, Runs, FlagSaved, HandlerAlone, NotHolding
<1>10. NcliCountsLocks'
  <2>1. Level(c, k)' = Level(c, k) + 0
    <3>1. held'[c][k] = held[c][k]
      BY DEF TypeOK, NotHolding
    <3>2. Pending(c, k) = 1 /\ Pending(c, k)' = 1
      BY <1>1 DEF Pending, TypeOK, NotHolding
    <3> QED
      BY <3>1, <3>2, HeldFinite, LevelNat DEF Level
  <2>2. ncli' = [ncli EXCEPT ![c] = @ + 0]
    BY DEF TypeOK, NotHolding
  <2>3. \A d \in CPU, j \in Context :
           d # c \/ j # k => pc'[d][j] = pc[d][j] /\ held'[d][j] = held[d][j]
    BY DEF TypeOK, NotHolding
  <2> QED
    BY <1>2, <2>1, <2>2, <2>3, 0 \in Int, CountStep
<1>11. InterruptsRestored'
  BY <1>1, <1>3 DEF InterruptsRestored, NotHolding
<1>12. NoSelfDeadlock'
  <2>1. \A j \in Context : lk[c][k] \notin held[c][j]
    BY <1>1 DEF Context, Runs, HandlerAlone, CpuIsOwner
  <2>2. \A d \in CPU, j \in Context :
           pc'[d][j] = "xchg" => pc[d][j] = "xchg" \/ (d = c /\ j = k)
    BY DEF TypeOK, NotHolding
  <2> QED
    BY <2>1, <2>2 DEF NoSelfDeadlock, NotHolding
<1> QED
  BY <1>2, <1>4, <1>5, <1>6, <1>7, <1>8, <1>9, <1>10, <1>11, <1>12

\* Taking a lock again leaves at least one level of pushcli.
LEMMA ReenterStep ==
  ASSUME IInv, NEW c \in CPU, NEW k \in Context, Reenter(c, k)
  PROVE  IInv'
<1> USE DEF IInv, At, Goto
<1>1. lk[c][k] \in Lock /\ pc[c][k] = "cpu?" /\ Runs(c, k) /\ lk[c][k] \in held[c][k] /\ ncli[c] >= 2
  <2>1. lk[c][k] \in Lock /\ pc[c][k] = "cpu?" /\ Runs(c, k) /\ cpu[lk[c][k]] = c
    BY DEF Calls, Reenter
  <2>2. lk[c][k] \in held[c][k]
    BY <2>1 DEF CpuIsOwner, HandlerAlone, Runs, Context
  <2>3. Cardinality(held[c][k]) >= 1
    BY <2>2, HeldFinite, FS_EmptySet
  <2>4. Level(c, k) >= 2
    BY <2>1, <2>3, HeldFinite DEF Level, Pending
  <2>5. ncli[c] >= 2
    BY <2>4, LevelNat, BothContexts DEF NcliCountsLocks
  <2> QED
    BY <2>1, <2>2, <2>5
<1>2. TypeOK'
  BY <1>1 DEF TypeOK, PC, Reenter, DoPopCli
<1>3. \A d \in CPU : /\ pc'[d]["intr"] = "off" <=> pc[d]["intr"] = "off"
                     /\ pc'[d]["base"] = "panicRelease" <=> pc[d]["base"] = "panicRelease"
  BY <1>1 DEF TypeOK, Context, Reenter, DoPopCli
<1>4. MutualExclusion'
  BY <1>1 DEF TypeOK, Context, MutualExclusion, Reenter, DoPopCli
<1>5. LockedIffHeld'
  BY <1>1 DEF TypeOK, Context, LockedIffHeld, Reenter, DoPopCli
<1>6. Calls'
  BY <1>1 DEF TypeOK, Context, Calls, Reenter, DoPopCli
<1>7. CpuIsOwner'
  BY <1>1 DEF TypeOK, Context, Calls, CpuIsOwner, Reenter, DoPopCli
<1>8. HandlerAlone'
  BY <1>1 DEF TypeOK, Context, Runs, HandlerAlone, Reenter, DoPopCli
<1>9. FlagSaved'
  BY <1>1 DEF TypeOK, Context, Runs, FlagSaved, HandlerAlone, Reenter, DoPopCli
<1>10. NcliCountsLocks'
  <2>1. Level(c, k)' = Level(c, k) + (-1)
    <3>1. held'[c][k] = held[c][k]
      BY DEF TypeOK, Reenter, DoPopCli
    <3>2. Pending(c, k) = 1 /\ Pending(c, k)' = 0
      BY <1>1 DEF Pending, TypeOK, Reenter, DoPopCli
    <3> QED
      BY <3>1, <3>2, HeldFinite, LevelNat DEF Level
  <2>2. ncli' = [ncli EXCEPT ![c] = @ + (-1)]
    BY DEF TypeOK, Reenter, DoPopCli
  <2>3. \A d \in CPU, j \in Context :
           d # c \/ j # k => pc'[d][j] = pc[d][j] /\ held'[d][j] = held[d][j]
    BY DEF TypeOK, Reenter, DoPopCli
  <2> QED
    BY <1>2, <2>1, <2>2, <2>3, -1 \in Int, CountStep
<1>11. InterruptsRestored'
  <2>1. ~FL_IF'[c] /\ ncli'[c] # 0
    <3>1. FL_IF'[c] <=> ncli[c] = 1 /\ intena[c]
      BY DEF TypeOK, Reenter, DoPopCli
    <3>2. ncli'[c] = ncli[c] - 1
      BY DEF TypeOK, Reenter, DoPopCli
    <3> QED
      BY <1>1, <3>1, <3>2 DEF TypeOK
  <2>2. \A d \in CPU : d # c => FL_IF'[d] = FL_IF[d] /\ ncli'[d] = ncli[d]
    BY DEF TypeOK, Reenter, DoPopCli
  <2> QED
    BY <1>3, <2>1, <2>2 DEF InterruptsRestored
<1>12. NoSelfDeadlock'
  BY <1>1 DEF TypeOK, Context, Runs, NoSelfDeadlock, HandlerAlone, Reenter, DoPopCli
<1> QED
  BY <1>2, <1>4, <1>5, <1>6, <1>7, <1>8, <1>9, <1>10, <1>11, <1>12

\* panic("acquire") stops the context.
LEMMA PanicAcquireStep ==
  ASSUME IInv, NEW c \in CPU, NEW k \in Context, PanicAcquire(c, k)
  PROVE  IInv'
<1> USE DEF IInv, At, Goto
<1>1. lk[c][k] \in Lock /\ pc[c][k] = "cpu?"
  BY DEF Calls, Runs, PanicAcquire
<1>2. TypeOK'
  BY <1>1 DEF TypeOK, PC, PanicAcquire
<1>3. \A d \in CPU : /\ pc'[d]["intr"] = "off" <=> pc[d]["intr"] = "off"
                     /\ pc'[d]["base"] = "panicRelease" <=> pc[d]["base"] = "panicRelease"
  BY <1>1 DEF TypeOK, Context, PanicAcquire
<1>4. MutualExclusion'
  BY <1>1 DEF TypeOK, Context, MutualExclusion, PanicAcquire
<1>5. LockedIffHeld'
  BY <1>1 DEF TypeOK, Context, LockedIffHeld, PanicAcquire
<1>6. Calls'
  BY <1>1 DEF TypeOK, Context, Calls, PanicAcquire
<1>7. CpuIsOwner'
  BY <1>1 DEF TypeOK, Context, Calls, CpuIsOwner, PanicAcquire
<1>8. HandlerAlone'
  BY <1>1 DEF TypeOK, Context, Runs, HandlerAlone, PanicAcquire
<1>9. FlagSaved'
  BY <1>1 DEF TypeOK, Context, Runs, FlagSaved, HandlerAlone, PanicAcquire
<1>10. NcliCountsLocks'
  <2>1. Level(c, k)' = Level(c, k) + 0
    <3>1. held'[c][k] = held[c][k]
      BY DEF TypeOK, PanicAcquire
    <3>2. Pending(c, k) = 1 /\ Pending(c, k)' = 1
      BY <1>1 DEF Pending, TypeOK, PanicAcquire
    <3> QED
      BY <3>1, <3>2, HeldFinite, LevelNat DEF Level
  <2>2. ncli' = [ncli EXCEPT ![c] = @ + 0]
    BY DEF TypeOK, PanicAcquire
  <2>3. \A d \in CPU, j \in Context :
           d # c \/ j # k => pc'[d][j] = pc[d][j] /\ held'[d][j] = held[d][j]
    BY DEF TypeOK, PanicAcquire
  <2> QED
    BY <1>2, <2>1, <2>2, <2>3, 0 \in Int, CountStep
<1>11. InterruptsRestored'
  BY <1>1, <1>3 DEF InterruptsRestored, PanicAcquire
<1>12. NoSelfDeadlock'
  BY <1>1 DEF TypeOK, Context, Runs, NoSelfDeadlock, HandlerAlone, PanicAcquire
<1> QED
  BY <1>2, <1>4, <1>5, <1>6, <1>7, <1>8, <1>9, <1>10, <1>11, <1>12

\* The exchange gives the lock to a context that had it not.
LEMMA XchgStep ==
  ASSUME IInv, NEW c \in CPU, NEW k \in Context, Xchg(c, k)
  PROVE  IInv'
<1> USE DEF IInv, At, Goto
<1>1. lk[c][k] \in Lock /\ pc[c][k] = "xchg" /\ ~locked[lk[c][k]]
  BY DEF Calls, Runs, Xchg, XchgWins
<1>2. TypeOK'
  BY <1>1 DEF TypeOK, PC, Xchg
<1>3. \A d \in CPU : /\ pc'[d]["intr"] = "off" <=> pc[d]["intr"] = "off"
                     /\ pc'[d]["base"] = "panicRelease" <=> pc[d]["base"] = "panicRelease"
  BY <1>1 DEF TypeOK, Context, Xchg
<1>4. MutualExclusion'
  BY <1>1 DEF TypeOK, Context, MutualExclusion, LockedIffHeld, Xchg
<1>5. LockedIffHeld'
  BY <1>1 DEF TypeOK, Context, LockedIffHeld, Xchg
<1>6. Calls'
  BY <1>1 DEF TypeOK, Context, Calls, Xchg
<1>7. CpuIsOwner'
  BY <1>1 DEF TypeOK, Context, Calls, CpuIsOwner, Xchg
<1>8. HandlerAlone'
  BY <1>1 DEF TypeOK, Context, Runs, HandlerAlone, Xchg
<1>9. FlagSaved'
  BY <1>1 DEF TypeOK, Context, Runs, FlagSaved, HandlerAlone, Xchg
<1>10. NcliCountsLocks'
  <2>1. Level(c, k)' = Level(c, k) + 0
    <3>1. lk[c][k] \notin held[c][k]
      BY <1>1 DEF LockedIffHeld
    <3>2. held'[c][k] = held[c][k] \cup {lk[c][k]}
      BY DEF TypeOK, Xchg
    <3>3. Cardinality(held'[c][k]) = Cardinality(held[c][k]) + 1
      BY <3>1, <3>2, HeldFinite, FS_AddElement
    <3>4. Pending(c, k) = 1 /\ Pending(c, k)' = 0
      BY <1>1 DEF Pending, TypeOK, Xchg
    <3> QED
      BY <3>3, <3>4, HeldFinite DEF Level
  <2>2. ncli' = [ncli EXCEPT ![c] = @ + 0]
    BY DEF TypeOK, Xchg
  <2>3. \A d \in CPU, j \in Context :
           d # c \/ j # k => pc'[d][j] = pc[d][j] /\ held'[d][j] = held[d][j]
    BY DEF TypeOK, Xchg
  <2> QED
    BY <1>2, <2>1, <2>2, <2>3, 0 \in Int, CountStep
<1>11. InterruptsRestored'
  BY <1>1, <1>3 DEF InterruptsRestored, Xchg
<1>12. NoSelfDeadlock'
  <2>1. \A j \in Context : j # k => pc[c][j] # "xchg"
    BY <1>1 DEF Context, Runs, HandlerAlone, TypeOK, Xchg
  <2>2. \A d \in CPU, j \in Context : pc'[d][j] = "xchg" => pc[d][j] = "xchg" /\ d # c
    BY <1>1, <2>1 DEF TypeOK, Xchg
  <2> QED
    BY <2>2 DEF NoSelfDeadlock, TypeOK, Xchg
<1> QED
  BY <1>2, <1>4, <1>5, <1>6, <1>7, <1>8, <1>9, <1>10, <1>11, <1>12

\* lk->cpu is the owner again.
LEMMA SetCpuStep ==
  ASSUME IInv, NEW c \in CPU, NEW k \in Context, SetCpu(c, k)
  PROVE  IInv'
<1> USE DEF IInv, At, Goto
<1>1. lk[c][k] \in Lock /\ pc[c][k] = "setcpu" /\ lk[c][k] \in held[c][k]
  BY DEF Calls, Runs, SetCpu
<1>2. TypeOK'
  BY <1>1 DEF TypeOK, PC, SetCpu
<1>3. \A d \in CPU : /\ pc'[d]["intr"] = "off" <=> pc[d]["intr"] = "off"
                     /\ pc'[d]["base"] = "panicRelease" <=> pc[d]["base"] = "panicRelease"
  BY <1>1 DEF TypeOK, Context, SetCpu
<1>4. MutualExclusion'
  BY <1>1 DEF TypeOK, Context, MutualExclusion, SetCpu
<1>5. LockedIffHeld'
  BY <1>1 DEF TypeOK, Context, LockedIffHeld, SetCpu
<1>6. Calls'
  BY <1>1 DEF TypeOK, Context, Calls, SetCpu
<1>7. CpuIsOwner'
  BY <1>1 DEF TypeOK, Context, Calls, CpuIsOwner, MutualExclusion, SetCpu
<1>8. HandlerAlone'
  BY <1>1 DEF TypeOK, Context, Runs, HandlerAlone, SetCpu
<1>9. FlagSaved'
  BY <1>1 DEF TypeOK, Context, Runs, FlagSaved, HandlerAlone, SetCpu
<1>10. NcliCountsLocks'
  <2>1. Level(c, k)' = Level(c, k) + 0
    <3>1. held'[c][k] = held[c][k]
      BY DEF TypeOK, SetCpu
    <3>2. Pending(c, k) = 0 /\ Pending(c, k)' = 0
      BY <1>1 DEF Pending, TypeOK, SetCpu
    <3> QED
      BY <3>1, <3>2, HeldFinite, LevelNat DEF Level
  <2>2. ncli' = [ncli EXCEPT ![c] = @ + 0]
    BY DEF TypeOK, SetCpu
  <2>3. \A d \in CPU, j \in Context :
           d # c \/ j # k => pc'[d][j] = pc[d][j] /\ held'[d][j] = held[d][j]
    BY DEF TypeOK, SetCpu
  <2> QED
    BY <1>2, <2>1, <2>2, <2>3, 0 \in Int, CountStep
<1>11. InterruptsRestored'
  BY <1>1, <1>3 DEF InterruptsRestored, SetCpu
<1>12. NoSelfDeadlock'
  BY <1>1 DEF TypeOK, Context, Runs, NoSelfDeadlock, HandlerAlone, SetCpu
<1> QED
  BY <1>2, <1>4, <1>5, <1>6, <1>7, <1>8, <1>9, <1>10, <1>11, <1>12

\* release() is called by the owner, or by a careless thread.
LEMMA ReleaseStep ==
  ASSUME IInv, NEW c \in CPU, NEW k \in Context, NEW l \in Lock, Release(c, k, l)
  PROVE  IInv'
<1> USE DEF IInv, At, Goto
<1>1. pc[c][k] = "run" /\ Runs(c, k)
  BY DEF Calls, Runs, Release
<1>2. TypeOK'
  BY <1>1 DEF TypeOK, PC, Release
<1>3. \A d \in CPU : /\ pc'[d]["intr"] = "off" <=> pc[d]["intr"] = "off"
                     /\ pc'[d]["base"] = "panicRelease" <=> pc[d]["base"] = "panicRelease"
  BY <1>1 DEF TypeOK, Context, Release
<1>4. MutualExclusion'
  BY <1>1 DEF TypeOK, Context, MutualExclusion, Release
<1>5. LockedIffHeld'
  BY <1>1 DEF TypeOK, Context, LockedIffHeld, Release
<1>6. Calls'
  BY <1>1 DEF TypeOK, Context, Calls, Release
<1>7. CpuIsOwner'
  BY <1>1 DEF TypeOK, Context, Calls, CpuIsOwner, Release
<1>8. HandlerAlone'
  BY <1>1 DEF TypeOK, Context, Runs, HandlerAlone, Release
<1>9. FlagSaved'
  BY <1>1 DEF TypeOK, Context, Runs, FlagSaved, HandlerAlone, Release
<1>10. NcliCountsLocks'
  <2>1. Level(c, k)' = Level(c, k) + 0
    <3>1. held'[c][k] = held[c][k]
      BY DEF TypeOK, Release
    <3>2. Pending(c, k) = 0 /\ Pending(c, k)' = 0
      BY <1>1 DEF Pending, TypeOK, Release
    <3> QED
      BY <3>1, <3>2, HeldFinite, LevelNat DEF Level
  <2>2. ncli' = [ncli EXCEPT ![c] = @ + 0]
    BY DEF TypeOK, Release
  <2>3. \A d \in CPU, j \in Context :
           d # c \/ j # k => pc'[d][j] = pc[d][j] /\ held'[d][j] = held[d][j]
    BY DEF TypeOK, Release
  <2> QED
    BY <1>2, <2>1, <2>2, <2>3, 0 \in Int, CountStep
<1>11. InterruptsRestored'
  BY <1>1, <1>3 DEF InterruptsRestored, Release
<1>12. NoSelfDeadlock'
  BY <1>1 DEF TypeOK, Context, Runs, NoSelfDeadlock, HandlerAlone, Release
<1> QED
  BY <1>2, <1>4, <1>5, <1>6, <1>7, <1>8, <1>9, <1>10, <1>11, <1>12

\* holding() is right: the lock is this context's own.
LEMMA CheckHoldingStep ==
  ASSUME IInv, NEW c \in CPU, NEW k \in Context, CheckHolding(c, k)
  PROVE  IInv'
<1> USE DEF IInv, At, Goto
<1>1. lk[c][k] \in Lock /\ pc[c][k] = "holding?" /\ Runs(c, k) /\ lk[c][k] \in held[c][k]
  <2>1. lk[c][k] \in Lock /\ pc[c][k] = "holding?" /\ Runs(c, k) /\ cpu[lk[c][k]] = c
    BY DEF Calls, CheckHolding, Holding
  <2>2. PICK j \in Context : lk[c][k] \in held[c][j]
    BY <2>1 DEF CpuIsOwner
  <2>3. j = k
    BY <2>1, <2>2 DEF Context, Runs, HandlerAlone
  <2> QED
    BY <2>1, <2>2, <2>3
<1>2. TypeOK'
  BY <1>1 DEF TypeOK, PC, CheckHolding
<1>3. \A d \in CPU : /\ pc'[d]["intr"] = "off" <=> pc[d]["intr"] = "off"
                     /\ pc'[d]["base"] = "panicRelease" <=> pc[d]["base"] = "panicRelease"
  BY <1>1 DEF TypeOK, Context, CheckHolding
<1>4. MutualExclusion'
  BY <1>1 DEF TypeOK, Context, MutualExclusion, CheckHolding
<1>5. LockedIffHeld'
  BY <1>1 DEF TypeOK, Context, LockedIffHeld, CheckHolding
<1>6. Calls'
  BY <1>1 DEF TypeOK, Context, Calls, CheckHolding
<1>7. CpuIsOwner'
  BY <1>1 DEF TypeOK, Context, Calls, CpuIsOwner, CheckHolding
<1>8. HandlerAlone'
  BY <1>1 DEF TypeOK, Context, Runs, HandlerAlone, CheckHolding
<1>9. FlagSaved'
  BY <1>1 DEF TypeOK, Context, Runs, FlagSaved, HandlerAlone, CheckHolding
<1>10. NcliCountsLocks'
  <2>1. Level(c, k)' = Level(c, k) + 0
    <3>1. held'[c][k] = held[c][k]
      BY DEF TypeOK, CheckHolding
    <3>2. Pending(c, k) = 0 /\ Pending(c, k)' = 0
      BY <1>1 DEF Pending, TypeOK, CheckHolding
    <3> QED
      BY <3>1, <3>2, HeldFinite, LevelNat DEF Level
  <2>2. ncli' = [ncli EXCEPT ![c] = @ + 0]
    BY DEF TypeOK, CheckHolding
  <2>3. \A d \in CPU, j \in Context :
           d # c \/ j # k => pc'[d][j] = pc[d][j] /\ held'[d][j] = held[d][j]
    BY DEF TypeOK, CheckHolding
  <2> QED
    BY <1>2, <2>1, <2>2, <2>3, 0 \in Int, CountStep
<1>11. InterruptsRestored'
  BY <1>1, <1>3 DEF InterruptsRestored, CheckHolding
<1>12. NoSelfDeadlock'
  BY <1>1 DEF TypeOK, Context, Runs, NoSelfDeadlock, HandlerAlone, CheckHolding
<1> QED
  BY <1>2, <1>4, <1>5, <1>6, <1>7, <1>8, <1>9, <1>10, <1>11, <1>12

\* panic("release") turns interrupts off for good.
LEMMA PanicReleaseStep ==
  ASSUME IInv, NEW c \in CPU, NEW k \in Context, PanicRelease(c, k)
  PROVE  IInv'
<1> USE DEF IInv, At, Goto
<1>1. lk[c][k] \in Lock /\ pc[c][k] = "holding?" /\ Runs(c, k)
  BY DEF Calls, Runs, PanicRelease
<1>2. TypeOK'
  BY <1>1 DEF TypeOK, PC, PanicRelease
<1>3. \A d \in CPU :
        /\ pc'[d]["intr"] = "off" <=> pc[d]["intr"] = "off"
        /\ d # c => pc'[d]["base"] = pc[d]["base"]
  BY <1>1 DEF TypeOK, Context, PanicRelease
<1>4. MutualExclusion'
  BY <1>1 DEF TypeOK, Context, MutualExclusion, PanicRelease
<1>5. LockedIffHeld'
  BY <1>1 DEF TypeOK, Context, LockedIffHeld, PanicRelease
<1>6. Calls'
  BY <1>1 DEF TypeOK, Context, Calls, PanicRelease
<1>7. CpuIsOwner'
  BY <1>1 DEF TypeOK, Context, Calls, CpuIsOwner, PanicRelease
<1>8. HandlerAlone'
  BY <1>1 DEF TypeOK, Context, Runs, HandlerAlone, PanicRelease
<1>9. FlagSaved'
  BY <1>1 DEF TypeOK, Context, Runs, FlagSaved, HandlerAlone, PanicRelease
<1>10. NcliCountsLocks'
  <2>1. Level(c, k)' = Level(c, k) + 0
    <3>1. held'[c][k] = held[c][k]
      BY DEF TypeOK, PanicRelease
    <3>2. Pending(c, k) = 0 /\ Pending(c, k)' = 0
      BY <1>1 DEF Pending, TypeOK, PanicRelease
    <3> QED
      BY <3>1, <3>2, HeldFinite, LevelNat DEF Level
  <2>2. ncli' = [ncli EXCEPT ![c] = @ + 0]
    BY DEF TypeOK, PanicRelease
  <2>3. \A d \in CPU, j \in Context :
           d # c \/ j # k => pc'[d][j] = pc[d][j] /\ held'[d][j] = held[d][j]
    BY DEF TypeOK, PanicRelease
  <2> QED
    BY <1>2, <2>1, <2>2, <2>3, 0 \in Int, CountStep
<1>11. InterruptsRestored'
  <2>1. FL_IF'[c] = FALSE /\ ncli' = ncli
    BY DEF TypeOK, PanicRelease
  <2>2. pc'[c]["base"] = "panicRelease" \/ pc'[c]["intr"] # "off"
    BY <1>1, BothContexts DEF TypeOK, PanicRelease
  <2>3. \A d \in CPU : d # c => FL_IF'[d] = FL_IF[d]
    BY DEF TypeOK, PanicRelease
  <2> QED
    BY <1>3, <2>1, <2>2, <2>3 DEF InterruptsRestored
<1>12. NoSelfDeadlock'
  BY <1>1 DEF TypeOK, Context, Runs, NoSelfDeadlock, HandlerAlone, PanicRelease
<1> QED
  BY <1>2, <1>4, <1>5, <1>6, <1>7, <1>8, <1>9, <1>10, <1>11, <1>12

\* Nobody is the recorded owner of a lock that is about to be freed.
LEMMA ClearCpuStep ==
  ASSUME IInv, NEW c \in CPU, NEW k \in Context, ClearCpu(c, k)
  PROVE  IInv'
<1> USE DEF IInv, At, Goto
<1>1. lk[c][k] \in Lock /\ pc[c][k] = "clearcpu" /\ lk[c][k] \in held[c][k]
  BY DEF Calls, Runs, ClearCpu
<1>2. TypeOK'
  BY <1>1 DEF TypeOK, PC, ClearCpu
<1>3. \A d \in CPU : /\ pc'[d]["intr"] = "off" <=> pc[d]["intr"] = "off"
                     /\ pc'[d]["base"] = "panicRelease" <=> pc[d]["base"] = "panicRelease"
  BY <1>1 DEF TypeOK, Context, ClearCpu
<1>4. MutualExclusion'
  BY <1>1 DEF TypeOK, Context, MutualExclusion, ClearCpu
<1>5. LockedIffHeld'
  BY <1>1 DEF TypeOK, Context, LockedIffHeld, ClearCpu
<1>6. Calls'
  BY <1>1 DEF TypeOK, Context, Calls, ClearCpu
<1>7. CpuIsOwner'
  BY <1>1, LockAssumption DEF TypeOK, Context, Calls, CpuIsOwner, MutualExclusion, LockAssumption, ClearCpu
<1>8. HandlerAlone'
  BY <1>1 DEF TypeOK, Context, Runs, HandlerAlone, ClearCpu
<1>9. FlagSaved'
  BY <1>1 DEF TypeOK, Context, Runs, FlagSaved, HandlerAlone, ClearCpu
<1>10. NcliCountsLocks'
  <2>1. Level(c, k)' = Level(c, k) + 0
    <3>1. held'[c][k] = held[c][k]
      BY DEF TypeOK, ClearCpu
    <3>2. Pending(c, k) = 0 /\ Pending(c, k)' = 0
      BY <1>1 DEF Pending, TypeOK, ClearCpu
    <3> QED
      BY <3>1, <3>2, HeldFinite, LevelNat DEF Level
  <2>2. ncli' = [ncli EXCEPT ![c] = @ + 0]
    BY DEF TypeOK, ClearCpu
  <2>3. \A d \in CPU, j \in Context :
           d # c \/ j # k => pc'[d][j] = pc[d][j] /\ held'[d][j] = held[d][j]
    BY DEF TypeOK, ClearCpu
  <2> QED
    BY <1>2, <2>1, <2>2, <2>3, 0 \in Int, CountStep
<1>11. InterruptsRestored'
  BY <1>1, <1>3 DEF InterruptsRestored, ClearCpu
<1>12. NoSelfDeadlock'
  BY <1>1 DEF TypeOK, Context, Runs, NoSelfDeadlock, HandlerAlone, ClearCpu
<1> QED
  BY <1>2, <1>4, <1>5, <1>6, <1>7, <1>8, <1>9, <1>10, <1>11, <1>12

\* The store frees a lock that only this context held.
LEMMA UnlockStep ==
  ASSUME IInv, NEW c \in CPU, NEW k \in Context, Unlock(c, k)
  PROVE  IInv'
<1> USE DEF IInv, At, Goto
<1>1. lk[c][k] \in Lock /\ pc[c][k] = "unlock" /\ lk[c][k] \in held[c][k]
  BY DEF Calls, Runs, Unlock
<1>2. TypeOK'
  BY <1>1 DEF TypeOK, PC, Unlock
<1>3. \A d \in CPU : /\ pc'[d]["intr"] = "off" <=> pc[d]["intr"] = "off"
                     /\ pc'[d]["base"] = "panicRelease" <=> pc[d]["base"] = "panicRelease"
  BY <1>1 DEF TypeOK, Context, Unlock
<1>4. MutualExclusion'
  BY <1>1 DEF TypeOK, Context, MutualExclusion, Unlock
<1>5. LockedIffHeld'
  BY <1>1 DEF TypeOK, Context, LockedIffHeld, MutualExclusion, Unlock
<1>6. Calls'
  BY <1>1 DEF TypeOK, Context, Calls, Unlock
<1>7. CpuIsOwner'
  BY <1>1 DEF TypeOK, Context, Calls, CpuIsOwner, MutualExclusion, Unlock
<1>8. HandlerAlone'
  BY <1>1 DEF TypeOK, Context, Runs, HandlerAlone, Unlock
<1>9. FlagSaved'
  BY <1>1 DEF TypeOK, Context, Runs, FlagSaved, HandlerAlone, Unlock
<1>10. NcliCountsLocks'
  <2>1. Level(c, k)' = Level(c, k) + 0
    <3>1. held'[c][k] = held[c][k] \ {lk[c][k]}
      BY DEF TypeOK, Unlock
    <3>2. Cardinality(held'[c][k]) = Cardinality(held[c][k]) - 1
      <4>1. IsFiniteSet(held[c][k])
        BY HeldFinite
      <4>2. Cardinality(held[c][k] \ {lk[c][k]}) = Cardinality(held[c][k]) - 1
        BY <1>1, <4>1, FS_RemoveElement
      <4> QED
        BY <3>1, <4>2
    <3>3. Pending(c, k) = 0 /\ Pending(c, k)' = 1
      BY <1>1 DEF Pending, TypeOK, Unlock
    <3> QED
      BY <3>2, <3>3, HeldFinite DEF Level
  <2>2. ncli' = [ncli EXCEPT ![c] = @ + 0]
    BY DEF TypeOK, Unlock
  <2>3. \A d \in CPU, j \in Context :
           d # c \/ j # k => pc'[d][j] = pc[d][j] /\ held'[d][j] = held[d][j]
    BY DEF TypeOK, Unlock
  <2> QED
    BY <1>2, <2>1, <2>2, <2>3, 0 \in Int, CountStep
<1>11. InterruptsRestored'
  BY <1>1, <1>3 DEF InterruptsRestored, Unlock
<1>12. NoSelfDeadlock'
  BY <1>1 DEF TypeOK, Context, Runs, NoSelfDeadlock, HandlerAlone, Unlock
<1> QED
  BY <1>2, <1>4, <1>5, <1>6, <1>7, <1>8, <1>9, <1>10, <1>11, <1>12

\* The last popcli restores the flag that the first pushcli saved.
LEMMA PopCliStep ==
  ASSUME IInv, NEW c \in CPU, NEW k \in Context, PopCli(c, k)
  PROVE  IInv'
<1> USE DEF IInv, At, Goto
<1>1. lk[c][k] \in Lock /\ pc[c][k] = "popcli" /\ Runs(c, k) /\ ncli[c] >= 1
  <2>1. lk[c][k] \in Lock /\ pc[c][k] = "popcli" /\ Runs(c, k)
    BY DEF Calls, PopCli
  <2>2. Level(c, k) >= 1
    BY <2>1, LevelNat, HeldFinite DEF Pending
  <2>3. ncli[c] >= 1
    BY <2>2, LevelNat, BothContexts DEF NcliCountsLocks
  <2> QED
    BY <2>1, <2>3
<1>2. TypeOK'
  BY <1>1 DEF TypeOK, PC, PopCli, DoPopCli
<1>3. \A d \in CPU : /\ pc'[d]["intr"] = "off" <=> pc[d]["intr"] = "off"
                     /\ pc'[d]["base"] = "panicRelease" <=> pc[d]["base"] = "panicRelease"
  BY <1>1 DEF TypeOK, Context, PopCli, DoPopCli
<1>4. MutualExclusion'
  BY <1>1 DEF TypeOK, Context, MutualExclusion, PopCli, DoPopCli
<1>5. LockedIffHeld'
  BY <1>1 DEF TypeOK, Context, LockedIffHeld, PopCli, DoPopCli
<1>6. Calls'
  BY <1>1 DEF TypeOK, Context, Calls, PopCli, DoPopCli
<1>7. CpuIsOwner'
  BY <1>1 DEF TypeOK, Context, Calls, CpuIsOwner, PopCli, DoPopCli
<1>8. HandlerAlone'
  BY <1>1 DEF TypeOK, Context, Runs, HandlerAlone, PopCli, DoPopCli
<1>9. FlagSaved'
  BY <1>1 DEF TypeOK, Context, Runs, FlagSaved, HandlerAlone, PopCli, DoPopCli
<1>10. NcliCountsLocks'
  <2>1. Level(c, k)' = Level(c, k) + (-1)
    <3>1. held'[c][k] = held[c][k]
      BY DEF TypeOK, PopCli, DoPopCli
    <3>2. Pending(c, k) = 1 /\ Pending(c, k)' = 0
      BY <1>1 DEF Pending, TypeOK, PopCli, DoPopCli
    <3> QED
      BY <3>1, <3>2, HeldFinite, LevelNat DEF Level
  <2>2. ncli' = [ncli EXCEPT ![c] = @ + (-1)]
    BY DEF TypeOK, PopCli, DoPopCli
  <2>3. \A d \in CPU, j \in Context :
           d # c \/ j # k => pc'[d][j] = pc[d][j] /\ held'[d][j] = held[d][j]
    BY DEF TypeOK, PopCli, DoPopCli
  <2> QED
    BY <1>2, <2>1, <2>2, <2>3, -1 \in Int, CountStep
<1>11. InterruptsRestored'
  <2>1. ncli'[c] = ncli[c] - 1 /\ (FL_IF'[c] <=> ncli[c] = 1 /\ intena[c])
    BY DEF TypeOK, PopCli, DoPopCli
  <2>2. intena[c] <=> pc[c]["intr"] = "off"
    BY <1>1 DEF FlagSaved, TypeOK
  <2>3. pc[c]["intr"] = "off" => pc[c]["base"] # "panicRelease"
    BY <1>1, BothContexts DEF HandlerAlone
  <2>4. \A d \in CPU : d # c => FL_IF'[d] = FL_IF[d] /\ ncli'[d] = ncli[d]
    BY DEF TypeOK, PopCli, DoPopCli
  <2>5. ncli'[c] = 0 <=> ncli[c] = 1
    BY <1>1, <2>1 DEF TypeOK
  <2>6. pc'[c]["base"] # "panicRelease" <=> pc[c]["base"] # "panicRelease"
    BY <1>3
  <2>7. FL_IF'[c] <=> ncli'[c] = 0 /\ pc'[c]["intr"] = "off" /\ pc'[c]["base"] # "panicRelease"
    BY <1>3, <2>1, <2>2, <2>3, <2>5, <2>6
  <2> QED
    BY <1>3, <2>4, <2>7 DEF InterruptsRestored
<1>12. NoSelfDeadlock'
  BY <1>1 DEF TypeOK, Context, Runs, NoSelfDeadlock, HandlerAlone, PopCli, DoPopCli
<1> QED
  BY <1>2, <1>4, <1>5, <1>6, <1>7, <1>8, <1>9, <1>10, <1>11, <1>12

\* An enabled interrupt flag means that the thread is outside every pushcli.
LEMMA InterruptStep ==
  ASSUME IInv, NEW c \in CPU, Interrupt(c)
  PROVE  IInv'
<1> USE DEF IInv, Goto
<1>1. FL_IF[c] /\ pc[c]["intr"] = "off" /\ ncli[c] = 0 /\ pc[c]["base"] # "panicRelease"
  BY DEF Interrupt, InterruptsRestored
<1>2. Level(c, "base") = 0 /\ Level(c, "intr") = 0
  BY <1>1, LevelNat, BothContexts DEF NcliCountsLocks
<1>3. held[c]["base"] = {} /\ Pending(c, "base") = 0
  BY <1>2, LevelNat, HeldFinite, FS_EmptySet, BothContexts DEF Level
<1>4. pc[c]["base"] \in {"run", "pushcli", "holding?"}
  <2>1. pc[c]["base"] \in PC \ {"off", "panicRelease"}
    BY <1>1, BothContexts DEF TypeOK, Calls
  <2>2. pc[c]["base"] \notin {"locked?", "cpu?", "xchg", "panicAcquire", "popcli"}
    BY <1>3 DEF Pending
  <2>3. pc[c]["base"] \notin {"setcpu", "clearcpu", "unlock"}
    BY <1>3, BothContexts DEF Calls
  <2> QED
    BY <2>1, <2>2, <2>3 DEF PC
<1>5. TypeOK'
  BY <1>1 DEF TypeOK, PC, Context, Interrupt
<1>6. MutualExclusion'
  BY DEF MutualExclusion, Interrupt
<1>7. LockedIffHeld'
  BY DEF LockedIffHeld, Interrupt
<1>8. Calls'
  BY <1>1 DEF TypeOK, Context, Calls, Interrupt
<1>9. CpuIsOwner'
  BY <1>1 DEF TypeOK, Context, CpuIsOwner, Interrupt
<1>10. HandlerAlone'
  BY <1>1, <1>3, <1>4 DEF TypeOK, Context, HandlerAlone, Interrupt
<1>11. FlagSaved'
  BY <1>1 DEF TypeOK, Context, FlagSaved, Interrupt
<1>12. NcliCountsLocks'
  <2>1. \A d \in CPU, k \in Context : Level(d, k)' = Level(d, k)
    BY <1>1 DEF TypeOK, Context, Level, Pending, Interrupt
  <2> QED
    BY <2>1, BothContexts DEF NcliCountsLocks, Interrupt
<1>13. InterruptsRestored'
  BY <1>1 DEF TypeOK, Context, InterruptsRestored, Interrupt
<1>14. NoSelfDeadlock'
  BY <1>1 DEF TypeOK, Context, NoSelfDeadlock, Interrupt
<1> QED
  BY <1>5, <1>6, <1>7, <1>8, <1>9, <1>10, <1>11, <1>12, <1>13, <1>14

\* The handler returns to a thread that was outside every pushcli.
LEMMA IntrReturnStep ==
  ASSUME IInv, NEW c \in CPU, IntrReturn(c)
  PROVE  IInv'
<1> USE DEF IInv, Goto
<1>1. /\ pc[c]["intr"] = "run" /\ held[c]["intr"] = {}
      /\ held[c]["base"] = {} /\ pc[c]["base"] \in {"run", "pushcli", "holding?"}
  BY DEF IntrReturn, HandlerAlone
<1>2. Pending(c, "base") = 0 /\ Pending(c, "intr") = 0
  BY <1>1 DEF Pending
<1>3. ncli[c] = 0
  <2>1. Level(c, "base") = 0 /\ Level(c, "intr") = 0
    BY <1>1, <1>2, FS_EmptySet DEF Level
  <2> QED
    BY <2>1 DEF NcliCountsLocks
<1>5. TypeOK'
  BY <1>1 DEF TypeOK, PC, Context, IntrReturn
<1>6. MutualExclusion'
  BY DEF MutualExclusion, IntrReturn
<1>7. LockedIffHeld'
  BY DEF LockedIffHeld, IntrReturn
<1>8. Calls'
  BY <1>1 DEF TypeOK, Context, Calls, IntrReturn
<1>9. CpuIsOwner'
  BY <1>1 DEF TypeOK, Context, CpuIsOwner, IntrReturn
<1>10. HandlerAlone'
  BY <1>1 DEF TypeOK, Context, HandlerAlone, IntrReturn
<1>11. FlagSaved'
  BY <1>1, <1>3 DEF TypeOK, Context, FlagSaved, IntrReturn
<1>12. NcliCountsLocks'
  <2>1. \A d \in CPU, k \in Context : Level(d, k)' = Level(d, k)
    BY <1>1 DEF TypeOK, Context, Level, Pending, IntrReturn
  <2> QED
    BY <2>1, BothContexts DEF NcliCountsLocks, IntrReturn
<1>13. InterruptsRestored'
  BY <1>1, <1>3 DEF TypeOK, Context, InterruptsRestored, IntrReturn
<1>14. NoSelfDeadlock'
  BY <1>1 DEF TypeOK, Context, NoSelfDeadlock, IntrReturn
<1> QED
  BY <1>5, <1>6, <1>7, <1>8, <1>9, <1>10, <1>11, <1>12, <1>13, <1>14

-----------------------------------------------------------------------------
\* Unlocked locks and no call under way satisfy the invariant.
LEMMA InitIInv == Init => IInv
<1> SUFFICES ASSUME Init PROVE IInv
  OBVIOUS
<1> USE LockAssumption DEF Init
<1>1. TypeOK
  BY DEF LockAssumption, TypeOK, PC, Context
<1>2. MutualExclusion /\ LockedIffHeld /\ NoSelfDeadlock
  BY DEF MutualExclusion, LockedIffHeld, NoSelfDeadlock, Context
<1>3. Calls /\ HandlerAlone /\ FlagSaved
  BY DEF Calls, HandlerAlone, FlagSaved, Context
<1>4. CpuIsOwner
  BY DEF CpuIsOwner, LockAssumption
<1>5. NcliCountsLocks
  BY FS_EmptySet DEF NcliCountsLocks, Level, Pending, Context
<1>6. InterruptsRestored
  BY DEF InterruptsRestored, Context
<1> QED
  BY <1>1, <1>2, <1>3, <1>4, <1>5, <1>6 DEF IInv

\* Every step of acquire, release or an interrupt preserves it.
LEMMA NextIInv == IInv /\ [Next]_vars => IInv'
<1> SUFFICES ASSUME IInv, [Next]_vars PROVE IInv'
  OBVIOUS
<1>1. CASE UNCHANGED vars
  BY <1>1 DEF vars, IInv, TypeOK, MutualExclusion, LockedIffHeld, Calls, CpuIsOwner,
     HandlerAlone, FlagSaved, NcliCountsLocks, Level, Pending, InterruptsRestored,
     NoSelfDeadlock
<1>2. ASSUME NEW c \in CPU, NEW k \in Context, Inside(c, k)
      PROVE  IInv'
  BY <1>2, PushCliStep, ReadLockedStep, NotHoldingStep, ReenterStep,
     PanicAcquireStep, XchgStep, SetCpuStep, CheckHoldingStep, PanicReleaseStep,
     ClearCpuStep, UnlockStep, PopCliStep DEF Inside
<1>3. ASSUME NEW c \in CPU, NEW k \in Context, NEW l \in Lock,
             Acquire(c, k, l) \/ Release(c, k, l)
      PROVE  IInv'
  BY <1>3, AcquireStep, ReleaseStep
<1> QED
  BY <1>1, <1>2, <1>3, InterruptStep, IntrReturnStep DEF Next

\* The inductive invariant holds of every run of acquire, release and the
\* interrupts between them.
THEOREM Invariant == Spec => []IInv
<1> QED
  BY InitIInv, NextIInv, PTL DEF Spec

\* Every field keeps the type spinlock.h and struct cpu give it; in
\* particular no popcli takes a CPU's ncli below zero, which would panic.
THEOREM TypeCorrect == Spec => []TypeOK
<1>1. IInv => TypeOK
  BY DEF IInv
<1> QED
  BY <1>1, Invariant, PTL

\* acquire() never gives a lock to two contexts, even to callers that break
\* the lock order or release locks of others.
THEOREM Exclusive == Spec => []MutualExclusion
<1>1. IInv => MutualExclusion
  BY DEF IInv
<1> QED
  BY <1>1, Invariant, PTL

\* lk->locked is set exactly while some context owns the lock.
THEOREM LockedTruthful == Spec => []LockedIffHeld
<1>1. IInv => LockedIffHeld
  BY DEF IInv
<1> QED
  BY <1>1, Invariant, PTL

\* pushcli and popcli stay matched, through reentrant acquires too.
THEOREM PushCliMatched == Spec => []NcliCountsLocks
<1>1. IInv => NcliCountsLocks
  BY DEF IInv
<1> QED
  BY <1>1, Invariant, PTL

\* Interrupts are on exactly outside the outermost pushcli and the handler.
THEOREM InterruptFlag == Spec => []InterruptsRestored
<1>1. IInv => InterruptsRestored
  BY DEF IInv
<1> QED
  BY <1>1, Invariant, PTL

\* acquire() never spins for a lock of its own CPU.
THEOREM NeverSpinsForOwn == Spec => []NoSelfDeadlock
<1>1. IInv => NoSelfDeadlock
  BY DEF IInv
<1> QED
  BY <1>1, Invariant, PTL

-----------------------------------------------------------------------------
\* What callers that keep the lock order add: they acquire a lock they hold
\* only when it is their own reentrant one, and release only what they hold.
Polite ==
  \A c \in CPU \ Careless, k \in Context :
    /\ pc[c][k] \notin {"panicAcquire", "panicRelease"}
    /\ pc[c][k] \in {"pushcli", "locked?", "cpu?"} /\ lk[c][k] \in held[c][k]
         => lockPid[lk[c][k]] = myPid[c]
    /\ pc[c][k] = "holding?" => lk[c][k] \in held[c][k]

\* holding() recognises the lock of a polite caller, whichever way it looks.
LEMMA NeverPanics ==
  ASSUME IInv, Polite, NEW c \in CPU \ Careless, NEW k \in Context
  PROVE  ~PanicAcquire(c, k) /\ ~PanicRelease(c, k)
<1> USE DEF IInv
<1>1. ASSUME PanicAcquire(c, k) PROVE FALSE
  <2>1. /\ lk[c][k] \in Lock /\ pc[c][k] = "cpu?" /\ Runs(c, k)
        /\ cpu[lk[c][k]] = c /\ lockPid[lk[c][k]] # myPid[c]
    BY <1>1 DEF PanicAcquire, At, Calls
  <2>2. PICK j \in Context : lk[c][k] \in held[c][j]
    BY <2>1 DEF CpuIsOwner
  <2>3. j = k
    BY <2>1, <2>2 DEF Context, Runs, HandlerAlone
  <2> QED
    BY <2>1, <2>2, <2>3 DEF Polite
<1>2. ASSUME PanicRelease(c, k) PROVE FALSE
  <2>1. lk[c][k] \in Lock /\ pc[c][k] = "holding?" /\ ~Holding(c, lk[c][k])
    BY <1>2 DEF PanicRelease, At, Calls
  <2>2. lk[c][k] \in held[c][k]
    BY <2>1 DEF Polite
  <2>3. locked[lk[c][k]] /\ cpu[lk[c][k]] = c
    BY <2>1, <2>2 DEF LockedIffHeld, CpuIsOwner
  <2> QED
    BY <2>1, <2>3 DEF Holding
<1> QED
  BY <1>1, <1>2

\* With polite callers acquire and release keep their callers' promises.
LEMMA NextPolite ==
  ASSUME IInv, Polite, [Next]_vars
  PROVE  Polite'
<1> USE DEF IInv, At, Goto
<1>1. CASE UNCHANGED vars
  BY <1>1 DEF vars, Polite
<1>2. ASSUME NEW c \in CPU, NEW k \in Context, NEW l \in Lock, Acquire(c, k, l)
      PROVE  Polite'
  <2>1. c \notin Careless /\ l \in held[c][k] => lockPid[l] = myPid[c]
    BY <1>2, LockAssumption DEF Acquire, MayNest, LockAssumption, TypeOK
  <2> QED
    BY <1>2, <2>1 DEF TypeOK, Polite, Acquire
<1>3. ASSUME NEW c \in CPU, NEW k \in Context, NEW l \in Lock, Release(c, k, l)
      PROVE  Polite'
  BY <1>3 DEF TypeOK, Polite, Release
<1>4. ASSUME NEW c \in CPU, NEW k \in Context, PushCli(c, k)
      PROVE  Polite'
  BY <1>4 DEF TypeOK, Polite, PushCli
<1>5. ASSUME NEW c \in CPU, NEW k \in Context,
             ReadLocked(c, k) \/ NotHolding(c, k) \/ Reenter(c, k)
      PROVE  Polite'
  <2>1. CASE ReadLocked(c, k)
    BY <2>1 DEF TypeOK, Polite, ReadLocked
  <2>2. CASE NotHolding(c, k)
    BY <2>2 DEF TypeOK, Polite, NotHolding
  <2>3. CASE Reenter(c, k)
    BY <2>3 DEF TypeOK, Polite, Reenter
  <2> QED
    BY <1>5, <2>1, <2>2, <2>3
<1>6. ASSUME NEW c \in CPU, NEW k \in Context, Xchg(c, k)
      PROVE  Polite'
  BY <1>6 DEF TypeOK, Polite, Xchg
<1>7. ASSUME NEW c \in CPU, NEW k \in Context, SetCpu(c, k) \/ PopCli(c, k)
      PROVE  Polite'
  <2>1. CASE SetCpu(c, k)
    BY <2>1 DEF TypeOK, Polite, SetCpu
  <2>2. CASE PopCli(c, k)
    BY <2>2 DEF TypeOK, Polite, PopCli
  <2> QED
    BY <1>7, <2>1, <2>2
<1>8. ASSUME NEW c \in CPU, NEW k \in Context, CheckHolding(c, k) \/ ClearCpu(c, k)
      PROVE  Polite'
  <2>1. CASE CheckHolding(c, k)
    BY <2>1 DEF TypeOK, Polite, CheckHolding
  <2>2. CASE ClearCpu(c, k)
    BY <2>2 DEF TypeOK, Polite, ClearCpu
  <2> QED
    BY <1>8, <2>1, <2>2
<1>9. ASSUME NEW c \in CPU, NEW k \in Context, Unlock(c, k)
      PROVE  Polite'
  BY <1>9 DEF TypeOK, Polite, Unlock
<1>10. ASSUME NEW c \in CPU, Interrupt(c) \/ IntrReturn(c)
       PROVE  Polite'
  <2>1. CASE Interrupt(c)
    BY <2>1 DEF TypeOK, Polite, Interrupt
  <2>2. CASE IntrReturn(c)
    BY <2>2 DEF TypeOK, Polite, IntrReturn
  <2> QED
    BY <1>10, <2>1, <2>2
<1>11. ASSUME NEW c \in CPU, NEW k \in Context, PanicAcquire(c, k) \/ PanicRelease(c, k)
       PROVE  Polite'
  <2>1. c \in Careless
    BY <1>11, NeverPanics
  <2>2. CASE PanicAcquire(c, k)
    BY <2>1, <2>2 DEF TypeOK, Polite, PanicAcquire
  <2>3. CASE PanicRelease(c, k)
    BY <2>1, <2>3 DEF TypeOK, Polite, PanicRelease
  <2> QED
    BY <1>11, <2>2, <2>3
<1> QED
  BY <1>1, <1>2, <1>3, <1>4, <1>5, <1>6, <1>7, <1>8, <1>9, <1>10, <1>11
     DEF Next, Inside

\* Callers that follow the lock order and release what they hold never reach
\* panic("acquire") or panic("release"): what holding() reads without a lock
\* is never misleading.
THEOREM PoliteNeverPanic == Spec => []NoPanic
<1>1. Init => Polite
  BY DEF Init, Polite, Context
<1>2. IInv /\ Polite /\ [Next]_vars => Polite'
  BY NextPolite
<1>3. Polite => NoPanic
  BY DEF Polite, NoPanic
<1> QED
  BY <1>1, <1>2, <1>3, Invariant, PTL DEF Spec

-----------------------------------------------------------------------------
\* Owner names the one context that holds the lock, and Nobody for a free one.
OwnerRight ==
  \A l \in Lock :
    /\ ~locked[l] => Owner[l] = Nobody
    /\ \A c \in CPU, k \in Context : l \in held[c][k] => Owner[l] = <<c, k>>

\* Under the invariants Owner is the context whose held set has the lock.
LEMMA OwnerIs == MutualExclusion /\ LockedIffHeld => OwnerRight
<1> SUFFICES ASSUME MutualExclusion, LockedIffHeld, NEW l \in Lock
             PROVE  /\ ~locked[l] => Owner[l] = Nobody
                    /\ \A c \in CPU, k \in Context : l \in held[c][k] => Owner[l] = <<c, k>>
  BY DEF OwnerRight
<1>1. ~locked[l] => Owner[l] = Nobody
  BY DEF Owner
<1>2. ASSUME NEW c \in CPU, NEW k \in Context, l \in held[c][k]
      PROVE  Owner[l] = <<c, k>>
  <2>1. locked[l]
    BY <1>2 DEF LockedIffHeld
  <2>2. Owner[l] = CHOOSE a \in Agent : l \in held[a[1]][a[2]]
    BY <2>1 DEF Owner
  <2>3. <<c, k>> \in Agent /\ l \in held[<<c, k>>[1]][<<c, k>>[2]]
    BY <1>2 DEF Agent
  <2>4. \A a \in Agent : l \in held[a[1]][a[2]] => a = <<c, k>>
    BY <1>2 DEF Agent, MutualExclusion
  <2> QED
    BY <2>2, <2>3, <2>4
<1> QED
  BY <1>1, <1>2

\* A step that leaves the ownership of every other lock alone changes Owner
\* at that one only.
LEMMA OwnerChanges ==
  ASSUME OwnerRight, OwnerRight', LockedIffHeld, LockedIffHeld', NEW l \in Lock, NEW a,
         Owner'[l] = a,
         \A m \in Lock, c \in CPU, k \in Context :
           m # l => (m \in held'[c][k] <=> m \in held[c][k])
  PROVE  Owner' = [Owner EXCEPT ![l] = a]
<1>1. \A m \in Lock : m # l => Owner'[m] = Owner[m]
  <2> SUFFICES ASSUME NEW m \in Lock, m # l PROVE Owner'[m] = Owner[m]
    OBVIOUS
  <2>1. CASE \E c \in CPU, k \in Context : m \in held[c][k]
    BY <2>1 DEF OwnerRight
  <2>2. CASE ~\E c \in CPU, k \in Context : m \in held[c][k]
    <3>1. ~locked[m] /\ ~locked'[m]
      BY <2>2 DEF LockedIffHeld
    <3> QED
      BY <3>1 DEF OwnerRight
  <2> QED
    BY <2>1, <2>2
<1>2. Owner = [m \in Lock |-> Owner[m]] /\ Owner' = [m \in Lock |-> Owner'[m]]
  BY DEF Owner
<1> QED
  BY <1>1, <1>2

\* A step that leaves locked and held alone is invisible to the mutex.
LEMMA OwnerSame ==
  ASSUME UNCHANGED <<locked, held>>
  PROVE  Owner' = Owner
BY DEF Owner

\* The xchg that wins is the mutex's Take.
LEMMA XchgTakes ==
  ASSUME IInv, IInv', OwnerRight, OwnerRight',
         NEW c \in CPU, NEW k \in Context, Xchg(c, k)
  PROVE  Abstract!Next
<1> DEFINE l == lk[c][k]
<1> USE DEF IInv
<1>1. l \in Lock /\ ~locked[l]
  BY DEF Xchg, At, Calls, XchgWins
<1>2. Owner[l] = Nobody
  BY <1>1 DEF OwnerRight
<1>3. l \in held'[c][k]
  BY <1>1 DEF Xchg, TypeOK
<1>4. Owner'[l] = <<c, k>>
  BY <1>1, <1>3 DEF OwnerRight
<1>5. \A m \in Lock, d \in CPU, j \in Context :
        m # l => (m \in held'[d][j] <=> m \in held[d][j])
  BY <1>1 DEF Xchg, TypeOK
<1>6. Owner' = [Owner EXCEPT ![l] = <<c, k>>]
  BY <1>1, <1>4, <1>5, OwnerChanges
<1>7. <<c, k>> \in Agent
  BY DEF Agent
<1> QED
  BY <1>1, <1>2, <1>6, <1>7 DEF Abstract!Next, Abstract!Take

\* The store that clears lk->locked is the mutex's Give.
LEMMA UnlockGives ==
  ASSUME IInv, IInv', OwnerRight, OwnerRight',
         NEW c \in CPU, NEW k \in Context, Unlock(c, k)
  PROVE  Abstract!Next
<1> DEFINE l == lk[c][k]
<1> USE DEF IInv
<1>1. l \in Lock /\ l \in held[c][k]
  BY DEF Unlock, At, Calls
<1>2. Owner[l] = <<c, k>>
  BY <1>1 DEF OwnerRight
<1>3. ~locked'[l]
  BY <1>1 DEF Unlock, TypeOK
<1>4. Owner'[l] = Nobody
  BY <1>1, <1>3 DEF OwnerRight
<1>5. \A m \in Lock, d \in CPU, j \in Context :
        m # l => (m \in held'[d][j] <=> m \in held[d][j])
  BY <1>1 DEF Unlock, TypeOK
<1>6. Owner' = [Owner EXCEPT ![l] = Nobody]
  BY <1>1, <1>4, <1>5, OwnerChanges
<1>7. <<c, k>> \in Agent
  BY DEF Agent
<1> QED
  BY <1>1, <1>2, <1>6, <1>7 DEF Abstract!Next, Abstract!Give

\* The spin lock implements the mutex: taking a lock is the xchg that wins,
\* freeing it the store that clears lk->locked, and every other step of
\* acquire, release and the handlers is invisible.
THEOREM Implementation == Spec => ImplementsMutex
<1>1. Init => Abstract!Init
  BY DEF Init, Owner, Abstract!Init
<1>2. IInv => OwnerRight
  BY OwnerIs DEF IInv
<1>3. IInv /\ IInv' /\ OwnerRight /\ OwnerRight' /\ [Next]_vars => [Abstract!Next]_Owner
  <2> SUFFICES ASSUME IInv, IInv', OwnerRight, OwnerRight', [Next]_vars
               PROVE [Abstract!Next]_Owner
    OBVIOUS
  <2>1. CASE UNCHANGED vars
    BY <2>1, OwnerSame DEF vars
  <2>2. ASSUME NEW c \in CPU, NEW k \in Context, NEW l \in Lock,
               Acquire(c, k, l) \/ Release(c, k, l)
        PROVE  Owner' = Owner
    BY <2>2, OwnerSame DEF Acquire, Release
  <2>3. ASSUME NEW c \in CPU, Interrupt(c) \/ IntrReturn(c)
        PROVE  Owner' = Owner
    BY <2>3, OwnerSame DEF Interrupt, IntrReturn
  <2>4. ASSUME NEW c \in CPU, NEW k \in Context, Inside(c, k)
        PROVE  Abstract!Next \/ Owner' = Owner
    BY <2>4, OwnerSame, XchgTakes, UnlockGives DEF Inside, PushCli, ReadLocked, NotHolding,
       Reenter, PanicAcquire, SetCpu, CheckHolding, PanicRelease, ClearCpu, PopCli
  <2> QED
    BY <2>1, <2>2, <2>3, <2>4 DEF Next
<1> QED
  BY <1>1, <1>2, <1>3, Invariant, PTL DEF Spec, ImplementsMutex, Abstract!Spec
=============================================================================
