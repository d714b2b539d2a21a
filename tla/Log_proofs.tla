----------------------------- MODULE Log_proofs -----------------------------
(***************************************************************************)
(* The write-ahead log for any number of processes and blocks, any size of *)
(* the log and crashes between any two writes of the disk: it implements   *)
(* transactions of whole calls, the reserved space is there, and begin_op  *)
(* sleeps only while it could not begin.                                   *)
(*                                                                         *)
(* Nothing of this is inductive without what the phases of a commit and of *)
(* a recovery leave on the disk (Durability), which rests on there being   *)
(* one committer and no call beside it (Counting), and on the log having   *)
(* its blocks at different places within its size (Space).                 *)
(***************************************************************************)
EXTENDS Log, FiniteSetTheorems, SequenceTheorems, TLAPS

PC == {"idle", "asleep", "woken", "op", "log_write", "write_log", "write_head",
       "install", "done", "panic"}
Committer == {"write_log", "write_head", "install", "done"}
Active == {p \in Proc : InCall(p)}

Types ==
  /\ home \in [Block -> Value]
  /\ dlog \in [1..LOGSIZE -> Value]
  /\ dhead \in Seq(Block)
  /\ lh \in Seq(Block)
  /\ mem \in [Block -> IF boot = "up" THEN Value ELSE {Lost}]
  /\ committing \in BOOLEAN
  /\ tail \in 1..LOGSIZE + 1
  /\ boot \in {"read_head", "install", "up"}
  /\ pc \in [Proc -> PC]
  /\ buf \in [Proc -> Block \cup {Lost}]
  /\ wrote \in [Proc -> SUBSET Block]

\* One process commits, when no call is under way.
Counting ==
  /\ outstanding = Cardinality(Active)
  /\ committing => Active = {}
  /\ \A p \in Proc : pc[p] \in Committer => committing
  /\ \A p, q \in Proc : pc[p] \in Committer /\ pc[q] \in Committer => p = q

\* The log has its blocks at different places, and room for what is reserved.
Space ==
  /\ IsInjective(lh)
  /\ IsInjective(dhead) /\ Len(dhead) <= LOGSIZE
  /\ \A p \in Proc : Cardinality(wrote[p]) <= OpBlocks
  /\ \A p \in Proc : pc[p] \in {"log_write", "panic"} => buf[p] \in wrote[p]
  /\ Len(lh) + outstanding * MAXOPBLOCKS - Cardinality(Used) <= LOGSIZE

\* Before recovery has ended no process runs.
Booting ==
  /\ boot # "up" => ~committing /\ outstanding = 0 /\ \A p \in Proc : pc[p] = "idle"
  /\ boot = "read_head" => lh = <<>> /\ tail = 1
  /\ boot = "install" =>
       /\ lh = dhead
       /\ \A i \in 1..Len(lh) : i < tail => home[lh[i]] = dlog[i]

\* What is on the disk: without a committed log the blocks at home are those
\* in memory, but for the ones in the log or about to be; in a commit, the
\* log's blocks are those in memory, and from write_head on that is what a
\* recovery would install.
Pending(b) == \E p \in Proc : pc[p] \in {"log_write", "panic"} /\ buf[p] = b
Copied(k) == \A i \in 1..Len(lh) : i < k => dlog[i] = mem[lh[i]]
AllCopied == \A i \in 1..Len(lh) : dlog[i] = mem[lh[i]]
Installed == \A i \in 1..Len(lh) : i < tail => home[lh[i]] = dlog[i]

Durability ==
  boot = "up" =>
    /\ (\A p \in Proc : pc[p] # "install") => dhead = <<>>
    /\ \A b \in Block : b \in Blocks(lh) \/ Pending(b) \/ home[b] = mem[b]
    /\ \A p \in Proc :
         /\ pc[p] = "write_log" => Copied(tail)
         /\ pc[p] = "write_head" => AllCopied /\ tail = 1
         /\ pc[p] = "install" => dhead = lh /\ AllCopied /\ Installed
         /\ pc[p] = "done" => lh = <<>>

IInv == Types /\ Counting /\ Space /\ Booting /\ Durability /\ NoLostWakeup

-----------------------------------------------------------------------------
\* Sets with k elements at most for each element of A have k times as many
\* pairs at most.
LEMMA Rows ==
  ASSUME NEW A, IsFiniteSet(A), NEW B, NEW k \in Nat, NEW w,
         \A p \in A : IsFiniteSet(w[p]) /\ Cardinality(w[p]) <= k
  PROVE  LET W == {u \in A \X B : u[2] \in w[u[1]]}
         IN  IsFiniteSet(W) /\ Cardinality(W) <= Cardinality(A) * k
<1> DEFINE W == {u \in A \X B : u[2] \in w[u[1]]}
<1> DEFINE T == A \X (1..k)
<1>1. \A p \in A : \E f \in [w[p] -> 1..k] : IsInjective(f)
  <2> SUFFICES ASSUME NEW p \in A PROVE \E f \in [w[p] -> 1..k] : IsInjective(f)
    OBVIOUS
  <2>1. PICK n \in Nat : n = Cardinality(w[p]) /\ n <= k
    BY FS_CardinalityType
  <2>2. PICK g \in Bijection(1..n, w[p]) : TRUE
    BY <2>1, FS_CardinalityType DEF ExistsBijection
  <2>3. /\ g \in [1..n -> w[p]]
        /\ \A i, j \in 1..n : g[i] = g[j] => i = j
        /\ \A x \in w[p] : \E i \in 1..n : g[i] = x
    BY <2>2 DEF Bijection, Injection, Surjection, IsInjective
  <2> DEFINE f == [x \in w[p] |-> CHOOSE i \in 1..n : g[i] = x]
  <2>4. \A x \in w[p] : f[x] \in 1..n /\ g[f[x]] = x
    BY <2>3
  <2>5. f \in [w[p] -> 1..k]
    <3>1. \A x \in w[p] : f[x] \in 1..k
      BY <2>1, <2>4
    <3> QED
      BY <3>1
  <2>6. IsInjective(f)
    BY <2>4 DEF IsInjective
  <2> QED
    BY <2>5, <2>6
<1> DEFINE e == [p \in A |-> CHOOSE f \in [w[p] -> 1..k] : IsInjective(f)]
<1>2. \A p \in A : e[p] \in [w[p] -> 1..k] /\ IsInjective(e[p])
  BY <1>1
<1> HIDE DEF e
<1> DEFINE h == [u \in W |-> <<u[1], e[u[1]][u[2]]>>]
<1>3. h \in [W -> T]
  BY <1>2
<1>4. IsInjective(h)
  <2> SUFFICES ASSUME NEW u \in W, NEW v \in W, h[u] = h[v] PROVE u = v
    BY DEF IsInjective
  <2>1. u[1] = v[1] /\ e[u[1]][u[2]] = e[u[1]][v[2]]
    OBVIOUS
  <2>2. u[2] \in w[u[1]] /\ v[2] \in w[u[1]] /\ u[1] \in A
    BY <2>1
  <2>3. u[2] = v[2]
    BY <1>2, <2>1, <2>2 DEF IsInjective
  <2> QED
    BY <2>1, <2>3
<1>5. IsFiniteSet(T) /\ Cardinality(T) = Cardinality(A) * k
  <2>1. IsFiniteSet(1..k) /\ Cardinality(1..k) = k
    BY FS_Interval
  <2> QED
    BY <2>1, FS_Product
<1>6. h \in Injection(W, T)
  BY <1>3, <1>4 DEF Injection
<1> HIDE DEF h, W, T
<1>7. IsFiniteSet(W) /\ Cardinality(W) <= Cardinality(T)
  BY <1>5, <1>6, FS_Injection
<1> QED
  BY <1>5, <1>7 DEF W

\* A product with a larger factor.
LEMMA Grows ==
  ASSUME NEW m \in Nat, NEW x \in Nat, NEW y \in Nat, x <= y
  PROVE  x * m <= y * m
<1>1. PICK d \in Nat : y = x + d
  <2>1. y - x \in Nat /\ y = x + (y - x)
    OBVIOUS
  <2> QED
    BY <2>1
<1>2. y * m = x * m + d * m /\ d * m \in Nat /\ x * m \in Nat
  BY <1>1
<1> QED
  BY <1>2

\* The calls under way are finitely many, and what they have used of the
\* reserved space is at most OpBlocks for each.
Written == {u \in Active \X Block : u[2] \in wrote[u[1]]}

\* Finitely many calls are between begin_op and end_op.
LEMMA CallsAreFinite ==
  IsFiniteSet(Active) /\ Cardinality(Active) \in Nat
<1>1. Active \subseteq Proc
  BY DEF Active
<1> QED
  BY <1>1, LogAssumption, FS_Subset, FS_CardinalityType DEF LogAssumption

\* What the calls have used is finite,
LEMMA UsedIsFinite ==
  IsFiniteSet(Used) /\ Cardinality(Used) \in Nat
<1>1. IsFiniteSet(Proc \X Block)
  BY LogAssumption, FS_Product DEF LogAssumption
<1>2. Used \subseteq Proc \X Block
  BY DEF Used
<1> QED
  BY <1>1, <1>2, FS_Subset, FS_CardinalityType

\* A call records at most OpBlocks blocks in log_write.
LEMMA WrittenBound ==
  ASSUME Types, Counting, Space
  PROVE  IsFiniteSet(Written) /\ Cardinality(Written) <= outstanding * OpBlocks
<1>1. \A p \in Active : IsFiniteSet(wrote[p]) /\ Cardinality(wrote[p]) <= OpBlocks
  BY LogAssumption, FS_Subset DEF LogAssumption, Types, Space, Active
<1>2. OpBlocks \in Nat
  BY LogAssumption DEF LogAssumption
<1>3. IsFiniteSet(Written) /\ Cardinality(Written) <= Cardinality(Active) * OpBlocks
  BY <1>1, <1>2, CallsAreFinite, Rows DEF Written
<1> QED
  BY <1>3 DEF Counting

\* So the log has room for what each call may still write, and for the block
\* that a call is about to add.
LEMMA RoomIsLeft ==
  ASSUME Types, Counting, Space
  PROVE  /\ Len(lh) + outstanding * MAXOPBLOCKS <= LOGSIZE + outstanding * OpBlocks
         /\ \A p \in Proc : pc[p] = "log_write" /\ buf[p] \notin Blocks(lh) =>
              Len(lh) + outstanding * MAXOPBLOCKS < LOGSIZE + outstanding * OpBlocks
<1>1. /\ Len(lh) \in Nat /\ LOGSIZE \in Nat /\ MAXOPBLOCKS \in Nat /\ OpBlocks \in Nat
      /\ outstanding \in Nat /\ outstanding * MAXOPBLOCKS \in Nat /\ outstanding * OpBlocks \in Nat
  BY LogAssumption, CallsAreFinite, LenProperties DEF LogAssumption, Types, Counting
<1>2. Used \subseteq Written
  BY DEF Used, Written, Active
<1>3. Cardinality(Used) <= outstanding * OpBlocks
  <2>1. Cardinality(Used) <= Cardinality(Written) /\ Cardinality(Written) \in Nat
    BY <1>2, WrittenBound, FS_Subset, FS_CardinalityType
  <2> QED
    BY <1>1, <2>1, UsedIsFinite, WrittenBound
<1>4. ASSUME NEW p \in Proc, pc[p] = "log_write", buf[p] \notin Blocks(lh)
      PROVE  Cardinality(Used) < outstanding * OpBlocks
  <2> DEFINE u == <<p, buf[p]>>
  <2>1. u \in Written /\ u \notin Used
    BY <1>4 DEF Types, Space, Written, Used, Active, InCall
  <2>2. Used \subseteq Written \ {u}
    BY <1>2, <2>1
  <2>3. IsFiniteSet(Written \ {u}) /\ Cardinality(Written \ {u}) = Cardinality(Written) - 1
    BY <2>1, WrittenBound, FS_RemoveElement
  <2>4. Cardinality(Used) <= Cardinality(Written) - 1 /\ Cardinality(Written) \in Nat
    BY <2>2, <2>3, WrittenBound, FS_Subset, FS_CardinalityType
  <2> QED
    BY <1>1, <2>4, UsedIsFinite, WrittenBound
<1> QED
  BY <1>1, <1>3, <1>4, UsedIsFinite DEF Space

\* So the log never outgrows LOGSIZE, and log_write finds a place in lh.block.
LEMMA LogFits ==
  ASSUME Types, Counting, Space
  PROVE  /\ Len(lh) \in Nat /\ Len(lh) <= LOGSIZE
         /\ \A p \in Proc : pc[p] = "log_write" /\ buf[p] \notin Blocks(lh) => Len(lh) < LOGSIZE
<1>1. /\ Len(lh) \in Nat /\ LOGSIZE \in Nat /\ MAXOPBLOCKS \in Nat /\ OpBlocks \in Nat
      /\ outstanding \in Nat /\ OpBlocks <= MAXOPBLOCKS
  BY LogAssumption, CallsAreFinite, LenProperties DEF LogAssumption, Types, Counting
<1>2. OpBlocks * outstanding <= MAXOPBLOCKS * outstanding
  BY <1>1, Grows
<1>3. /\ outstanding * MAXOPBLOCKS \in Nat /\ outstanding * OpBlocks \in Nat
      /\ outstanding * OpBlocks <= outstanding * MAXOPBLOCKS
  BY <1>1, <1>2
<1> QED
  BY <1>1, <1>3, RoomIsLeft

\* What recording a block makes of the log.
LEMMA RecordedIs ==
  ASSUME NEW b \in Block, lh \in Seq(Block), IsInjective(lh)
  PROVE  /\ Recorded(b) \in Seq(Block)
         /\ Len(Recorded(b)) \in Nat /\ Len(lh) <= Len(Recorded(b))
         /\ Blocks(Recorded(b)) = Blocks(lh) \cup {b} /\ IsInjective(Recorded(b))
<1>1. Len(lh) \in Nat /\ DOMAIN lh = 1..Len(lh)
  BY LenProperties
<1>2. CASE b \in Blocks(lh)
  BY <1>1, <1>2 DEF Recorded
<1>3. CASE b \notin Blocks(lh)
  <2>1. PICK s \in Seq(Block) : s = Append(lh, b)
    BY AppendProperties
  <2>2. /\ Len(s) = Len(lh) + 1 /\ DOMAIN s = 1..Len(lh) + 1
        /\ \A i \in 1..Len(lh) : s[i] = lh[i]
        /\ s[Len(lh) + 1] = b
    BY <2>1, AppendProperties, LenProperties
  <2>3. \A i \in 1..Len(lh) : lh[i] # b
    BY <1>1, <1>3 DEF Blocks
  <2>4. IsInjective(s)
    BY <1>1, <2>2, <2>3 DEF IsInjective
  <2>5. Blocks(s) = Blocks(lh) \cup {b}
    BY <1>1, <2>2 DEF Blocks
  <2> QED
    BY <1>1, <1>3, <2>1, <2>2, <2>4, <2>5 DEF Recorded
<1> QED
  BY <1>2, <1>3

\* also after a step.
LEMMA UsedFiniteNext == IsFiniteSet(Used') /\ Cardinality(Used') \in Nat
<1>1. IsFiniteSet(Proc \X Block)
  BY LogAssumption, FS_Product DEF LogAssumption
<1>2. Used' \subseteq Proc \X Block
  BY DEF Used
<1> QED
  BY <1>1, <1>2, FS_Subset, FS_CardinalityType

-----------------------------------------------------------------------------
\* mkfs has left an empty log.
LEMMA InitIInv == Init => IInv
<1> SUFFICES ASSUME Init PROVE IInv
  OBVIOUS
<1> USE LogAssumption DEF LogAssumption, Init
<1>1. Types
  <2>1. lh \in Seq(Block) /\ dhead \in Seq(Block)
    BY EmptySeq
  <2>2. tail \in 1..LOGSIZE + 1
    OBVIOUS
  <2> QED
    BY <2>1, <2>2 DEF Types, PC
<1>2. Active = {} /\ Used = {}
  BY DEF Active, Used, InCall
<1>3. Counting
  BY <1>2, FS_EmptySet DEF Counting, Committer
<1>4. Space
  BY <1>2, FS_EmptySet, EmptySeq DEF Space, IsInjective
<1> QED
  BY <1>1, <1>3, <1>4 DEF IInv, Booting, Durability, NoLostWakeup

\* Every step of a call, of a commit and of a recovery keeps the invariant,
\* and so does a crash.
LEMMA NextIInv == IInv /\ [Next]_vars => IInv'
<1> SUFFICES ASSUME IInv, [Next]_vars PROVE IInv'
  OBVIOUS
<1> USE DEF IInv, At, Goto, disk, logvars
<1>1. /\ MAXOPBLOCKS \in Nat /\ LOGSIZE \in Nat /\ OpBlocks \in Nat
      /\ outstanding \in Nat /\ Len(lh) \in Nat /\ Len(lh) <= LOGSIZE
      /\ IsFiniteSet(Active) /\ Cardinality(Used) \in Nat
  BY LogAssumption, CallsAreFinite, UsedIsFinite, LogFits DEF LogAssumption, Counting
<1>2. outstanding * MAXOPBLOCKS \in Nat
  BY <1>1
<1>3. (outstanding + 1) * MAXOPBLOCKS = outstanding * MAXOPBLOCKS + MAXOPBLOCKS
  BY <1>1
<1>4. CASE UNCHANGED vars
  BY <1>4 DEF vars, Types, Counting, Active, InCall, Space, Used, Blocks, Booting,
     Durability, Pending, Copied, AllCopied, Installed, NoLostWakeup, HasRoom
<1>5. ASSUME NEW p \in Proc, BeginOp(p) PROVE IInv'
  <2> USE <1>5 DEF BeginOp
  <2>1. Types'
    BY DEF Types, PC
  <2>2. Active' = Active \cup {p} /\ p \notin Active /\ Used' = Used
    BY DEF Active, Used, InCall, Types, PC
  <2>3. Counting'
    <3>1. Cardinality(Active') = Cardinality(Active) + 1
      BY <1>1, <2>2, FS_AddElement
    <3>2. outstanding' = Cardinality(Active')
      BY <3>1 DEF Counting
    <3>3. \A q \in Proc : pc'[q] \in Committer <=> pc[q] \in Committer
      BY DEF Committer, Types
    <3> QED
      BY <3>2, <3>3 DEF Counting
  <2>4. Cardinality({}) = 0
    BY FS_EmptySet
  <2>5. Space'
    BY <1>1, <1>2, <1>3, <2>2, <2>4 DEF Space, Types, PC, HasRoom
  <2>6. Booting'
    BY DEF Booting, Types
  <2>7. Durability'
    BY DEF Durability, Types, PC, Pending, Copied, AllCopied, Installed
  <2>8. (outstanding + 2) * MAXOPBLOCKS >= (outstanding + 1) * MAXOPBLOCKS
    BY <1>1, Grows
  <2>9. NoLostWakeup'
    BY <1>1, <1>2, <1>3, <2>8 DEF NoLostWakeup, HasRoom, Types, PC
  <2> QED
    BY <2>1, <2>3, <2>5, <2>6, <2>7, <2>9
<1>6. ASSUME NEW p \in Proc, BeginOpSleeps(p) PROVE IInv'
  <2> USE <1>6 DEF BeginOpSleeps
  <2>1. Types'
    BY DEF Types, PC
  <2>2. Active' = Active /\ Used' = Used
    BY DEF Active, Used, InCall, Types, PC
  <2>3. Counting'
    BY <2>2 DEF Counting, Committer, Types, PC
  <2>4. Space'
    BY <2>2 DEF Space, Types, PC
  <2>5. Booting'
    BY DEF Booting, Types
  <2>6. Durability'
    BY DEF Durability, Types, PC, Pending, Copied, AllCopied, Installed
  <2>7. NoLostWakeup'
    BY DEF NoLostWakeup, HasRoom, Types, PC
  <2> QED
    BY <2>1, <2>3, <2>4, <2>5, <2>6, <2>7
<1>7. ASSUME NEW p \in Proc, NEW b \in Block, NEW v \in Value, Modify(p, b, v) PROVE IInv'
  <2> USE <1>7 DEF Modify
  <2>1. Types'
    BY DEF Types, PC
  <2>2. Active' = Active /\ Used \subseteq Used'
    BY DEF Active, Used, InCall, Types, PC
  <2>3. Counting'
    BY <2>2 DEF Counting, Committer, Types, PC
  <2>4. Cardinality(wrote'[p]) <= OpBlocks
    <3>1. wrote[p] \subseteq Block /\ wrote'[p] = wrote[p] \cup {b}
      BY DEF Types
    <3>2. IsFiniteSet(wrote[p]) /\ Cardinality(wrote[p]) \in Nat
      BY <3>1, LogAssumption, FS_Subset, FS_CardinalityType DEF LogAssumption
    <3>3. Cardinality(wrote[p]) <= OpBlocks
      BY DEF Space
    <3>4. CASE b \in wrote[p]
      <4>1. wrote'[p] = wrote[p]
        BY <3>1, <3>4
      <4> QED
        BY <3>3, <4>1
    <3>5. CASE b \notin wrote[p]
      <4>1. Cardinality(wrote'[p]) = Cardinality(wrote[p]) + 1
        BY <3>1, <3>2, <3>5, FS_AddElement
      <4>2. Cardinality(wrote[p]) < OpBlocks
        BY <3>5
      <4> QED
        BY <1>1, <3>2, <4>1, <4>2
    <3> QED
      BY <3>4, <3>5
  <2>5. Cardinality(Used) <= Cardinality(Used') /\ Cardinality(Used') \in Nat
    BY <2>2, UsedFiniteNext, FS_Subset
  <2>6. Space'
    BY <1>1, <1>2, <2>2, <2>4, <2>5 DEF Space, Types, PC
  <2>7. Booting'
    BY DEF Booting, Types
  <2>8. Durability'
    <3>1. p \in Active /\ \A q \in Proc : pc[q] \notin Committer /\ pc'[q] \notin Committer
      BY DEF Counting, Committer, Active, InCall, Types, PC
    <3>2. dhead' = <<>>
      BY <3>1 DEF Durability, Committer
    <3>3. Pending(b)' /\ \A c \in Block : Pending(c) => Pending(c)'
      BY DEF Pending, Types, PC
    <3>4. \A c \in Block : c = b \/ mem'[c] = mem[c]
      BY DEF Types
    <3> QED
      BY <3>1, <3>2, <3>3, <3>4 DEF Durability, Committer
  <2>9. NoLostWakeup'
    BY DEF NoLostWakeup, HasRoom, Types, PC
  <2> QED
    BY <2>1, <2>3, <2>6, <2>7, <2>8, <2>9
<1>8. ASSUME NEW p \in Proc, LogWrite(p) PROVE IInv'
  <2> USE <1>8 DEF LogWrite
  <2>1. buf[p] \in Block /\ p \in Active /\ ~committing
    BY DEF Types, Space, Active, InCall, Counting
  <2>2. /\ lh' \in Seq(Block) /\ Len(lh') \in Nat /\ Len(lh) <= Len(lh')
         /\ Blocks(lh') = Blocks(lh) \cup {buf[p]} /\ IsInjective(lh')
    BY <2>1, RecordedIs DEF Types, Space
  <2>3. Types'
    BY <2>2 DEF Types, PC
  <2>4. Active' = Active
    BY DEF Active, InCall, Types, PC
  <2>5. Counting'
    BY <2>4 DEF Counting, Committer, Types, PC
  <2>6. Used \subseteq Used'
    BY <2>2, <2>4 DEF Used, InCall, Types, PC
  <2>7. Len(lh') - Cardinality(Used') <= Len(lh) - Cardinality(Used)
    <3>1. CASE buf[p] \in Blocks(lh)
      <4>1. lh' = lh
        BY <3>1 DEF Recorded
      <4>2. Cardinality(Used) <= Cardinality(Used') /\ Cardinality(Used') \in Nat
        BY <2>6, UsedFiniteNext, FS_Subset
      <4> QED
        BY <1>1, <4>1, <4>2
    <3>2. CASE buf[p] \notin Blocks(lh)
      <4> DEFINE u == <<p, buf[p]>>
      <4>1. u \notin Used /\ u \in Used'
        BY <2>1, <2>2, <3>2 DEF Used, InCall, Space, Types, PC
      <4>2. Used \cup {u} \subseteq Used' /\ Cardinality(Used \cup {u}) = Cardinality(Used) + 1
        BY <2>6, <4>1, UsedIsFinite, FS_AddElement
      <4>3. Cardinality(Used) + 1 <= Cardinality(Used') /\ Cardinality(Used') \in Nat
        BY <4>2, UsedFiniteNext, FS_Subset
      <4>4. Len(lh') = Len(lh) + 1
        BY <2>1, <3>2, AppendProperties DEF Recorded, Types
      <4> QED
        BY <1>1, <4>3, <4>4
    <3> QED
      BY <3>1, <3>2
  <2>8. Cardinality(Used') \in Nat
    BY UsedFiniteNext
  <2>9. Space'
    BY <1>1, <1>2, <2>2, <2>7, <2>8 DEF Space, Types, PC
  <2>10. Booting'
    BY DEF Booting, Types
  <2>11. Durability'
    <3>1. \A b \in Block : b \in Blocks(lh') \/ Pending(b)' \/ home'[b] = mem'[b]
      <4> SUFFICES ASSUME NEW b \in Block PROVE b \in Blocks(lh') \/ Pending(b)' \/ home[b] = mem[b]
        OBVIOUS
      <4>1. Pending(b) => Pending(b)' \/ b = buf[p]
        BY DEF Pending, Types, PC
      <4> QED
        BY <2>2, <4>1 DEF Durability
    <3>2. \A q \in Proc : pc'[q] \notin Committer
      BY <2>1 DEF Counting, Committer, Types, PC
    <3>3. (\A q \in Proc : pc'[q] # "install") => dhead' = <<>>
      BY <2>1 DEF Counting, Committer, Durability
    <3> QED
      BY <3>1, <3>2, <3>3 DEF Durability, Committer
  <2>12. NoLostWakeup'
    BY <1>1, <1>2, <1>3, <2>2 DEF NoLostWakeup, HasRoom, Types, PC
  <2> QED
    BY <2>3, <2>5, <2>9, <2>10, <2>11, <2>12
<1>9. ASSUME NEW p \in Proc, EndOp(p) PROVE IInv'
  <2> USE <1>9 DEF EndOp, WakeupLog
  <2>1. p \in Active /\ ~committing
    BY DEF Active, InCall, Counting
  <2>2. Types'
    <3>1. pc' \in [Proc -> PC]
      BY <2>1 DEF Types, PC
    <3>2. tail' \in 1..LOGSIZE + 1
      BY <1>1, <2>1 DEF Types
    <3>3. committing' \in BOOLEAN
      BY <2>1 DEF Types
    <3> QED
      BY <3>1, <3>2, <3>3 DEF Types
  <2>3. Active' = Active \ {p} /\ Used' \subseteq Used
    BY <2>1 DEF Active, Used, InCall, Types, PC
  <2>4. Cardinality(Active') = outstanding - 1
    BY <1>1, <2>1, <2>3, FS_RemoveElement DEF Counting
  <2>5. committing' => Active' = {}
    <3> SUFFICES ASSUME outstanding = 1 PROVE Active' = {}
      BY <2>1 DEF IsLastOp
    <3>1. IsFiniteSet(Active') /\ Cardinality(Active') = 0
      BY <1>1, <2>3, <2>4, FS_RemoveElement
    <3> QED
      BY <3>1, FS_EmptySet
  <2>6. Counting'
    BY <2>1, <2>4, <2>5 DEF Counting, Committer, Types, PC
  <2>7. Cardinality(Used) - Cardinality(Used') <= OpBlocks /\ Cardinality(Used') \in Nat
    <3> DEFINE row == {p} \X wrote[p]
    <3>1. IsFiniteSet(row) /\ Cardinality(row) <= OpBlocks /\ Cardinality(row) \in Nat
      <4>1. IsFiniteSet(wrote[p]) /\ Cardinality(wrote[p]) <= OpBlocks /\ Cardinality(wrote[p]) \in Nat
        BY LogAssumption, FS_Subset, FS_CardinalityType DEF LogAssumption, Space, Types
      <4>2. IsFiniteSet({p}) /\ Cardinality({p}) = 1
        BY FS_Singleton
      <4>3. IsFiniteSet(row) /\ Cardinality(row) = 1 * Cardinality(wrote[p])
        BY <4>1, <4>2, FS_Product
      <4> QED
        BY <4>1, <4>3
    <3>2. Used \subseteq Used' \cup row
      BY <2>1 DEF Used, InCall, Types, PC
    <3>3. IsFiniteSet(Used') /\ Cardinality(Used') \in Nat
      BY UsedFiniteNext
    <3> HIDE DEF row
    <3>4. /\ IsFiniteSet(Used' \cup row)
          /\ Cardinality(Used' \cup row) = Cardinality(Used') + Cardinality(row) - Cardinality(Used' \cap row)
          /\ Cardinality(Used' \cap row) \in Nat
      BY <3>1, <3>3, FS_Union, FS_Intersection, FS_CardinalityType
    <3>5. Cardinality(Used) <= Cardinality(Used' \cup row)
      BY <3>2, <3>4, FS_Subset
    <3> QED
      BY <1>1, <3>1, <3>3, <3>4, <3>5
  <2>8. (outstanding - 1) * MAXOPBLOCKS = outstanding * MAXOPBLOCKS - MAXOPBLOCKS
    BY <1>1
  <2>9. Space'
    <3>1. OpBlocks <= MAXOPBLOCKS
      BY LogAssumption DEF LogAssumption
    <3>2. Len(lh') + outstanding' * MAXOPBLOCKS - Cardinality(Used') <= LOGSIZE
      <4>1. Len(lh') = Len(lh) /\ outstanding' * MAXOPBLOCKS = outstanding * MAXOPBLOCKS - MAXOPBLOCKS
        BY <2>8
      <4>2. Len(lh) + outstanding * MAXOPBLOCKS - Cardinality(Used) <= LOGSIZE
        BY DEF Space
      <4> DEFINE o == outstanding * MAXOPBLOCKS
      <4> DEFINE u == Cardinality(Used)
      <4> DEFINE v == Cardinality(Used')
      <4>3. o \in Nat /\ u \in Nat /\ v \in Nat /\ u - v <= OpBlocks /\ Len(lh) + o - u <= LOGSIZE
        BY <1>1, <1>2, <2>7, <4>2
      <4> HIDE DEF o, u, v
      <4>4. Len(lh) + (o - MAXOPBLOCKS) - v <= LOGSIZE
        BY <1>1, <3>1, <4>3
      <4> QED
        BY <4>1, <4>4 DEF o, v
    <3>3. \A q \in Proc : pc'[q] \in {"log_write", "panic"} => buf'[q] \in wrote'[q]
      BY <2>1 DEF Space, Types, PC
    <3> QED
      BY <3>2, <3>3 DEF Space
  <2>10. Booting'
    BY DEF Booting, Types
  <2>11. Durability'
    BY <1>1, <2>1 DEF Durability, Types, PC, Pending, Copied, Committer, Counting
  <2>12. NoLostWakeup'
    BY <2>1 DEF NoLostWakeup, Types, PC
  <2> QED
    BY <2>2, <2>6, <2>9, <2>10, <2>11, <2>12
<1>10. ASSUME NEW p \in Proc, WriteLog(p) PROVE IInv'
  <2> USE <1>10 DEF WriteLog
  <2>1. /\ committing /\ \A b \in Block : ~Pending(b)
        /\ \A q \in Proc : q # p => pc[q] \notin Committer
    BY DEF Counting, Committer, Active, InCall, Pending
  <2>2. Types'
    BY <1>1 DEF Types, PC
  <2>3. Active' = Active /\ Used' = Used
    BY DEF Active, Used, InCall, Types, PC
  <2>4. Counting'
    BY <2>1, <2>3 DEF Counting, Committer, Types, PC
  <2>5. Space'
    BY <1>1, <2>3 DEF Space, Types, PC
  <2>6. Booting'
    BY DEF Booting, Types
  <2>7. Durability'
    BY <1>1, <2>1 DEF Durability, Types, PC, Pending, Copied, AllCopied, Installed, Committer
  <2>8. NoLostWakeup'
    BY <2>1 DEF NoLostWakeup, Types, PC
  <2> QED
    BY <2>2, <2>4, <2>5, <2>6, <2>7, <2>8
<1>11. ASSUME NEW p \in Proc, LogWritten(p) PROVE IInv'
  <2> USE <1>11 DEF LogWritten, AfterWriteLog
  <2>1. /\ committing /\ \A b \in Block : ~Pending(b)
        /\ \A q \in Proc : q # p => pc[q] \notin Committer
    BY DEF Counting, Committer, Active, InCall, Pending
  <2>2. Types'
    BY <1>1 DEF Types, PC
  <2>3. Active' = Active /\ Used' = Used
    BY DEF Active, Used, InCall, Types, PC
  <2>4. Counting'
    BY <2>1, <2>3 DEF Counting, Committer, Types, PC
  <2>5. Space'
    BY <1>1, <2>3 DEF Space, Types, PC
  <2>6. Booting'
    BY DEF Booting, Types
  <2>7. Durability'
    BY <1>1, <2>1 DEF Durability, Types, PC, Pending, Copied, AllCopied, Installed, Committer
  <2>8. NoLostWakeup'
    BY <2>1 DEF NoLostWakeup, Types, PC
  <2> QED
    BY <2>2, <2>4, <2>5, <2>6, <2>7, <2>8
<1>12. ASSUME NEW p \in Proc, WriteHead(p) PROVE IInv'
  <2> USE <1>12 DEF WriteHead
  <2>1. /\ committing /\ \A b \in Block : ~Pending(b)
        /\ \A q \in Proc : q # p => pc[q] \notin Committer
    BY DEF Counting, Committer, Active, InCall, Pending
  <2>2. Types'
    BY <1>1 DEF Types, PC
  <2>3. Active' = Active /\ Used' = Used
    BY DEF Active, Used, InCall, Types, PC
  <2>4. Counting'
    BY <2>1, <2>3 DEF Counting, Committer, Types, PC
  <2>5. Space'
    BY <1>1, <2>3 DEF Space, Types, PC
  <2>6. Booting'
    BY DEF Booting, Types
  <2>7. Durability'
    BY <1>1, <2>1 DEF Durability, Types, PC, Pending, Copied, AllCopied, Installed, Committer
  <2>8. NoLostWakeup'
    BY <2>1 DEF NoLostWakeup, Types, PC
  <2> QED
    BY <2>2, <2>4, <2>5, <2>6, <2>7, <2>8
<1>13. ASSUME NEW p \in Proc, Install(p) PROVE IInv'
  <2> USE <1>13 DEF Install, InstallTrans
  <2>1. /\ committing /\ \A b \in Block : ~Pending(b)
        /\ \A q \in Proc : q # p => pc[q] \notin Committer
    BY DEF Counting, Committer, Active, InCall, Pending
  <2>2. Types'
    BY <1>1 DEF Types, PC
  <2>3. Active' = Active /\ Used' = Used
    BY DEF Active, Used, InCall, Types, PC
  <2>4. Counting'
    BY <2>1, <2>3 DEF Counting, Committer, Types, PC
  <2>5. Space'
    BY <1>1, <2>3 DEF Space, Types, PC
  <2>6. Booting'
    BY DEF Booting, Types
  <2>7. Durability'
    BY <1>1, <2>1 DEF Durability, Types, PC, Pending, Copied, AllCopied, Installed, Committer
  <2>8. NoLostWakeup'
    BY <2>1 DEF NoLostWakeup, Types, PC
  <2> QED
    BY <2>2, <2>4, <2>5, <2>6, <2>7, <2>8
<1>14. ASSUME NEW p \in Proc, Erase(p) PROVE IInv'
  <2> USE <1>14 DEF Erase, AllInstalled
  <2>1. /\ committing /\ \A b \in Block : ~Pending(b)
        /\ \A q \in Proc : q # p => pc[q] \notin Committer
    BY DEF Counting, Committer, Active, InCall, Pending
  <2>2. Types'
    BY <1>1, EmptySeq DEF Types, PC
  <2>3. Active' = Active /\ Active = {} /\ Used = {} /\ Used' = {}
    BY <2>1 DEF Counting, Active, Used, InCall, Types, PC, Blocks
  <2>4. Counting'
    BY <2>1, <2>3 DEF Counting, Committer, Types, PC
  <2>5. Space'
    <3>1. outstanding' = 0 /\ Cardinality(Used') = 0
      BY <2>3, FS_EmptySet DEF Counting
    <3>2. IsInjective(<<>>) /\ Len(<<>>) = 0
      BY EmptySeq DEF IsInjective
    <3>3. \A q \in Proc : pc'[q] \notin {"log_write", "panic"}
      BY <2>3 DEF Active, InCall, Types, PC
    <3> QED
      BY <1>1, <3>1, <3>2, <3>3 DEF Space
  <2>6. Booting'
    BY DEF Booting, Types
  <2>7. Durability'
    <3>1. dhead = lh /\ AllCopied /\ Installed
      BY DEF Durability
    <3>2. \A b \in Block : home[b] = mem[b]
      <4> SUFFICES ASSUME NEW b \in Block PROVE home[b] = mem[b]
        OBVIOUS
      <4>1. b \in Blocks(lh) \/ home[b] = mem[b]
        BY <2>1 DEF Durability
      <4>2. ASSUME b \in Blocks(lh) PROVE home[b] = mem[b]
        <5>1. PICK i \in DOMAIN lh : lh[i] = b
          BY <4>2 DEF Blocks
        <5>2. i \in 1..Len(lh) /\ i < tail
          BY <1>1, <5>1 DEF Types
        <5> QED
          BY <3>1, <5>1, <5>2 DEF AllCopied, Installed
      <4> QED
        BY <4>1, <4>2
    <3>3. \A q \in Proc : pc'[q] \notin {"write_log", "write_head", "install"}
      BY <2>1 DEF Committer, Types, PC
    <3> QED
      BY <3>2, <3>3 DEF Durability
  <2>8. NoLostWakeup'
    BY <2>1 DEF NoLostWakeup, Types, PC
  <2> QED
    BY <2>2, <2>4, <2>5, <2>6, <2>7, <2>8
<1>15. ASSUME NEW p \in Proc, CommitDone(p) PROVE IInv'
  <2> USE <1>15 DEF CommitDone, WakeupLog
  <2>1. /\ committing /\ \A b \in Block : ~Pending(b)
        /\ \A q \in Proc : q # p => pc[q] \notin Committer
    BY DEF Counting, Committer, Active, InCall, Pending
  <2>2. Types'
    BY <1>1 DEF Types, PC
  <2>3. Active' = Active /\ Used' = Used
    BY DEF Active, Used, InCall, Types, PC
  <2>4. Counting'
    BY <2>1, <2>3 DEF Counting, Committer, Types, PC
  <2>5. Space'
    BY <1>1, <2>3 DEF Space, Types, PC
  <2>6. Booting'
    BY DEF Booting, Types
  <2>7. Durability'
    BY <1>1, <2>1 DEF Durability, Types, PC, Pending, Committer
  <2>8. NoLostWakeup'
    BY DEF NoLostWakeup, Types, PC
  <2> QED
    BY <2>2, <2>4, <2>5, <2>6, <2>7, <2>8
<1>16. ASSUME Crash PROVE IInv'
  <2> USE <1>16 DEF Crash
  <2>1. Types'
    <3>1. lh' \in Seq(Block) /\ tail' \in 1..LOGSIZE + 1
      BY <1>1, EmptySeq
    <3> QED
      BY <3>1 DEF Types, PC
  <2>2. Active' = {} /\ Used' = {}
    BY DEF Active, Used, InCall
  <2>3. Counting'
    BY <2>2, FS_EmptySet DEF Counting, Committer
  <2>4. Space'
    BY <1>1, <2>2, FS_EmptySet, EmptySeq DEF Space, IsInjective
  <2>5. Booting'
    BY DEF Booting
  <2>6. Durability'
    BY DEF Durability
  <2>7. NoLostWakeup'
    BY DEF NoLostWakeup
  <2> QED
    BY <2>1, <2>3, <2>4, <2>5, <2>6, <2>7
<1>17. ASSUME ReadHead PROVE IInv'
  <2> USE <1>17 DEF ReadHead
  <2>1. boot # "up" /\ Active = {} /\ outstanding = 0
    BY DEF Booting, Active, InCall
  <2>2. Types'
    BY <1>1 DEF Types, PC, Space
  <2>3. Active' = {} /\ Used' = {}
    BY <2>1 DEF Active, Used, InCall
  <2>4. Counting'
    BY <2>1, <2>3, FS_EmptySet DEF Counting, Committer, Booting
  <2>5. Space'
    BY <1>1, <2>1, <2>3, FS_EmptySet, EmptySeq DEF Space, Types, IsInjective, Booting
  <2>6. Booting'
    BY DEF Booting, Types
  <2>7. Durability'
    BY DEF Durability, Booting, Types, AllInstalled
  <2>8. NoLostWakeup'
    BY DEF NoLostWakeup, Booting
  <2> QED
    BY <2>2, <2>4, <2>5, <2>6, <2>7, <2>8
<1>18. ASSUME RecoverInstall PROVE IInv'
  <2> USE <1>18 DEF RecoverInstall
  <2>1. boot # "up" /\ Active = {} /\ outstanding = 0
    BY DEF Booting, Active, InCall
  <2>2. Types'
    BY <1>1 DEF Types, PC, Space, InstallTrans
  <2>3. Active' = {} /\ Used' = {}
    BY <2>1 DEF Active, Used, InCall, InstallTrans
  <2>4. Counting'
    BY <2>1, <2>3, FS_EmptySet DEF Counting, Committer, Booting, InstallTrans
  <2>5. Space'
    BY <1>1, <2>1, <2>3, FS_EmptySet, EmptySeq DEF Space, Types, IsInjective, Booting, InstallTrans
  <2>6. Booting'
    <3>1. /\ lh = dhead /\ \A i \in 1..Len(lh) : i < tail => home[lh[i]] = dlog[i]
          /\ lh' = lh /\ dhead' = dhead /\ dlog' = dlog /\ boot' = boot
          /\ tail \in 1..Len(lh) /\ tail' = tail + 1 /\ DOMAIN lh = 1..Len(lh)
      BY <1>1 DEF Booting, InstallTrans, Types
    <3>2. ASSUME NEW i \in 1..Len(lh), i < tail + 1 PROVE home'[lh[i]] = dlog[i]
      <4>1. lh[i] \in Block /\ lh[tail] \in Block
        BY <3>1 DEF Types
      <4>2. CASE i = tail
        BY <4>1, <4>2 DEF InstallTrans, Types
      <4>3. CASE i # tail
        <5>1. i < tail /\ lh[i] # lh[tail]
          BY <1>1, <3>1, <3>2, <4>3 DEF Space, IsInjective
        <5> QED
          BY <3>1, <4>1, <5>1 DEF InstallTrans, Types
      <4> QED
        BY <4>2, <4>3
    <3>3. pc' = pc /\ outstanding' = outstanding /\ committing' = committing
      BY DEF InstallTrans
    <3> QED
      BY <3>1, <3>2, <3>3 DEF Booting
  <2>7. Durability'
    BY DEF Durability, Booting, Types, AllInstalled, InstallTrans
  <2>8. NoLostWakeup'
    BY DEF NoLostWakeup, Booting, InstallTrans
  <2> QED
    BY <2>2, <2>4, <2>5, <2>6, <2>7, <2>8
<1>19. ASSUME ClearLog PROVE IInv'
  <2> USE <1>19 DEF ClearLog
  <2>1. boot # "up" /\ Active = {} /\ outstanding = 0
    BY DEF Booting, Active, InCall
  <2>2. Types'
    BY <1>1 DEF Types, PC, Space, AllInstalled
  <2>3. Active' = {} /\ Used' = {}
    BY <2>1 DEF Active, Used, InCall, AllInstalled
  <2>4. Counting'
    BY <2>1, <2>3, FS_EmptySet DEF Counting, Committer, Booting, AllInstalled
  <2>5. Space'
    BY <1>1, <2>1, <2>3, FS_EmptySet, EmptySeq DEF Space, Types, IsInjective, Booting, AllInstalled
  <2>6. Booting'
    BY DEF Booting, Types, AllInstalled
  <2>7. Durability'
    BY DEF Durability, Booting, Types, AllInstalled
  <2>8. NoLostWakeup'
    BY DEF NoLostWakeup, Booting, AllInstalled
  <2> QED
    BY <2>2, <2>4, <2>5, <2>6, <2>7, <2>8
<1> QED
  BY <1>4, <1>5, <1>6, <1>7, <1>8, <1>9, <1>10, <1>11, <1>12, <1>13, <1>14, <1>15,
     <1>16, <1>17, <1>18, <1>19 DEF Next, Commits, Recover

\* The invariant of log.c, with crashes between any two writes of the disk.
THEOREM Invariant == Spec => []IInv
<1> QED
  BY InitIInv, NextIInv, PTL DEF Spec

-----------------------------------------------------------------------------
\* "max # of blocks any FS op writes" is not enough for a call never to panic
\* in log_write: with two blocks to spare of what begin_op reserves, a call
\* finds room for the block and for the header, which log.size counts.
Roomy ==
  /\ OpBlocks + 2 <= MAXOPBLOCKS
  /\ LOGSIZE <= nlog /\ nlog >= 1

Roomed ==
  /\ \A p \in Proc : pc[p] # "panic"
  /\ Len(lh) <= nlog - 1 /\ Len(dhead) <= nlog - 1

\* Then a call under way, which begin_op has counted, finds two places left.
LEMMA Spare ==
  ASSUME Roomy, Types, Counting, Space, NEW p \in Active
  PROVE  outstanding >= 1 /\ Len(lh) + 2 <= LOGSIZE /\ Len(lh) + 2 <= nlog
<1>1. /\ Len(lh) \in Nat /\ LOGSIZE \in Nat /\ MAXOPBLOCKS \in Nat /\ OpBlocks \in Nat
      /\ nlog \in Nat /\ outstanding \in Nat
  BY LogAssumption, CallsAreFinite, LenProperties DEF LogAssumption, Types, Counting
<1>2. outstanding >= 1
  <2>1. Active # {}
    OBVIOUS
  <2>2. Cardinality(Active) # 0
    BY <2>1, CallsAreFinite, FS_EmptySet
  <2> QED
    BY <1>1, <2>2 DEF Counting
<1>3. (OpBlocks + 2) * outstanding <= MAXOPBLOCKS * outstanding
  BY <1>1, Grows DEF Roomy
<1>4. /\ outstanding * MAXOPBLOCKS \in Nat /\ outstanding * OpBlocks \in Nat
      /\ outstanding * OpBlocks + 2 <= outstanding * MAXOPBLOCKS
  BY <1>1, <1>2, <1>3
<1>5. Len(lh) + outstanding * MAXOPBLOCKS <= LOGSIZE + outstanding * OpBlocks
  BY RoomIsLeft
<1> QED
  BY <1>1, <1>2, <1>4, <1>5 DEF Roomy

\* So no step of log_write or end_op panics.
LEMMA NextRoomed ==
  ASSUME Roomy, IInv, Roomed, [Next]_vars
  PROVE  Roomed'
<1> USE DEF At, Goto, disk, logvars
<1>1. Len(lh) \in Nat /\ Len(lh) <= nlog - 1 /\ nlog \in Nat /\ nlog - 1 >= 0 /\ Len(<<>>) = 0
  BY LogAssumption, LenProperties, EmptySeq DEF LogAssumption, IInv, Types, Roomed, Roomy
<1>2. \A p \in Proc : pc[p] \in {"op", "log_write"} =>
        p \in Active /\ outstanding >= 1 /\ Len(lh) + 2 <= LOGSIZE /\ Len(lh) + 2 <= nlog
  BY Spare DEF Active, InCall, IInv
<1>3. ASSUME NEW p \in Proc, NEW b \in Block, NEW v \in Value, Modify(p, b, v) PROVE Roomed'
  <2>1. ~Full /\ ~(outstanding < 1)
    <3>1. LOGSIZE \in Nat /\ outstanding \in Nat
      BY LogAssumption, CallsAreFinite DEF LogAssumption, IInv, Counting
    <3> QED
      BY <1>1, <1>2, <1>3, <3>1 DEF Modify, Full
  <2> QED
    BY <1>3, <2>1 DEF Modify, Roomed, IInv, Types
<1>4. ASSUME NEW p \in Proc, LogWrite(p) PROVE Roomed'
  <2>1. buf[p] \in Block
    BY <1>4 DEF LogWrite, IInv, Types, Space
  <2>2. Len(lh') = Len(lh) \/ Len(lh') = Len(lh) + 1
    BY <1>4, <2>1, AppendProperties DEF LogWrite, Recorded, IInv, Types
  <2>3. Len(lh') <= nlog - 1
    BY <1>1, <1>2, <1>4, <2>2 DEF LogWrite
  <2> QED
    BY <1>4, <2>3 DEF LogWrite, Roomed, IInv, Types
<1>5. ASSUME NEW p \in Proc, EndOp(p) PROVE Roomed'
  <2>1. ~committing
    BY <1>2, <1>5 DEF EndOp, IInv, Counting
  <2> QED
    BY <1>5, <2>1 DEF EndOp, WakeupLog, Roomed, IInv, Types
<1>6. ASSUME NEW p \in Proc, BeginOp(p) \/ BeginOpSleeps(p) \/ Commits(p) PROVE Roomed'
  BY <1>1, <1>6 DEF BeginOp, BeginOpSleeps, Commits, WriteLog, LogWritten, AfterWriteLog,
     WriteHead, Install, InstallTrans, Erase, CommitDone, WakeupLog, Roomed, IInv, Types
<1>7. ASSUME Recover \/ Crash \/ UNCHANGED vars PROVE Roomed'
  BY <1>1, <1>7 DEF Recover, ReadHead, RecoverInstall, InstallTrans, ClearLog, Crash, vars, Roomed
<1> QED
  BY <1>3, <1>4, <1>5, <1>6, <1>7 DEF Next

\* The two invariants give the type invariant.
LEMMA RoomedTypes == IInv /\ Roomed => TypeOK
<1> SUFFICES ASSUME IInv, Roomed PROVE TypeOK
  OBVIOUS
<1>1. mem \in [Block -> Value \cup {Lost}]
  BY DEF IInv, Types
<1>2. Len(lh) <= LOGSIZE
  BY LogFits DEF IInv
<1>3. outstanding = Cardinality({p \in Proc : InCall(p)})
  BY DEF IInv, Counting, Active
<1> QED
  BY <1>1, <1>2, <1>3 DEF IInv, Types, Space, Roomed, PC, TypeOK

\* Nothing but what the type invariant allows is ever reached, so no call
\* panics, when each keeps to two blocks less than begin_op reserves for it.
THEOREM TypeCorrect ==
  ASSUME Roomy
  PROVE  Spec => []TypeOK
<1>1. Init => Roomed
  BY EmptySeq, LogAssumption DEF Roomy, Init, Roomed, LogAssumption
<1>2. IInv /\ Roomed /\ [Next]_vars => Roomed'
  BY NextRoomed
<1> QED
  BY <1>1, <1>2, RoomedTypes, Invariant, PTL DEF Spec

\* A process sleeps in begin_op only while a commit is under way or the log
\* has no room for one more call.
THEOREM WakeupsAreNotLost == Spec => []NoLostWakeup
<1>1. IInv => NoLostWakeup
  BY DEF IInv
<1> QED
  BY <1>1, Invariant, PTL

-----------------------------------------------------------------------------
\* What a reboot finds on a disk with the header s.
Disk(h, d, s) ==
  [b \in Block |->
    IF b \in Blocks(s) THEN d[CHOOSE i \in DOMAIN s : s[i] = b] ELSE h[b]]

\* recover_from_log takes the blocks that the header names from the log.
LEMMA DiskIs ==
  ASSUME NEW h, NEW d, NEW s \in Seq(Block), IsInjective(s)
  PROVE  /\ \A i \in 1..Len(s) : s[i] \in Block /\ Disk(h, d, s)[s[i]] = d[i]
         /\ \A b \in Block : b \notin Blocks(s) => Disk(h, d, s)[b] = h[b]
         /\ \A b \in Block : b \in Blocks(s) => \E i \in 1..Len(s) : s[i] = b
<1>1. DOMAIN s = 1..Len(s) /\ \A i \in 1..Len(s) : s[i] \in Block
  BY LenProperties
<1>2. ASSUME NEW i \in 1..Len(s) PROVE Disk(h, d, s)[s[i]] = d[i]
  <2>1. s[i] \in Blocks(s)
    BY <1>1 DEF Blocks
  <2>2. i = CHOOSE j \in DOMAIN s : s[j] = s[i]
    BY <1>1 DEF IsInjective
  <2> QED
    BY <1>1, <2>1, <2>2 DEF Disk
<1>3. \A b \in Block : b \notin Blocks(s) => Disk(h, d, s)[b] = h[b]
  BY DEF Disk
<1>4. \A b \in Block : b \in Blocks(s) => \E i \in 1..Len(s) : s[i] = b
  BY <1>1 DEF Blocks
<1> QED
  BY <1>1, <1>2, <1>3, <1>4

\* Two disks on which a reboot finds the same.
LEMMA SameDisk ==
  ASSUME NEW h, NEW d, NEW s, NEW f \in [Block -> Value],
         \A b \in Block : Disk(h, d, s)[b] = f[b]
  PROVE  Disk(h, d, s) = f
<1>1. Disk(h, d, s) = [b \in Block |-> Disk(h, d, s)[b]]
  BY DEF Disk
<1>2. f = [b \in Block |-> f[b]]
  OBVIOUS
<1> QED
  BY <1>1, <1>2

\* It finds the blocks at home when the log is empty, or installed;
LEMMA DiskAtHome ==
  ASSUME NEW h \in [Block -> Value], NEW d, NEW s \in Seq(Block), IsInjective(s),
         \A i \in 1..Len(s) : h[s[i]] = d[i]
  PROVE  Disk(h, d, s) = h
<1>1. ASSUME NEW b \in Block PROVE Disk(h, d, s)[b] = h[b]
  <2>1. CASE b \in Blocks(s)
    <3>1. PICK i \in 1..Len(s) : s[i] = b
      BY <2>1, DiskIs
    <3> QED
      BY <3>1, DiskIs
  <2>2. CASE b \notin Blocks(s)
    BY <2>2, DiskIs
  <2> QED
    BY <2>1, <2>2
<1> QED
  BY <1>1, SameDisk

\* (an empty header names none)
LEMMA EmptyLog ==
  ASSUME NEW h \in [Block -> Value], NEW d
  PROVE  Disk(h, d, <<>>) = h
<1>1. PICK s \in Seq(Block) : s = <<>>
  BY EmptySeq
<1>2. Len(s) = 0 /\ IsInjective(s)
  BY <1>1, EmptySeq DEF IsInjective
<1>3. \A i \in 1..Len(s) : h[s[i]] = d[i]
  BY <1>2
<1>4. Disk(h, d, s) = h
  BY <1>2, <1>3, DiskAtHome
<1> QED
  BY <1>1, <1>4

\* what memory has, when the blocks of the log are copies of it and the others
\* are at home;
LEMMA DiskCommits ==
  ASSUME NEW h, NEW d, NEW s \in Seq(Block), IsInjective(s), NEW m \in [Block -> Value],
         \A i \in 1..Len(s) : d[i] = m[s[i]],
         \A b \in Block : b \in Blocks(s) \/ h[b] = m[b]
  PROVE  Disk(h, d, s) = m
<1>1. ASSUME NEW b \in Block PROVE Disk(h, d, s)[b] = m[b]
  <2>1. CASE b \in Blocks(s)
    <3>1. PICK i \in 1..Len(s) : s[i] = b
      BY <2>1, DiskIs
    <3> QED
      BY <3>1, DiskIs
  <2>2. CASE b \notin Blocks(s)
    BY <2>2, DiskIs
  <2> QED
    BY <2>1, <2>2
<1> QED
  BY <1>1, SameDisk

\* and the same whatever of the log has been installed.
LEMMA DiskInstalls ==
  ASSUME NEW h \in [Block -> Value], NEW d, NEW s \in Seq(Block), NEW i \in 1..Len(s)
  PROVE  Disk([h EXCEPT ![s[i]] = d[i]], d, s) = Disk(h, d, s)
<1>1. s[i] \in Blocks(s)
  BY LenProperties DEF Blocks
<1> QED
  BY <1>1 DEF Disk

-----------------------------------------------------------------------------
Shown == IF boot = "up" THEN mem ELSE Durable

\* Durable is what a reboot finds on the disk, before a step and after it.
LEMMA DurableIs == Durable = Disk(home, dlog, dhead) /\ Durable' = Disk(home', dlog', dhead')
BY DEF Durable, Disk

\* What mkfs leaves is the first state of the transactions.
LEMMA InitImplements == Init => Abstract!Init
<1> SUFFICES ASSUME Init PROVE Abstract!Init
  OBVIOUS
<1>1. Durable = home
  BY InitIInv, DurableIs, EmptyLog DEF Init, IInv, Types
<1>2. Active = {}
  BY DEF Init, Active, InCall
<1> QED
  BY <1>1, <1>2 DEF Init, Active, Abstract!Init

\* begin_op, the modification of a block and end_op are what they are for
\* transactions, the write of the header is the commit, and a crash is a
\* crash; no other step shows.
LEMMA NextImplements ==
  ASSUME IInv, [Next]_vars
  PROVE  [Abstract!Next]_<<Durable, Shown, Active>>
<1> DEFINE stutter == UNCHANGED <<Durable, Shown, Active>>
<1> USE DEF IInv, At, Goto, disk, logvars
<1>1. /\ lh \in Seq(Block) /\ DOMAIN lh = 1..Len(lh) /\ Len(lh) \in Nat /\ IsInjective(lh)
      /\ dhead \in Seq(Block) /\ IsInjective(dhead)
      /\ home \in [Block -> Value] /\ dlog \in [1..LOGSIZE -> Value]
  BY LenProperties DEF Types, Space
<1>2. ASSUME UNCHANGED disk PROVE Durable' = Durable
  BY <1>2, DurableIs
<1>3. ASSUME NEW p \in Proc, BeginOp(p) PROVE Abstract!Begin(p)
  <2>1. Active' = Active \cup {p} /\ p \notin Active
    BY <1>3 DEF BeginOp, Active, InCall, Types
  <2> QED
    BY <1>2, <1>3, <2>1 DEF BeginOp, Active, Shown, Abstract!Begin
<1>4. ASSUME NEW p \in Proc, NEW b \in Block, NEW v \in Value, Modify(p, b, v)
      PROVE  Abstract!Write(p, b, v)
  <2>1. Active' = Active /\ p \in Active
    BY <1>4 DEF Modify, Active, InCall, Types
  <2> QED
    BY <1>2, <1>4, <2>1 DEF Modify, Active, Shown, Abstract!Write
<1>5. ASSUME NEW p \in Proc, EndOp(p) PROVE Abstract!End(p)
  <2>1. p \in Active /\ ~committing
    BY <1>5 DEF EndOp, Active, InCall, Counting
  <2>2. Active' = Active \ {p}
    BY <1>5, <2>1 DEF EndOp, WakeupLog, Active, InCall, Types
  <2> QED
    BY <1>2, <1>5, <2>1, <2>2 DEF EndOp, Active, Shown, Abstract!End
<1>6. ASSUME NEW p \in Proc, WriteHead(p) PROVE Abstract!Commit
  <2>1. Active = {} /\ Active' = Active /\ \A b \in Block : ~Pending(b)
    BY <1>6 DEF WriteHead, Counting, Committer, Pending, Active, InCall, Types
  <2>2. /\ boot = "up" /\ AllCopied /\ mem \in [Block -> Value]
        /\ \A b \in Block : b \in Blocks(lh) \/ home[b] = mem[b]
    BY <1>6, <2>1 DEF WriteHead, Durability, Types
  <2>3. Disk(home, dlog, lh) = mem
    <3>1. \A i \in 1..Len(lh) : dlog[i] = mem[lh[i]]
      BY <2>2 DEF AllCopied
    <3>2. mem \in [Block -> Value] /\ \A b \in Block : b \in Blocks(lh) \/ home[b] = mem[b]
      BY <2>2
    <3>3. lh \in Seq(Block) /\ IsInjective(lh)
      BY <1>1
    <3> HIDE DEF IInv
    <3> QED
      BY <3>1, <3>2, <3>3, DiskCommits
  <2>4. Durable' = mem
    BY <1>6, <2>3, DurableIs DEF WriteHead
  <2> QED
    BY <1>6, <2>1, <2>2, <2>4 DEF WriteHead, Active, Shown, Abstract!Commit
<1>7. ASSUME Crash PROVE Abstract!Crash
  <2>1. Active' = {}
    BY <1>7 DEF Crash, Active, InCall
  <2> QED
    BY <1>2, <1>7, <2>1 DEF Crash, Active, Shown, Abstract!Crash
<1>8. ASSUME NEW p \in Proc,
             BeginOpSleeps(p) \/ LogWrite(p) \/ LogWritten(p) \/ CommitDone(p)
      PROVE  stutter
  <2>1. UNCHANGED <<disk, mem, boot>>
    BY <1>8 DEF BeginOpSleeps, LogWrite, LogWritten, CommitDone
  <2>2. Active' = Active
    BY <1>8 DEF BeginOpSleeps, LogWrite, LogWritten, AfterWriteLog, CommitDone, WakeupLog,
       Active, InCall, Types
  <2> QED
    BY <1>2, <2>1, <2>2 DEF Shown
<1>9. ASSUME NEW p \in Proc, WriteLog(p) PROVE stutter
  <2>1. dhead = <<>>
    BY <1>9 DEF WriteLog, Counting, Committer, Durability
  <2>2. Durable' = home /\ Durable = home
    BY <1>1, <1>9, <2>1, DurableIs, EmptyLog DEF WriteLog
  <2> QED
    BY <1>9, <2>2 DEF WriteLog, Shown, Active, InCall
<1>10. ASSUME InstallTrans, dhead = lh PROVE Durable' = Durable
  <2>1. tail \in 1..Len(lh)
    BY <1>1, <1>10 DEF InstallTrans, Types
  <2>2. Disk([home EXCEPT ![lh[tail]] = dlog[tail]], dlog, lh) = Disk(home, dlog, lh)
    BY <1>1, <2>1, DiskInstalls
  <2>3. home' = [home EXCEPT ![lh[tail]] = dlog[tail]] /\ dlog' = dlog /\ dhead' = lh
    BY <1>10 DEF InstallTrans
  <2> QED
    BY <1>10, <2>2, <2>3, DurableIs
<1>11. ASSUME NEW p \in Proc, Install(p) PROVE stutter
  <2>1. dhead = lh /\ AllCopied
    BY <1>11 DEF Install, Durability
  <2>2. mem' = mem
    <3>1. tail \in 1..Len(lh) /\ lh[tail] \in Block /\ dlog[tail] = mem[lh[tail]]
      BY <1>1, <1>11, <2>1 DEF Install, InstallTrans, AllCopied, Types
    <3> QED
      BY <1>11, <3>1 DEF Install, Types
  <2> QED
    BY <1>10, <1>11, <2>1, <2>2 DEF Install, Shown, Active, InCall
<1>12. ASSUME AllInstalled, dhead = lh, \A i \in 1..Len(lh) : i < tail => home[lh[i]] = dlog[i]
       PROVE  Durable = home
  <2>1. \A i \in 1..Len(lh) : home[lh[i]] = dlog[i]
    BY <1>1, <1>12 DEF AllInstalled, Types
  <2> QED
    BY <1>1, <1>12, <2>1, DurableIs, DiskAtHome
<1>13. ASSUME NEW p \in Proc, Erase(p) PROVE stutter
  <2>1. Durable = home
    BY <1>12, <1>13 DEF Erase, Durability, Installed
  <2>2. Durable' = home
    BY <1>1, <1>13, DurableIs, EmptyLog DEF Erase
  <2>3. Active' = Active
    BY <1>13 DEF Erase, Active, InCall, Types
  <2> QED
    BY <1>13, <2>1, <2>2, <2>3 DEF Erase, Shown
<1>14. ASSUME ReadHead PROVE stutter
  BY <1>2, <1>14 DEF ReadHead, Shown, Active, InCall
<1>15. ASSUME RecoverInstall PROVE stutter
  <2>1. dhead = lh
    BY <1>15 DEF RecoverInstall, Booting
  <2> QED
    BY <1>10, <1>15, <2>1 DEF RecoverInstall, Shown, Active, InCall
<1>16. ASSUME ClearLog PROVE stutter
  <2>1. Durable = home
    BY <1>12, <1>16 DEF ClearLog, Booting
  <2>2. Durable' = home
    BY <1>1, <1>16, DurableIs, EmptyLog DEF ClearLog
  <2> QED
    BY <1>16, <2>1, <2>2 DEF ClearLog, Shown, Active, InCall
<1>17. CASE UNCHANGED vars
  BY <1>2, <1>17 DEF vars, Shown, Active, InCall
<1> QED
  BY <1>3, <1>4, <1>5, <1>6, <1>7, <1>8, <1>9, <1>11, <1>13, <1>14, <1>15, <1>16, <1>17
     DEF Next, Commits, Recover, Abstract!Next

\* The log implements transactions: file system calls reach the disk in groups
\* of whole calls, whenever the machine crashes.
THEOREM Implementation == Spec => ImplementsTransactions
<1>1. Init => Abstract!Init
  BY InitImplements
<1>2. IInv /\ [Next]_vars => [Abstract!Next]_<<Durable, Shown, Active>>
  BY NextImplements
<1> QED
  BY <1>1, <1>2, Invariant, PTL DEF Spec, ImplementsTransactions, Abstract!Spec, Shown, Active
=============================================================================
