------------------------- MODULE BufferCache_proofs -------------------------
(***************************************************************************)
(* The safety of the buffer cache for any number of buffers, blocks and    *)
(* clients: refcnt keeps a buffer from being recycled under a client, with *)
(* the buffer's sleep lock that gives each block one user at a time, and   *)
(* together with the driver it implements the store of blocks.             *)
(*                                                                         *)
(* StillMine is not inductive: that nobody has the buffer bget recycles is *)
(* known from its refcnt, which must count those who have chosen it.  The  *)
(* refinement needs what B_VALID and B_DIRTY say of a buffer's contents    *)
(* (Flags), and what the disk's command and its queue have to do with the  *)
(* buffers (Queue); when bget can find no buffer needs the number of those *)
(* that stay dirty (Pins) and that a panic there frees none (Full).        *)
(***************************************************************************)
EXTENDS BufferCache, FiniteSetTheorems, TLAPS

PC == {"idle", "acquire", "iderw", "asleep", "woken", "owns", "changed", "released", "panic", "no_buffers"}

\* The clients that have chosen buffer c, with or without its lock.
Users(c) == {p \in Client : mine[p] = c}

\* A block has one buffer at most: bget searches and recycles under
\* bcache.lock.
OneBufferPerBlock == \A c, d \in Buf : bno[c] = bno[d] => c = d \/ bno[c] = None

RefTypes ==
  /\ bno \in [Buf -> Block \cup {None}]
  /\ refcnt \in [Buf -> Nat]
  /\ pc \in [Client -> PC]
  /\ mine \in [Client -> Buf \cup {None}]
  /\ at \in [Client -> Block \cup {None}]
  /\ \A p \in Client : mine[p] = None <=> pc[p] \in {"idle", "no_buffers"}
  /\ \A p \in Client : at[p] = None <=> pc[p] \in {"idle", "no_buffers"}

CountsUsers == \A c \in Buf : refcnt[c] = Cardinality(Users(c))

RefInv == RefTypes /\ CountsUsers /\ StillMine /\ OneBufferPerBlock

\* The places between acquiresleep and releasesleep.
Using(p) == pc[p] \in {"iderw", "asleep", "woken", "owns", "changed"}

LockInv ==
  /\ lock \in [Buf -> Client \cup {None}]
  /\ \A p \in Client : Using(p) => lock[mine[p]] = p

BaseInv == RefInv /\ LockInv

\* Whoever holds a buffer's sleep lock is at a place where the code does.
Holders ==
  \A c \in Buf : lock[c] # None => Using(lock[c]) /\ mine[lock[c]] = c

\* The buffer of client p is with the driver.
WithDriver(p) == pc[p] \in {"asleep", "woken"}

\* B_VALID and B_DIRTY tell the truth: a clean buffer has what the disk has,
\* unless a client is about to write or log a change.  Nobody asks the driver
\* for what is done already.
Flags ==
  /\ valid \in [Buf -> BOOLEAN] /\ dirty \in [Buf -> BOOLEAN]
  /\ data \in [Buf -> Value \cup {None}]
  /\ disk \in [Block -> Value]
  /\ \A c \in Buf : dirty[c] => valid[c]
  /\ \A c \in Buf : valid[c] => data[c] \in Value /\ bno[c] # None
  /\ \A c \in Buf : valid[c] /\ ~dirty[c] =>
       data[c] = disk[bno[c]] \/ \E p \in Client : mine[p] = c /\ pc[p] = "changed"
  /\ \A p \in Client : pc[p] \in {"owns", "changed"} => valid[mine[p]]
  /\ \A p \in Client : pc[p] # "panic" /\ (pc[p] = "iderw" => ~InSync(mine[p]))

\* The driver has something to do for buffer c, and its holder waits for that.
Waits(c) == ~InSync(c) /\ lock[c] # None /\ WithDriver(lock[c])

\* The queue holds buffers of clients that iderw has put to sleep, each once,
\* and the disk has the command for the first of them.
Queue ==
  /\ idequeue \in Seq(Buf)
  /\ \A i, j \in 1..Len(idequeue) : idequeue[i] = idequeue[j] => i = j
  /\ \A i \in 1..Len(idequeue) : Waits(idequeue[i])
  /\ req \in Request \cup {None}
  /\ req = None <=> idequeue = <<>>
  /\ req # None =>
       /\ req.block = bno[idequeue[1]] /\ req.write = dirty[idequeue[1]]
       /\ req.write => req.data = data[idequeue[1]]
       /\ req.done => req.data = disk[req.block]

Recency == list \in [1..Cardinality(Buf) -> Buf] /\ ToSet(list) = Buf

Pins == Cardinality(Pinned) <= MaxDirty

\* A panic in bget keeps bcache.lock: no buffer is given back any more.
Full == ~BcacheFree => \A c \in Buf : refcnt[c] # 0 \/ dirty[c]

IInv == BaseInv /\ Holders /\ Flags /\ Queue /\ Recency /\ Pins /\ Full

-----------------------------------------------------------------------------
\* What the boot leaves satisfies the invariant: nobody has a buffer.
LEMMA InitBase == Init => BaseInv
<1> SUFFICES ASSUME Init PROVE BaseInv
  OBVIOUS
<1> USE BufferCacheAssumption DEF BufferCacheAssumption
<1>1. RefTypes
  BY DEF Init, RefTypes, PC
<1>2. CountsUsers
  <2>1. ASSUME NEW c \in Buf PROVE Users(c) = {}
    BY DEF Init, Users
  <2> QED
    BY <2>1, FS_EmptySet DEF Init, CountsUsers
<1>3. StillMine /\ OneBufferPerBlock /\ LockInv
  BY DEF Init, StillMine, OneBufferPerBlock, LockInv, Using
<1> QED
  BY <1>1, <1>2, <1>3 DEF BaseInv, RefInv

\* A crash leaves the memory as the boot finds it.
LEMMA CrashBase == Crash => BaseInv'
<1> SUFFICES ASSUME Crash PROVE BaseInv'
  OBVIOUS
<1> USE BufferCacheAssumption DEF BufferCacheAssumption
<1>1. RefTypes'
  BY DEF Crash, RefTypes, PC
<1>2. CountsUsers'
  <2>1. ASSUME NEW c \in Buf PROVE Users(c)' = {}
    BY DEF Crash, Users
  <2> QED
    BY <2>1, FS_EmptySet DEF Crash, CountsUsers
<1>3. StillMine' /\ OneBufferPerBlock' /\ LockInv'
  BY DEF Crash, StillMine, OneBufferPerBlock, LockInv, Using
<1> QED
  BY <1>1, <1>2, <1>3 DEF BaseInv, RefInv

-----------------------------------------------------------------------------
\* What every step but bget's and brelse's leaves alone: who has chosen what.
Quiet ==
  /\ UNCHANGED <<bno, refcnt, mine, at>>
  /\ pc' \in [Client -> PC]
  /\ \A p \in Client : pc'[p] \in {"idle", "no_buffers"} <=> pc[p] \in {"idle", "no_buffers"}

\* Such a step keeps refcnt right and the clients' buffers theirs.
LEMMA QuietRefInv == RefInv /\ Quiet => RefInv'
<1> SUFFICES ASSUME RefInv, Quiet PROVE RefInv'
  OBVIOUS
<1>1. RefTypes'
  BY DEF RefInv, RefTypes, Quiet
<1>2. \A c \in Buf : Users(c)' = Users(c)
  BY DEF Quiet, Users
<1>3. CountsUsers'
  BY <1>2 DEF RefInv, CountsUsers, Quiet
<1>4. StillMine' /\ OneBufferPerBlock'
  BY DEF RefInv, StillMine, OneBufferPerBlock, Quiet
<1> QED
  BY <1>1, <1>3, <1>4 DEF RefInv

\* The sets of users are finite, as refcnt counts them.
LEMMA UsersFinite == ASSUME NEW c PROVE IsFiniteSet(Users(c))
BY FS_Subset, BufferCacheAssumption DEF Users, BufferCacheAssumption

\* A client that chooses buffer c becomes one of its users, and of no other's.
LEMMA ChosenUsers ==
  ASSUME RefTypes, NEW p \in Client, NEW c \in Buf, NEW b \in Block,
         pc[p] = "idle", Chosen(p, c, b)
  PROVE  /\ \A d \in Buf : Users(d)' = IF d = c THEN Users(c) \cup {p} ELSE Users(d)
         /\ Cardinality(Users(c)') = Cardinality(Users(c)) + 1
<1> USE BufferCacheAssumption DEF BufferCacheAssumption
<1>1. mine[p] = None /\ mine' = [mine EXCEPT ![p] = c] /\ mine \in [Client -> Buf \cup {None}]
  BY DEF RefTypes, Chosen
<1>2. \A d \in Buf : Users(d)' = IF d = c THEN Users(c) \cup {p} ELSE Users(d)
  BY <1>1 DEF Users
<1>3. p \notin Users(c)
  BY <1>1 DEF Users
<1> QED
  BY <1>2, <1>3, UsersFinite, FS_AddElement

\* bget finds the block cached.
LEMMA HitRefInv ==
  ASSUME RefInv, NEW p \in Client, NEW b \in Block, Hit(p, b)
  PROVE  RefInv'
<1> USE BufferCacheAssumption DEF BufferCacheAssumption, RefInv
<1>1. PICK c \in Buf :
        /\ bno[c] = b
        /\ refcnt' = [refcnt EXCEPT ![c] = @ + 1]
        /\ Chosen(p, c, b)
  BY DEF Hit, Caches
<1>2. pc[p] = "idle" /\ bno' = bno
  BY DEF Hit
<1>3. RefTypes'
  BY <1>1, <1>2 DEF RefTypes, Chosen, Goto, PC
<1>4. CountsUsers'
  BY <1>1, <1>2, ChosenUsers DEF CountsUsers, RefTypes
<1>5. StillMine'
  BY <1>1, <1>2 DEF RefTypes, StillMine, Chosen, Goto
<1>6. OneBufferPerBlock'
  BY <1>2 DEF OneBufferPerBlock
<1> QED
  BY <1>3, <1>4, <1>5, <1>6

\* bget recycles a buffer: its refcnt is 0, so it is nobody's.
LEMMA RecycleRefInv ==
  ASSUME RefInv, NEW p \in Client, NEW b \in Block, Recycle(p, b)
  PROVE  RefInv'
<1> USE BufferCacheAssumption DEF BufferCacheAssumption, RefInv
<1>1. PICK c \in Buf :
        /\ refcnt[c] = 0
        /\ bno' = [bno EXCEPT ![c] = b]
        /\ refcnt' = [refcnt EXCEPT ![c] = 1]
        /\ Chosen(p, c, b)
  BY DEF Recycle, Unused
<1>2. pc[p] = "idle" /\ \A d \in Buf : bno[d] # b
  BY DEF Recycle, Caches
<1>3. Users(c) = {}
  BY <1>1, UsersFinite, FS_EmptySet DEF CountsUsers
<1>4. RefTypes'
  BY <1>1, <1>2 DEF RefTypes, Chosen, Goto, PC
<1>5. CountsUsers'
  <2>1. /\ \A d \in Buf : Users(d)' = IF d = c THEN Users(c) \cup {p} ELSE Users(d)
        /\ Cardinality(Users(c)') = Cardinality(Users(c)) + 1
    BY <1>1, <1>2, ChosenUsers
  <2>2. Cardinality(Users(c)) = 0
    BY <1>3, FS_EmptySet
  <2> QED
    BY <1>1, <2>1, <2>2 DEF CountsUsers, RefTypes
<1>6. StillMine'
  <2> SUFFICES ASSUME NEW q \in Client, pc'[q] \notin {"idle", "no_buffers"} PROVE bno'[mine'[q]] = at'[q]
    BY DEF StillMine
  <2>1. CASE q = p
    BY <1>1, <2>1 DEF RefTypes, Chosen
  <2>2. CASE q # p
    <3>1. pc[q] \notin {"idle", "no_buffers"} /\ mine'[q] = mine[q] /\ at'[q] = at[q] /\ mine[q] \in Buf
      BY <1>1, <2>2 DEF RefTypes, Chosen, Goto
    <3>2. mine[q] # c
      BY <1>3 DEF Users
    <3> QED
      BY <1>1, <3>1, <3>2 DEF StillMine, RefTypes
  <2> QED
    BY <2>1, <2>2
<1>7. OneBufferPerBlock'
  BY <1>1, <1>2 DEF OneBufferPerBlock, RefTypes
<1> QED
  BY <1>4, <1>5, <1>6, <1>7

\* brelse gives back the reference it has.
LEMMA BrelseRefInv ==
  ASSUME RefInv, NEW p \in Client, Brelse(p)
  PROVE  RefInv'
<1> USE BufferCacheAssumption DEF BufferCacheAssumption, RefInv
<1>0. mine[p] \in Buf /\ pc[p] = "released"
  BY DEF Brelse, RefTypes
<1>1. PICK c \in Buf : c = mine[p]
  BY <1>0
<1>2. \A d \in Buf : Users(d)' = IF d = c THEN Users(c) \ {p} ELSE Users(d)
  BY <1>1 DEF Brelse, RefTypes, Users
<1>3. p \in Users(c)
  BY <1>1 DEF Users
<1>4. Cardinality(Users(c)') = Cardinality(Users(c)) - 1
  <2>1. IsFiniteSet(Users(c)) /\ Users(c)' = Users(c) \ {p}
    BY <1>2, UsersFinite
  <2> QED
    BY <1>3, <2>1, FS_RemoveElement
<1>5. Cardinality(Users(c)') \in Nat
  <2>1. IsFiniteSet(Users(c)) /\ Users(c)' = Users(c) \ {p}
    BY <1>2, UsersFinite
  <2>2. IsFiniteSet(Users(c)')
    BY <2>1, FS_RemoveElement
  <2> QED
    BY <2>2, FS_CardinalityType
<1>6. refcnt' = [refcnt EXCEPT ![c] = @ - 1]
  BY <1>1 DEF Brelse, DropsReference
<1>7. RefTypes'
  <2>1. refcnt[c] - 1 \in Nat
    BY <1>1, <1>4, <1>5 DEF CountsUsers
  <2>2. refcnt' \in [Buf -> Nat]
    BY <1>1, <1>6, <2>1 DEF RefTypes
  <2> QED
    BY <1>0, <2>2 DEF RefTypes, Brelse, Goto, PC
<1>8. CountsUsers'
  BY <1>1, <1>2, <1>4, <1>6 DEF CountsUsers, RefTypes
<1>9. StillMine' /\ OneBufferPerBlock'
  BY <1>0 DEF StillMine, OneBufferPerBlock, Brelse, Goto, RefTypes
<1> QED
  BY <1>7, <1>8, <1>9

-----------------------------------------------------------------------------
\* Every step of the clients, the disk and its interrupt keeps the invariant.
LEMMA NextBase == BaseInv /\ [Next]_vars => BaseInv'
<1> SUFFICES ASSUME BaseInv, [Next]_vars PROVE BaseInv'
  OBVIOUS
<1> USE BufferCacheAssumption DEF BufferCacheAssumption, BaseInv
<1>q. RefTypes
  BY DEF RefInv
<1>1. ASSUME NEW p \in Client, NEW b \in Block, Hit(p, b)
      PROVE  BaseInv'
  <2>1. LockInv'
    BY <1>1, <1>q DEF LockInv, Hit, Chosen, Goto, Using, RefTypes
  <2> QED
    BY <1>1, <2>1, HitRefInv
<1>2. ASSUME NEW p \in Client, NEW b \in Block, Recycle(p, b)
      PROVE  BaseInv'
  <2>1. LockInv'
    BY <1>2, <1>q DEF LockInv, Recycle, Chosen, Goto, Using, RefTypes
  <2> QED
    BY <1>2, <2>1, RecycleRefInv
<1>3. ASSUME NEW p \in Client, AcquireSleep(p)
      PROVE  BaseInv'
  <2>1. Quiet
    BY <1>3, <1>q DEF Quiet, AcquireSleep, Goto, PC, RefTypes, cache
  <2>2. LockInv'
    BY <1>3, <1>q DEF LockInv, AcquireSleep, Goto, Using, RefTypes
  <2> QED
    BY <2>1, <2>2, QuietRefInv
<1>4. ASSUME NEW p \in Client, NEW v \in Value, Modify(p, v)
      PROVE  BaseInv'
  <2>1. Quiet /\ LockInv'
    BY <1>4, <1>q DEF Quiet, LockInv, Using, Modify, Goto, PC, RefTypes, cache
  <2> QED
    BY <2>1, QuietRefInv
<1>5. ASSUME NEW p \in Client, Bwrite(p)
      PROVE  BaseInv'
  <2>1. Quiet /\ LockInv'
    BY <1>5, <1>q DEF Quiet, LockInv, Using, Bwrite, Goto, PC, RefTypes, cache
  <2> QED
    BY <2>1, QuietRefInv
<1>6. ASSUME NEW p \in Client, LogWrite(p)
      PROVE  BaseInv'
  <2>1. Quiet /\ LockInv'
    BY <1>6, <1>q DEF Quiet, LockInv, Using, LogWrite, Goto, PC, RefTypes, cache
  <2> QED
    BY <2>1, QuietRefInv
<1>7. ASSUME NEW p \in Client, ReleaseSleep(p)
      PROVE  BaseInv'
  <2>1. Quiet
    BY <1>7, <1>q DEF Quiet, ReleaseSleep, Goto, PC, RefTypes, cache
  <2>2. LockInv'
    BY <1>7, <1>q DEF LockInv, ReleaseSleep, Goto, Using, RefTypes
  <2> QED
    BY <2>1, <2>2, QuietRefInv
<1>8. ASSUME NEW p \in Client, Brelse(p)
      PROVE  BaseInv'
  <2>1. LockInv'
    BY <1>8, <1>q DEF LockInv, Brelse, Goto, Using, RefTypes
  <2> QED
    BY <1>8, <2>1, BrelseRefInv
<1>9. ASSUME NEW p \in Client, Iderw(p)
      PROVE  BaseInv'
  <2>1. Quiet /\ LockInv'
    BY <1>9, <1>q DEF Quiet, LockInv, Using, Iderw, Goto, PC, RefTypes, cache
  <2> QED
    BY <2>1, QuietRefInv
<1>10. ASSUME NEW p \in Client, Kill(p)
       PROVE  BaseInv'
  <2>1. Quiet /\ LockInv'
    BY <1>10, <1>q DEF Quiet, LockInv, Using, Kill, Goto, PC, RefTypes, cache
  <2> QED
    BY <2>1, QuietRefInv
<1>11. ASSUME NEW p \in Client, Retest(p)
       PROVE  BaseInv'
  <2>1. Quiet /\ LockInv'
    BY <1>11, <1>q DEF Quiet, LockInv, Using, Retest, Goto, PC, RefTypes, cache
  <2> QED
    BY <2>1, QuietRefInv
<1>12. CASE DiskDone
  <2>1. Quiet /\ LockInv'
    BY <1>12, <1>q DEF Quiet, LockInv, Using, DiskDone, RefTypes, cache
  <2> QED
    BY <2>1, QuietRefInv
<1>13. CASE Ideintr
  <2>1. /\ UNCHANGED <<bno, refcnt, mine, at, lock>>
        /\ pc' = [p \in Client |-> IF pc[p] = "asleep" /\ mine[p] = Head(idequeue) THEN "woken" ELSE pc[p]]
    BY <1>13 DEF Ideintr, cache
  <2>2. Quiet /\ LockInv'
    BY <2>1, <1>q DEF Quiet, LockInv, Using, PC, RefTypes
  <2> QED
    BY <2>2, QuietRefInv
<1>14. CASE Crash
  BY <1>14, CrashBase
<1>16. ASSUME NEW p \in Client, NEW b \in Block, NoBuffers(p, b)
       PROVE  BaseInv'
  <2>1. Quiet /\ LockInv'
    BY <1>16, <1>q DEF Quiet, LockInv, Using, NoBuffers, Goto, PC, RefTypes, cache
  <2> QED
    BY <2>1, QuietRefInv
<1>15. CASE UNCHANGED vars
  <2>1. Quiet /\ LockInv'
    BY <1>15, <1>q DEF Quiet, LockInv, Using, RefTypes, vars
  <2> QED
    BY <2>1, QuietRefInv
<1> QED
  BY <1>1, <1>2, <1>3, <1>4, <1>5, <1>6, <1>7, <1>8, <1>9, <1>10, <1>11, <1>12, <1>13, <1>14, <1>15, <1>16
  DEF Next, Uses

-----------------------------------------------------------------------------
\* A step that pins no further buffer keeps their number.
LEMMA PinsShrink ==
  ASSUME Pins, Pinned' \subseteq Pinned
  PROVE  Pins'
<1> USE BufferCacheAssumption DEF BufferCacheAssumption
<1>1. IsFiniteSet(Pinned)
  BY FS_Subset DEF Pinned
<1>2. Cardinality(Pinned') <= Cardinality(Pinned) /\ IsFiniteSet(Pinned')
  BY <1>1, FS_Subset
<1>3. Cardinality(Pinned) \in Nat /\ Cardinality(Pinned') \in Nat
  BY <1>1, <1>2, FS_CardinalityType
<1> QED
  BY <1>2, <1>3 DEF Pins

\* The buffer of a client is a buffer, with the block it has asked for.
LEMMA MineIs ==
  ASSUME BaseInv, NEW p \in Client, pc[p] \notin {"idle", "no_buffers"}
  PROVE  /\ mine[p] \in Buf /\ bno[mine[p]] = at[p] /\ at[p] \in Block
         /\ pc[p] \in PC
BY DEF BaseInv, RefInv, RefTypes, StillMine

\* Moving a buffer to the front of the list loses none.
LEMMA InFrontIs ==
  ASSUME Recency, NEW c \in Buf
  PROVE  InFront(c) \in [1..Cardinality(Buf) -> Buf] /\ ToSet(InFront(c)) = Buf
<1> DEFINE n == Cardinality(Buf)
<1>1. n \in Nat
  BY BufferCacheAssumption, FS_CardinalityType DEF BufferCacheAssumption
<1> HIDE DEF n
<1>2. list \in [1..n -> Buf] /\ DOMAIN list = 1..n /\ \A d \in Buf : \E i \in 1..n : list[i] = d
  BY DEF Recency, ToSet, n
<1>3. PICK k \in 1..n : k = (CHOOSE i \in DOMAIN list : list[i] = c) /\ list[k] = c
  BY <1>2
<1>4. list \in Seq(Buf) /\ Len(list) = n
  BY <1>1, <1>2
<1>5. InFront(c) = <<c>> \o RemoveAt(list, k)
  BY <1>3 DEF InFront
<1> DEFINE rest == SubSeq(list, 1, k - 1) \o SubSeq(list, k + 1, n)
<1>6. /\ rest \in Seq(Buf) /\ Len(rest) = n - 1
      /\ \A i \in 1..n - 1 : rest[i] = IF i < k THEN list[i] ELSE list[i + 1]
  <2>1. SubSeq(list, 1, k - 1) \in Seq(Buf) /\ Len(SubSeq(list, 1, k - 1)) = k - 1
        /\ \A i \in 1..k - 1 : SubSeq(list, 1, k - 1)[i] = list[i]
    BY <1>1, <1>2, <1>4
  <2>2. SubSeq(list, k + 1, n) \in Seq(Buf) /\ Len(SubSeq(list, k + 1, n)) = n - k
        /\ \A i \in 1..n - k : SubSeq(list, k + 1, n)[i] = list[k + i]
    BY <1>1, <1>2, <1>4
  <2> QED
    BY <1>1, <2>1, <2>2
<1> HIDE DEF rest
<1>7. InFront(c) = <<c>> \o rest
  BY <1>4, <1>5 DEF RemoveAt, rest
<1>8. /\ InFront(c) \in [1..n -> Buf] /\ InFront(c)[1] = c
      /\ \A i \in 1..n - 1 : InFront(c)[i + 1] = rest[i]
  <2>1. <<c>> \in Seq(Buf) /\ Len(<<c>>) = 1 /\ <<c>>[1] = c
    OBVIOUS
  <2>2. InFront(c) \in Seq(Buf) /\ Len(InFront(c)) = n
    BY <1>1, <1>6, <1>7, <2>1
  <2>3. InFront(c)[1] = c
    BY <1>1, <1>6, <1>7, <2>1
  <2>4. ASSUME NEW i \in 1..n - 1 PROVE InFront(c)[i + 1] = rest[i]
    BY <1>1, <1>6, <1>7, <2>1
  <2>5. InFront(c) \in [1..n -> Buf]
    BY <1>1, <2>2
  <2> QED
    BY <2>3, <2>4, <2>5
<1>9. ASSUME NEW d \in Buf PROVE \E i \in 1..n : InFront(c)[i] = d
  <2>1. PICK j \in 1..n : list[j] = d
    BY <1>2
  <2>2. CASE j = k
    BY <1>1, <1>3, <1>8, <2>1, <2>2
  <2>3. CASE j < k
    <3>1. j \in 1..n - 1 /\ j + 1 \in 1..n /\ rest[j] = d
      BY <1>1, <1>6, <2>1, <2>3
    <3> QED
      BY <1>8, <3>1
  <2>4. CASE j > k
    <3>1. j - 1 \in 1..n - 1 /\ ~(j - 1 < k) /\ j - 1 + 1 = j
      BY <1>1, <2>4
    <3>2. rest[j - 1] = d
      BY <1>6, <2>1, <3>1
    <3> QED
      BY <1>8, <3>1, <3>2
  <2> QED
    BY <1>1, <2>2, <2>3, <2>4
<1>10. DOMAIN InFront(c) = 1..n
  BY <1>8
<1> QED
  BY <1>8, <1>9, <1>10 DEF ToSet, n

\* The queue's elements are buffers, and the command is for the first.
LEMMA QueueIs ==
  ASSUME Queue
  PROVE  /\ Len(idequeue) \in Nat /\ \A i \in 1..Len(idequeue) : idequeue[i] \in Buf
         /\ req # None => 1 \in 1..Len(idequeue)
BY DEF Queue

\* A step that touches no buffer of the queue.
LEMMA QueueKept ==
  ASSUME Queue, UNCHANGED <<idequeue, req, disk>>,
         \A i \in 1..Len(idequeue) :
           /\ bno'[idequeue[i]] = bno[idequeue[i]] /\ dirty'[idequeue[i]] = dirty[idequeue[i]]
           /\ valid'[idequeue[i]] = valid[idequeue[i]] /\ data'[idequeue[i]] = data[idequeue[i]]
           /\ lock'[idequeue[i]] = lock[idequeue[i]]
           /\ pc'[lock[idequeue[i]]] \in {"asleep", "woken"}
  PROVE  Queue'
<1>1. ASSUME NEW i \in 1..Len(idequeue) PROVE Waits(idequeue[i])'
  BY DEF Queue, Waits, WithDriver, InSync
<1>2. req # None => 1 \in 1..Len(idequeue)
  BY QueueIs
<1> QED
  BY <1>1, <1>2 DEF Queue

\* A command is a request.
LEMMA CommandIs ==
  ASSUME Flags, NEW c \in Buf, bno[c] \in Block
  PROVE  /\ Command(c) \in Request /\ Command(c) # None
         /\ Command(c).block = bno[c] /\ Command(c).write = dirty[c]
         /\ Command(c).data = data[c] /\ Command(c).done = FALSE
<1>1. dirty[c] \in BOOLEAN /\ data[c] \in Value \cup {None}
  BY DEF Flags
<1>2. Command(c) \in Request
  BY <1>1 DEF Command, Request
<1>3. Command(c) # None
  BY <1>2, BufferCacheAssumption DEF BufferCacheAssumption
<1> QED
  BY <1>2, <1>3 DEF Command

\* bget: a hit touches no buffer's contents, and a recycled buffer is nobody's
\* and not with the driver.
LEMMA HitKeeps ==
  ASSUME IInv, NEW p \in Client, NEW b \in Block, Hit(p, b)
  PROVE  Holders' /\ Flags' /\ Queue' /\ Recency' /\ Pins'
<1> USE BufferCacheAssumption DEF BufferCacheAssumption, IInv, cache, flags, driver
<1>1. PICK c \in Buf : Caches(c, b) /\ Chosen(p, c, b)
  BY DEF Hit
<1>2. /\ pc[p] = "idle" /\ mine' = [mine EXCEPT ![p] = c] /\ at' = [at EXCEPT ![p] = b]
      /\ pc' = [pc EXCEPT ![p] = "acquire"]
      /\ UNCHANGED <<list, bno, valid, dirty, data, lock, idequeue, req, disk>>
  BY <1>1 DEF Hit, Chosen, Goto
<1>3. mine \in [Client -> Buf \cup {None}] /\ pc \in [Client -> PC] /\ lock \in [Buf -> Client \cup {None}] /\ mine[p] = None
  BY <1>2 DEF BaseInv, RefInv, RefTypes, LockInv
<1>4. Holders'
  BY <1>1, <1>2, <1>3 DEF Holders, Using
<1>5. Flags'
  BY <1>1, <1>2, <1>3 DEF Flags, InSync
<1>6. Queue'
  BY <1>1, <1>2, <1>3 DEF Queue, Waits, WithDriver, InSync, Command
<1>7. Recency'
  BY <1>1, <1>2, <1>3 DEF Recency
<1>8. Pins'
  <2>1. Pinned' \subseteq Pinned
    BY <1>1, <1>2, <1>3 DEF Pinned
  <2> QED
    BY <2>1, PinsShrink
<1> QED
  BY <1>4, <1>5, <1>6, <1>7, <1>8

LEMMA RecycleKeeps ==
  ASSUME IInv, NEW p \in Client, NEW b \in Block, Recycle(p, b)
  PROVE  Holders' /\ Flags' /\ Queue' /\ Recency' /\ Pins'
<1> USE BufferCacheAssumption DEF BufferCacheAssumption, IInv, cache, flags, driver
<1>1. mine \in [Client -> Buf \cup {None}] /\ pc \in [Client -> PC] /\ lock \in [Buf -> Client \cup {None}]
  BY DEF BaseInv, RefInv, RefTypes, LockInv
<1>2. PICK c \in Buf :
        /\ refcnt[c] = 0 /\ ~dirty[c]
        /\ bno' = [bno EXCEPT ![c] = b]
        /\ valid' = [valid EXCEPT ![c] = FALSE]
        /\ dirty' = [dirty EXCEPT ![c] = FALSE]
        /\ Chosen(p, c, b)
  BY DEF Recycle, Unused
<1>3. /\ pc[p] = "idle" /\ mine' = [mine EXCEPT ![p] = c] /\ pc' = [pc EXCEPT ![p] = "acquire"]
      /\ UNCHANGED <<list, data, lock, idequeue, req, disk>>
  BY <1>2 DEF Recycle, Chosen, Goto
<1>4. Users(c) = {}
  BY <1>2, UsersFinite, FS_EmptySet DEF BaseInv, RefInv, CountsUsers
<1>5. lock[c] = None /\ \A q \in Client : mine[q] # c
  BY <1>1, <1>4 DEF Users, Holders
<1>6. \A i \in 1..Len(idequeue) : idequeue[i] # c
  BY <1>1, <1>5, QueueIs DEF Queue, Waits
<1>7. bno \in [Buf -> Block \cup {None}]
  BY DEF BaseInv, RefInv, RefTypes
<1>8. /\ Len(idequeue) \in Nat /\ \A i \in 1..Len(idequeue) : idequeue[i] \in Buf
      /\ req # None => 1 \in 1..Len(idequeue)
  BY QueueIs
<1>9. Holders'
  BY <1>1, <1>2, <1>3, <1>4, <1>5, <1>6, <1>7, <1>8 DEF Holders, Using
<1>10. Flags'
  BY <1>1, <1>2, <1>3, <1>4, <1>5, <1>6, <1>7, <1>8 DEF Flags, InSync
<1>11. Queue'
  <2>1. ASSUME NEW i \in 1..Len(idequeue)
        PROVE  /\ lock[idequeue[i]] \in Client /\ pc[lock[idequeue[i]]] \in {"asleep", "woken"}
               /\ idequeue[i] \in Buf /\ idequeue[i] # c
    BY <1>1, <1>6, QueueIs DEF Queue, Waits, WithDriver
  <2>2. ASSUME NEW i \in 1..Len(idequeue)
        PROVE  pc'[lock[idequeue[i]]] \in {"asleep", "woken"}
    BY <1>3, <2>1
  <2>3. ASSUME NEW i \in 1..Len(idequeue)
        PROVE  /\ bno'[idequeue[i]] = bno[idequeue[i]] /\ dirty'[idequeue[i]] = dirty[idequeue[i]]
               /\ valid'[idequeue[i]] = valid[idequeue[i]]
    BY <1>2, <1>7, <2>1 DEF Flags
  <2> QED
    BY <1>3, <2>2, <2>3, QueueKept
<1>12. Recency'
  BY <1>1, <1>2, <1>3, <1>4, <1>5, <1>6, <1>7, <1>8 DEF Recency
<1>13. Pins'
  <2>1. Pinned' \subseteq Pinned
    BY <1>1, <1>2, <1>3, <1>4, <1>5, <1>6, <1>7, <1>8 DEF Pinned
  <2> QED
    BY <2>1, PinsShrink
<1> QED
  BY <1>9, <1>10, <1>11, <1>12, <1>13

\* What a client does to the buffer it has: it alone holds the lock, so the
\* buffer is not with the driver.
LEMMA AcquireSleepKeeps ==
  ASSUME IInv, NEW p \in Client, AcquireSleep(p)
  PROVE  Holders' /\ Flags' /\ Queue' /\ Recency' /\ Pins'
<1> USE BufferCacheAssumption DEF BufferCacheAssumption, IInv, cache, flags, driver
<1>1. mine \in [Client -> Buf \cup {None}] /\ pc \in [Client -> PC] /\ lock \in [Buf -> Client \cup {None}]
  BY DEF BaseInv, RefInv, RefTypes, LockInv
<1>2. /\ pc[p] = "acquire" /\ lock[mine[p]] = None /\ mine[p] \in Buf /\ bno[mine[p]] = at[p] /\ at[p] \in Block
      /\ lock' = [lock EXCEPT ![mine[p]] = p]
      /\ pc' = [pc EXCEPT ![p] = IF valid[mine[p]] THEN "owns" ELSE "iderw"]
      /\ UNCHANGED <<list, bno, valid, dirty, data, idequeue, req, disk, mine, at>>
  BY <1>1, MineIs DEF AcquireSleep, Goto
<1>3. Holders'
  BY <1>1, <1>2 DEF Holders, Using
<1>4. Flags'
  BY <1>1, <1>2 DEF Flags, InSync
<1>5. Queue'
  BY <1>1, <1>2 DEF Queue, Waits, WithDriver, InSync, Command
<1>6. Recency'
  BY <1>1, <1>2 DEF Recency
<1>7. Pins'
  <2>1. Pinned' \subseteq Pinned
    BY <1>1, <1>2 DEF Pinned
  <2> QED
    BY <2>1, PinsShrink
<1> QED
  BY <1>3, <1>4, <1>5, <1>6, <1>7

LEMMA ModifyKeeps ==
  ASSUME IInv, NEW p \in Client, NEW v \in Value, Modify(p, v)
  PROVE  Holders' /\ Flags' /\ Queue' /\ Recency' /\ Pins'
<1> USE BufferCacheAssumption DEF BufferCacheAssumption, IInv, cache, flags, driver
<1>1. mine \in [Client -> Buf \cup {None}] /\ pc \in [Client -> PC] /\ lock \in [Buf -> Client \cup {None}]
  BY DEF BaseInv, RefInv, RefTypes, LockInv
<1>2. /\ pc[p] = "owns" /\ mine[p] \in Buf /\ bno[mine[p]] = at[p] /\ at[p] \in Block
      /\ data' = [data EXCEPT ![mine[p]] = v] /\ pc' = [pc EXCEPT ![p] = "changed"]
      /\ UNCHANGED <<list, bno, valid, dirty, lock, idequeue, req, disk, mine, at>>
  BY <1>1, MineIs DEF Modify, Goto
<1>3. lock[mine[p]] = p
  BY <1>2 DEF BaseInv, LockInv, Using
<1>4. \A i \in 1..Len(idequeue) : idequeue[i] # mine[p]
  BY <1>2, <1>3 DEF Queue, Waits, WithDriver
<1>5. Holders'
  BY <1>1, <1>2, <1>3, <1>4 DEF Holders, Using
<1>6. Flags'
  BY <1>1, <1>2, <1>3, <1>4 DEF Flags, InSync
<1>7. Queue'
  <2>1. ASSUME NEW i \in 1..Len(idequeue)
        PROVE  lock[idequeue[i]] \in Client /\ pc[lock[idequeue[i]]] \in {"asleep", "woken"} /\ idequeue[i] \in Buf
    BY <1>1, QueueIs DEF Queue, Waits, WithDriver
  <2>2. ASSUME NEW i \in 1..Len(idequeue)
        PROVE  pc'[lock[idequeue[i]]] \in {"asleep", "woken"}
    BY <2>1, <1>1, <1>2, <1>3, <1>4
  <2> QED
    BY <2>1, <2>2, QueueKept, <1>1, <1>2, <1>3, <1>4 DEF Flags
<1>8. Recency'
  BY <1>1, <1>2, <1>3, <1>4 DEF Recency
<1>9. Pins'
  <2>1. Pinned' \subseteq Pinned
    BY <1>1, <1>2, <1>3, <1>4 DEF Pinned
  <2> QED
    BY <2>1, PinsShrink
<1> QED
  BY <1>5, <1>6, <1>7, <1>8, <1>9

LEMMA BwriteKeeps ==
  ASSUME IInv, NEW p \in Client, Bwrite(p)
  PROVE  Holders' /\ Flags' /\ Queue' /\ Recency' /\ Pins'
<1> USE BufferCacheAssumption DEF BufferCacheAssumption, IInv, cache, flags, driver
<1>1. mine \in [Client -> Buf \cup {None}] /\ pc \in [Client -> PC] /\ lock \in [Buf -> Client \cup {None}]
  BY DEF BaseInv, RefInv, RefTypes, LockInv
<1>2. /\ pc[p] \in {"owns", "changed"} /\ mine[p] \in Buf /\ bno[mine[p]] = at[p] /\ at[p] \in Block
      /\ dirty' = [dirty EXCEPT ![mine[p]] = TRUE] /\ pc' = [pc EXCEPT ![p] = "iderw"]
      /\ UNCHANGED <<list, bno, valid, data, lock, idequeue, req, disk, mine, at>>
  BY <1>1, MineIs DEF Bwrite, Goto
<1>3. lock[mine[p]] = p
  BY <1>2 DEF BaseInv, LockInv, Using
<1>4. \A i \in 1..Len(idequeue) : idequeue[i] # mine[p]
  BY <1>2, <1>3 DEF Queue, Waits, WithDriver
<1>5. /\ Len(idequeue) \in Nat /\ \A i \in 1..Len(idequeue) : idequeue[i] \in Buf
      /\ req # None => 1 \in 1..Len(idequeue)
  BY QueueIs
<1>6. Holders'
  BY <1>1, <1>2, <1>3, <1>4, <1>5 DEF Holders, Using
<1>7. Flags'
  BY <1>1, <1>2, <1>3, <1>4, <1>5 DEF Flags, InSync
<1>8. Queue'
  <2>1. ASSUME NEW i \in 1..Len(idequeue)
        PROVE  lock[idequeue[i]] \in Client /\ pc[lock[idequeue[i]]] \in {"asleep", "woken"} /\ idequeue[i] \in Buf
    BY <1>1, QueueIs DEF Queue, Waits, WithDriver
  <2>2. ASSUME NEW i \in 1..Len(idequeue)
        PROVE  pc'[lock[idequeue[i]]] \in {"asleep", "woken"}
    BY <2>1, <1>1, <1>2, <1>3, <1>4, <1>5
  <2> QED
    BY <2>1, <2>2, QueueKept, <1>1, <1>2, <1>3, <1>4, <1>5 DEF Flags
<1>9. Recency'
  BY <1>1, <1>2, <1>3, <1>4, <1>5 DEF Recency
<1>10. Pins'
  <2>1. Pinned' \subseteq Pinned
    BY <1>1, <1>2, <1>3, <1>4, <1>5 DEF Pinned
  <2> QED
    BY <2>1, PinsShrink
<1> QED
  BY <1>6, <1>7, <1>8, <1>9, <1>10

LEMMA LogWriteKeeps ==
  ASSUME IInv, NEW p \in Client, LogWrite(p)
  PROVE  Holders' /\ Flags' /\ Queue' /\ Recency' /\ Pins'
<1> USE BufferCacheAssumption DEF BufferCacheAssumption, IInv, cache, flags, driver
<1>1. mine \in [Client -> Buf \cup {None}] /\ pc \in [Client -> PC] /\ lock \in [Buf -> Client \cup {None}]
  BY DEF BaseInv, RefInv, RefTypes, LockInv
<1>2. /\ pc[p] = "changed" /\ mine[p] \in Buf /\ bno[mine[p]] = at[p] /\ at[p] \in Block
      /\ dirty' = [dirty EXCEPT ![mine[p]] = TRUE] /\ pc' = [pc EXCEPT ![p] = "owns"]
      /\ UNCHANGED <<list, bno, valid, data, lock, idequeue, req, disk, mine, at>>
  BY <1>1, MineIs DEF LogWrite, Goto
<1>3. lock[mine[p]] = p
  BY <1>2 DEF BaseInv, LockInv, Using
<1>4. \A i \in 1..Len(idequeue) : idequeue[i] # mine[p]
  BY <1>2, <1>3 DEF Queue, Waits, WithDriver
<1>5. /\ Len(idequeue) \in Nat /\ \A i \in 1..Len(idequeue) : idequeue[i] \in Buf
      /\ req # None => 1 \in 1..Len(idequeue)
  BY QueueIs
<1>6. Cardinality(Pinned \cup {mine[p]}) <= MaxDirty
  BY DEF LogWrite
<1>7. Holders'
  BY <1>1, <1>2, <1>3, <1>4, <1>5, <1>6 DEF Holders, Using
<1>8. Flags'
  BY <1>1, <1>2, <1>3, <1>4, <1>5, <1>6 DEF Flags, InSync
<1>9. Queue'
  <2>1. ASSUME NEW i \in 1..Len(idequeue)
        PROVE  lock[idequeue[i]] \in Client /\ pc[lock[idequeue[i]]] \in {"asleep", "woken"} /\ idequeue[i] \in Buf
    BY <1>1, QueueIs DEF Queue, Waits, WithDriver
  <2>2. ASSUME NEW i \in 1..Len(idequeue)
        PROVE  pc'[lock[idequeue[i]]] \in {"asleep", "woken"}
    BY <2>1, <1>1, <1>2, <1>3, <1>4, <1>5, <1>6
  <2> QED
    BY <2>1, <2>2, QueueKept, <1>1, <1>2, <1>3, <1>4, <1>5, <1>6 DEF Flags
<1>10. Recency'
  BY <1>1, <1>2, <1>3, <1>4, <1>5, <1>6 DEF Recency
<1>11. Pins'
  <2>1. Pinned' \subseteq Pinned \cup {mine[p]}
    <3> SUFFICES ASSUME NEW d \in Buf, dirty'[d], d # mine[p], d \in Pinned', d \notin Pinned
                 PROVE  FALSE
      BY DEF Pinned
    <3>1. dirty[d]
      BY <1>2 DEF Flags
    <3>2. PICK q \in Client : pc[q] \in {"iderw", "asleep", "woken"} /\ mine[q] = d
      BY <3>1 DEF Pinned
    <3>3. pc'[q] = pc[q] /\ mine'[q] = mine[q]
      BY <1>1, <1>2, <3>2
    <3> QED
      BY <3>2, <3>3 DEF Pinned
  <2>2. IsFiniteSet(Pinned \cup {mine[p]})
    BY <1>2, FS_Subset DEF Pinned
  <2>3. Cardinality(Pinned') <= Cardinality(Pinned \cup {mine[p]}) /\ IsFiniteSet(Pinned')
    BY <2>1, <2>2, FS_Subset
  <2>4. Cardinality(Pinned') \in Nat /\ Cardinality(Pinned \cup {mine[p]}) \in Nat
    BY <2>2, <2>3, FS_CardinalityType
  <2> QED
    BY <1>6, <2>3, <2>4 DEF Pins
<1> QED
  BY <1>7, <1>8, <1>9, <1>10, <1>11

LEMMA ReleaseSleepKeeps ==
  ASSUME IInv, NEW p \in Client, ReleaseSleep(p)
  PROVE  Holders' /\ Flags' /\ Queue' /\ Recency' /\ Pins'
<1> USE BufferCacheAssumption DEF BufferCacheAssumption, IInv, cache, flags, driver
<1>1. mine \in [Client -> Buf \cup {None}] /\ pc \in [Client -> PC] /\ lock \in [Buf -> Client \cup {None}]
  BY DEF BaseInv, RefInv, RefTypes, LockInv
<1>2. /\ pc[p] = "owns" /\ mine[p] \in Buf /\ bno[mine[p]] = at[p] /\ at[p] \in Block
      /\ lock' = [lock EXCEPT ![mine[p]] = None] /\ pc' = [pc EXCEPT ![p] = "released"]
      /\ UNCHANGED <<list, bno, valid, dirty, data, idequeue, req, disk, mine, at>>
  BY <1>1, MineIs DEF ReleaseSleep, Goto
<1>3. lock[mine[p]] = p
  BY <1>2 DEF BaseInv, LockInv, Using
<1>4. \A i \in 1..Len(idequeue) : idequeue[i] # mine[p]
  BY <1>2, <1>3, QueueIs DEF Queue, Waits, WithDriver
<1>5. Holders'
  BY <1>1, <1>2, <1>3, <1>4 DEF Holders, Using
<1>6. Flags'
  BY <1>1, <1>2, <1>3, <1>4 DEF Flags, InSync
<1>7. Queue'
  <2>1. ASSUME NEW i \in 1..Len(idequeue)
        PROVE  lock[idequeue[i]] \in Client /\ pc[lock[idequeue[i]]] \in {"asleep", "woken"} /\ idequeue[i] \in Buf
    BY <1>1, QueueIs DEF Queue, Waits, WithDriver
  <2>2. ASSUME NEW i \in 1..Len(idequeue)
        PROVE  pc'[lock[idequeue[i]]] \in {"asleep", "woken"}
    BY <2>1, <1>1, <1>2, <1>3, <1>4
  <2> QED
    BY <2>1, <2>2, QueueKept, <1>1, <1>2, <1>3, <1>4 DEF Flags
<1>8. Recency'
  BY <1>1, <1>2, <1>3, <1>4 DEF Recency
<1>9. Pins'
  <2>1. Pinned' \subseteq Pinned
    BY <1>1, <1>2, <1>3, <1>4 DEF Pinned
  <2> QED
    BY <2>1, PinsShrink
<1> QED
  BY <1>5, <1>6, <1>7, <1>8, <1>9

LEMMA BrelseKeeps ==
  ASSUME IInv, NEW p \in Client, Brelse(p)
  PROVE  Holders' /\ Flags' /\ Queue' /\ Recency' /\ Pins'
<1> USE BufferCacheAssumption DEF BufferCacheAssumption, IInv, cache, flags, driver
<1>1. mine \in [Client -> Buf \cup {None}] /\ pc \in [Client -> PC] /\ lock \in [Buf -> Client \cup {None}]
  BY DEF BaseInv, RefInv, RefTypes, LockInv
<1>2. /\ pc[p] = "released" /\ mine[p] \in Buf /\ bno[mine[p]] = at[p] /\ at[p] \in Block
      /\ mine' = [mine EXCEPT ![p] = None] /\ pc' = [pc EXCEPT ![p] = "idle"]
      /\ UNCHANGED <<bno, valid, dirty, data, lock, idequeue, req, disk>>
  BY <1>1, MineIs DEF Brelse, Goto
<1>3. list' = list \/ list' = InFront(mine[p])
  BY DEF Brelse
<1>4. Holders'
  BY <1>1, <1>2, <1>3 DEF Holders, Using
<1>5. Flags'
  BY <1>1, <1>2, <1>3 DEF Flags, InSync
<1>6. Queue'
  BY <1>1, <1>2, <1>3 DEF Queue, Waits, WithDriver, InSync, Command
<1>7. Recency'
  BY <1>2, <1>3, InFrontIs DEF Recency
<1>8. Pins'
  <2>1. Pinned' \subseteq Pinned
    BY <1>1, <1>2, <1>3 DEF Pinned
  <2> QED
    BY <2>1, PinsShrink
<1> QED
  BY <1>4, <1>5, <1>6, <1>7, <1>8

\* iderw: the buffer is not in the queue yet, and there is something to do.
LEMMA IderwKeeps ==
  ASSUME IInv, NEW p \in Client, Iderw(p)
  PROVE  Holders' /\ Flags' /\ Queue' /\ Recency' /\ Pins'
<1> USE BufferCacheAssumption DEF BufferCacheAssumption, IInv, cache, flags, driver
<1>1. mine \in [Client -> Buf \cup {None}] /\ pc \in [Client -> PC] /\ lock \in [Buf -> Client \cup {None}]
  BY DEF BaseInv, RefInv, RefTypes, LockInv
<1>2. pc[p] = "iderw" /\ mine[p] \in Buf /\ bno[mine[p]] = at[p] /\ at[p] \in Block
  BY MineIs DEF Iderw
<1>3. lock[mine[p]] = p
  BY <1>2 DEF BaseInv, LockInv, Using
<1>4. \A i \in 1..Len(idequeue) : idequeue[i] # mine[p]
  BY <1>2, <1>3 DEF Queue, Waits, WithDriver
<1>5. ~InSync(mine[p])
  BY <1>2 DEF Flags
<1>6. /\ idequeue' = Append(idequeue, mine[p])
      /\ req' = IF idequeue = <<>> THEN Command(mine[p]) ELSE req
      /\ pc' = [pc EXCEPT ![p] = "asleep"]
      /\ UNCHANGED <<list, bno, valid, dirty, data, lock, disk, mine, at>>
  BY <1>3, <1>5 DEF Iderw, Goto
<1>7. /\ Len(idequeue) \in Nat /\ \A i \in 1..Len(idequeue) : idequeue[i] \in Buf
      /\ req # None => 1 \in 1..Len(idequeue)
  BY QueueIs
<1>8. Holders'
  BY <1>1, <1>2, <1>3, <1>4, <1>5, <1>6, <1>7 DEF Holders, Using
<1>9. Flags'
  BY <1>1, <1>2, <1>3, <1>4, <1>5, <1>6, <1>7 DEF Flags, InSync
<1>10. Queue'
  <2> DEFINE c == mine[p]
  <2>1. c \in Buf /\ c # None
    BY <1>2
  <2> HIDE DEF c
  <2>2. idequeue \in Seq(Buf) /\ idequeue' = Append(idequeue, c) /\ idequeue' \in Seq(Buf)
    BY <1>6, <2>1 DEF Queue, c
  <2>3. /\ Len(idequeue') = Len(idequeue) + 1 /\ idequeue'[Len(idequeue) + 1] = c
        /\ \A i \in 1..Len(idequeue) : idequeue'[i] = idequeue[i]
    BY <2>1, <2>2
  <2>4. \A i, j \in 1..Len(idequeue') : idequeue'[i] = idequeue'[j] => i = j
    BY <1>4, <1>7, <2>3 DEF Queue, c
  <2>5. ASSUME NEW i \in 1..Len(idequeue')
        PROVE  Waits(idequeue[i])'
    <3>1. CASE i = Len(idequeue) + 1
      BY <1>1, <1>2, <1>3, <1>5, <1>6, <2>3, <3>1 DEF Waits, InSync, WithDriver, c
    <3>2. CASE i \in 1..Len(idequeue)
      <4>1. idequeue'[i] = idequeue[i] /\ idequeue[i] \in Buf
        BY <1>7, <2>3, <3>2
      <4>2. Waits(idequeue[i]) /\ lock[idequeue[i]] # p
        BY <1>1, <1>2, <3>2, BufferCacheAssumption DEF Queue, Waits, WithDriver, BufferCacheAssumption
      <4> QED
        BY <1>1, <1>6, <4>1, <4>2 DEF Waits, InSync, WithDriver
    <3> QED
      BY <1>7, <2>3, <3>1, <3>2
  <2>6. CASE idequeue = <<>>
    <3>1. req' = Command(c) /\ idequeue'[1] = c /\ idequeue' # <<>>
      BY <1>6, <2>1, <2>2, <2>3, <2>6 DEF c
    <3>2. bno[c] \in Block
      BY <1>2 DEF c
    <3>3. /\ req' \in Request /\ req' # None /\ req'.block = bno[c] /\ req'.write = dirty[c]
          /\ req'.data = data[c] /\ req'.done = FALSE
      BY <2>1, <3>1, <3>2, CommandIs
    <3> QED
      BY <1>6, <2>2, <2>4, <2>5, <3>1, <3>3 DEF Queue
  <2>7. CASE idequeue # <<>>
    <3>1. req' = req /\ req # None /\ idequeue'[1] = idequeue[1] /\ idequeue' # <<>>
      BY <1>6, <1>7, <2>2, <2>3, <2>7 DEF Queue
    <3> QED
      BY <1>6, <2>2, <2>4, <2>5, <3>1 DEF Queue
  <2> QED
    BY <2>6, <2>7
<1>11. Recency'
  BY <1>1, <1>2, <1>3, <1>4, <1>5, <1>6, <1>7 DEF Recency
<1>12. Pins'
  <2>1. Pinned' \subseteq Pinned
    BY <1>1, <1>2, <1>3, <1>4, <1>5, <1>6, <1>7 DEF Pinned
  <2> QED
    BY <2>1, PinsShrink
<1> QED
  BY <1>8, <1>9, <1>10, <1>11, <1>12

\* A kill wakes a client too early; it tests the flags again and sleeps on.
LEMMA KillKeeps ==
  ASSUME IInv, NEW p \in Client, Kill(p)
  PROVE  Holders' /\ Flags' /\ Queue' /\ Recency' /\ Pins'
<1> USE BufferCacheAssumption DEF BufferCacheAssumption, IInv, cache, flags, driver
<1>1. mine \in [Client -> Buf \cup {None}] /\ pc \in [Client -> PC] /\ lock \in [Buf -> Client \cup {None}]
  BY DEF BaseInv, RefInv, RefTypes, LockInv
<1>2. /\ pc[p] = "asleep" /\ mine[p] \in Buf /\ bno[mine[p]] = at[p] /\ at[p] \in Block
      /\ pc' = [pc EXCEPT ![p] = "woken"]
      /\ UNCHANGED <<list, bno, valid, dirty, data, lock, idequeue, req, disk, mine, at>>
  BY <1>1, MineIs DEF Kill, Goto
<1>3. Holders'
  BY <1>1, <1>2 DEF Holders, Using
<1>4. Flags'
  BY <1>1, <1>2 DEF Flags, InSync
<1>5. Queue'
  BY <1>1, <1>2 DEF Queue, Waits, WithDriver, InSync, Command
<1>6. Recency'
  BY <1>1, <1>2 DEF Recency
<1>7. Pins'
  <2>1. Pinned' \subseteq Pinned
    BY <1>1, <1>2 DEF Pinned
  <2> QED
    BY <2>1, PinsShrink
<1> QED
  BY <1>3, <1>4, <1>5, <1>6, <1>7

LEMMA RetestKeeps ==
  ASSUME IInv, NEW p \in Client, Retest(p)
  PROVE  Holders' /\ Flags' /\ Queue' /\ Recency' /\ Pins'
<1> USE BufferCacheAssumption DEF BufferCacheAssumption, IInv, cache, flags, driver
<1>1. mine \in [Client -> Buf \cup {None}] /\ pc \in [Client -> PC] /\ lock \in [Buf -> Client \cup {None}]
  BY DEF BaseInv, RefInv, RefTypes, LockInv
<1>2. /\ pc[p] = "woken" /\ mine[p] \in Buf /\ bno[mine[p]] = at[p] /\ at[p] \in Block
      /\ pc' = [pc EXCEPT ![p] = IF InSync(mine[p]) THEN "owns" ELSE "asleep"]
      /\ UNCHANGED <<list, bno, valid, dirty, data, lock, idequeue, req, disk, mine, at>>
  BY <1>1, MineIs DEF Retest, Goto
<1>3. lock[mine[p]] = p
  BY <1>2 DEF BaseInv, LockInv, Using
<1>4. /\ Len(idequeue) \in Nat /\ \A i \in 1..Len(idequeue) : idequeue[i] \in Buf
      /\ req # None => 1 \in 1..Len(idequeue)
  BY QueueIs
<1>5. Holders'
  BY <1>1, <1>2, <1>3, <1>4 DEF Holders, Using
<1>6. Flags'
  BY <1>1, <1>2, <1>3, <1>4 DEF Flags, InSync
<1>7. Queue'
  <2>1. ASSUME NEW i \in 1..Len(idequeue)
        PROVE  lock[idequeue[i]] \in Client /\ pc'[lock[idequeue[i]]] \in {"asleep", "woken"}
    <3>1. /\ lock[idequeue[i]] \in Client /\ pc[lock[idequeue[i]]] \in {"asleep", "woken"}
          /\ idequeue[i] \in Buf /\ ~InSync(idequeue[i])
      BY <1>1, QueueIs DEF Queue, Waits, WithDriver
    <3>2. lock[idequeue[i]] = p => idequeue[i] = mine[p]
      BY <3>1, <1>2 DEF Holders
    <3> QED
      BY <1>1, <1>2, <3>1, <3>2
  <2> QED
    BY <1>2, <2>1, QueueKept
<1>8. Recency'
  BY <1>1, <1>2, <1>3, <1>4 DEF Recency
<1>9. Pins'
  <2>1. ASSUME NEW d \in Pinned' PROVE d \in Pinned
    <3>1. d \in Buf /\ dirty[d]
      BY <1>2, <2>1 DEF Pinned
    <3>2. ASSUME NEW q \in Client, pc[q] \in {"iderw", "asleep", "woken"}, mine[q] = d
          PROVE  FALSE
      <4>1. CASE q = p
        <5>1. ~InSync(mine[p])
          BY <3>1, <3>2, <4>1 DEF InSync
        <5>2. pc'[q] = "asleep" /\ mine'[q] = d
          BY <1>1, <1>2, <3>2, <4>1, <5>1
        <5> QED
          BY <2>1, <5>2 DEF Pinned
      <4>2. CASE q # p
        <5>1. pc'[q] = pc[q] /\ mine'[q] = d
          BY <1>1, <1>2, <3>2, <4>2
        <5> QED
          BY <2>1, <3>2, <5>1 DEF Pinned
      <4> QED
        BY <4>1, <4>2
    <3> QED
      BY <3>1, <3>2 DEF Pinned
  <2> QED
    BY <2>1, PinsShrink
<1> QED
  BY <1>5, <1>6, <1>7, <1>8, <1>9

\* The disk does what the first request says, and its interrupt makes that
\* request's buffer valid and clean, and starts the next.
LEMMA DiskDoneKeeps ==
  ASSUME IInv, DiskDone
  PROVE  Holders' /\ Flags' /\ Queue' /\ Recency' /\ Pins'
<1> USE BufferCacheAssumption DEF BufferCacheAssumption, IInv, cache, flags, driver
<1>1. mine \in [Client -> Buf \cup {None}] /\ pc \in [Client -> PC] /\ lock \in [Buf -> Client \cup {None}]
  BY DEF BaseInv, RefInv, RefTypes, LockInv
<1>2. /\ req # None /\ ~req.done
      /\ req' = [req EXCEPT !.done = TRUE, !.data = IF req.write THEN @ ELSE disk[req.block]]
      /\ disk' = IF req.write THEN [disk EXCEPT ![req.block] = req.data] ELSE disk
      /\ UNCHANGED <<list, bno, valid, dirty, data, lock, idequeue, pc, mine>>
  BY DEF DiskDone
<1>3. /\ Len(idequeue) \in Nat /\ \A i \in 1..Len(idequeue) : idequeue[i] \in Buf
      /\ req # None => 1 \in 1..Len(idequeue)
  BY QueueIs
<1>4. PICK c \in Buf : c = idequeue[1]
  BY <1>2, <1>3
<1>5. /\ req \in Request /\ req.block = bno[c] /\ req.write = dirty[c]
      /\ req.write => req.data = data[c] /\ data[c] \in Value
  BY <1>2, <1>4 DEF Queue, Flags
<1>6. /\ req' \in Request /\ req'.block = bno[c] /\ req'.write = dirty[c]
      /\ req'.data = IF dirty[c] THEN data[c] ELSE disk[bno[c]]
      /\ bno[c] \in Block
  BY <1>2, <1>5 DEF Request, Flags
<1>7. disk' = IF dirty[c] THEN [disk EXCEPT ![bno[c]] = data[c]] ELSE disk
  BY <1>2, <1>5
<1>8. disk' \in [Block -> Value]
  BY <1>5, <1>6, <1>7 DEF Flags
<1>9. Holders'
  BY <1>1, <1>2, <1>3, <1>4, <1>5, <1>6, <1>7, <1>8 DEF Holders, Using
<1>10. Flags'
  <2>1. ASSUME NEW d \in Buf, valid[d], ~dirty[d], dirty[c]
        PROVE  bno[d] # bno[c]
    BY <2>1 DEF Flags, BaseInv, RefInv, OneBufferPerBlock
  <2>2. \A d \in Buf : valid[d] /\ ~dirty[d] => disk'[bno[d]] = disk[bno[d]]
    BY <1>6, <1>7, <2>1 DEF Flags
  <2> QED
    BY <1>2, <1>8, <2>2 DEF Flags, InSync
<1>11. Queue'
  <2>1. /\ req' # None
        /\ req'.data = disk'[req'.block]
        /\ req'.write => req'.data = data[c]
    BY <1>6, <1>7 DEF Flags
  <2> QED
    BY <1>2, <1>4, <1>6, <2>1 DEF Queue, Waits, WithDriver, InSync
<1>12. Recency'
  BY <1>1, <1>2, <1>3, <1>4, <1>5, <1>6, <1>7, <1>8 DEF Recency
<1>13. Pins'
  <2>1. Pinned' \subseteq Pinned
    BY <1>1, <1>2, <1>3, <1>4, <1>5, <1>6, <1>7, <1>8 DEF Pinned
  <2> QED
    BY <2>1, PinsShrink
<1> QED
  BY <1>9, <1>10, <1>11, <1>12, <1>13

LEMMA IdeintrKeeps ==
  ASSUME IInv, Ideintr
  PROVE  Holders' /\ Flags' /\ Queue' /\ Recency' /\ Pins'
<1> USE BufferCacheAssumption DEF BufferCacheAssumption, IInv, cache, flags, driver
<1>1. mine \in [Client -> Buf \cup {None}] /\ pc \in [Client -> PC] /\ lock \in [Buf -> Client \cup {None}]
  BY DEF BaseInv, RefInv, RefTypes, LockInv
<1>2. /\ Len(idequeue) \in Nat /\ \A i \in 1..Len(idequeue) : idequeue[i] \in Buf
      /\ req # None => 1 \in 1..Len(idequeue)
  BY QueueIs
<1>3. req # None /\ req.done
  BY DEF Ideintr
<1>4. PICK c \in Buf : c = idequeue[1]
  BY <1>2, <1>3
<1>5. Len(idequeue) >= 1 /\ idequeue # <<>>
  BY <1>2, <1>3
<1>6. /\ data' = IF dirty[c] THEN data ELSE [data EXCEPT ![c] = req.data]
      /\ valid' = [valid EXCEPT ![c] = TRUE]
      /\ dirty' = [dirty EXCEPT ![c] = FALSE]
      /\ pc' = [p \in Client |-> IF pc[p] = "asleep" /\ mine[p] = c THEN "woken" ELSE pc[p]]
      /\ idequeue' = Tail(idequeue)
      /\ req' = StartNext(Tail(idequeue))
      /\ UNCHANGED <<list, bno, lock, disk, mine>>
  BY <1>4, <1>5 DEF Ideintr
<1>7. /\ idequeue' \in Seq(Buf) /\ Len(idequeue') = Len(idequeue) - 1
      /\ \A i \in 1..Len(idequeue') : idequeue'[i] = idequeue[i + 1] /\ i + 1 \in 1..Len(idequeue)
  BY <1>3, <1>5, <1>6 DEF Queue
<1>8. /\ req.data = disk[bno[c]] /\ req.write = dirty[c]
      /\ req.write => req.data = data[c]
      /\ disk[bno[c]] \in Value /\ bno[c] # None
  <2>1. /\ req \in Request /\ req.block = bno[c] /\ req.write = dirty[c]
        /\ (req.write => req.data = data[c]) /\ req.data = disk[req.block]
    <3>1. req \in Request
      BY <1>3 DEF Queue
    <3>2. req.block = bno[idequeue[1]] /\ req.write = dirty[idequeue[1]]
      BY <1>3 DEF Queue
    <3>3. (req.write => req.data = data[idequeue[1]]) /\ req.data = disk[req.block]
      BY <1>3 DEF Queue
    <3> QED
      BY <1>4, <3>1, <3>2, <3>3
  <2>2. bno[c] \in Block
    BY <2>1 DEF Request
  <2> QED
    BY <2>1, <2>2, BufferCacheAssumption DEF Flags, BufferCacheAssumption
<1>9. Holders'
  BY <1>1, <1>6 DEF Holders, Using
<1>10. Flags'
  <2>1. /\ valid' \in [Buf -> BOOLEAN] /\ dirty' \in [Buf -> BOOLEAN]
        /\ data' \in [Buf -> Value \cup {None}]
    BY <1>6, <1>8 DEF Flags
  <2>2. data'[c] = disk[bno[c]]
    BY <1>6, <1>8 DEF Flags
  <2>3. \A d \in Buf : d # c => data'[d] = data[d] /\ valid'[d] = valid[d] /\ dirty'[d] = dirty[d]
    BY <1>6 DEF Flags
  <2>4. valid'[c] /\ ~dirty'[c]
    BY <1>6 DEF Flags
  <2>5. \A p \in Client : pc'[p] \in {"owns", "changed", "iderw"} => pc[p] = pc'[p]
    BY <1>6
  <2>6. \A p \in Client : pc[p] = "changed" => pc'[p] = "changed"
    BY <1>6
  <2>7. \A p \in Client : pc[p] = "iderw" => mine[p] # c
    BY <1>3, <1>4, <1>2 DEF Queue, Waits, WithDriver, BaseInv, LockInv, Using
  <2>8. \A p \in Client : pc[p] \in {"owns", "changed", "iderw"} => mine[p] \in Buf
    BY DEF BaseInv, RefInv, RefTypes
  <2>9. \A d \in Buf : valid'[d] => data'[d] \in Value /\ bno[d] # None
    BY <1>8, <2>2, <2>3 DEF Flags
  <2>10. \A d \in Buf : valid'[d] /\ ~dirty'[d] =>
           data'[d] = disk[bno[d]] \/ \E p \in Client : mine[p] = d /\ pc'[p] = "changed"
    BY <2>2, <2>3, <2>6 DEF Flags
  <2>11. \A p \in Client : pc'[p] \in {"owns", "changed"} => valid'[mine[p]]
    BY <2>3, <2>4, <2>5, <2>8 DEF Flags
  <2>12. \A p \in Client : pc'[p] = "iderw" => ~(valid'[mine[p]] /\ ~dirty'[mine[p]])
    BY <2>3, <2>5, <2>7, <2>8 DEF Flags, InSync
  <2> QED
    BY <1>6, <2>1, <2>3, <2>4, <2>9, <2>10, <2>11, <2>12 DEF Flags, InSync
<1>11. Queue'
  <2>1. \A i, j \in 1..Len(idequeue') : idequeue'[i] = idequeue'[j] => i = j
    <3> SUFFICES ASSUME NEW i \in 1..Len(idequeue'), NEW j \in 1..Len(idequeue'),
                        idequeue'[i] = idequeue'[j]
                 PROVE  i = j
      OBVIOUS
    <3>1. i + 1 = j + 1
      BY <1>7 DEF Queue
    <3> QED
      BY <1>7, <3>1
  <2>2. \A i \in 1..Len(idequeue') : idequeue'[i] # c /\ idequeue'[i] \in Buf
    <3> SUFFICES ASSUME NEW i \in 1..Len(idequeue')
                 PROVE  idequeue'[i] # c /\ idequeue'[i] \in Buf
      OBVIOUS
    <3>1. i + 1 \in 1..Len(idequeue) /\ idequeue'[i] = idequeue[i + 1] /\ i + 1 # 1 /\ 1 \in 1..Len(idequeue)
      BY <1>3, <1>2, <1>7
    <3> QED
      BY <1>3, <1>4, <3>1 DEF Queue
  <2>3. \A i \in 1..Len(idequeue') :
          ~InSync(idequeue'[i]) /\ lock[idequeue'[i]] # None /\ WithDriver(lock[idequeue'[i]])
    BY <1>7 DEF Queue, Waits
  <2>4. ASSUME NEW i \in 1..Len(idequeue')
        PROVE  Waits(idequeue[i])'
    <3>1. lock[idequeue'[i]] \in Client
      BY <1>1, <2>2, <2>3
    <3>2. idequeue'[i] \in Buf /\ idequeue'[i] # c
      BY <2>2
    <3>3. dirty'[idequeue'[i]] = dirty[idequeue'[i]] /\ valid'[idequeue'[i]] = valid[idequeue'[i]]
      BY <1>6, <3>2 DEF Flags
    <3>4. pc'[lock[idequeue'[i]]] \in {"asleep", "woken"}
      BY <1>6, <2>3, <3>1 DEF WithDriver
    <3> QED
      BY <1>6, <2>3, <3>3, <3>4 DEF Waits, InSync, WithDriver
  <2>6. CASE idequeue' = <<>>
    <3>1. req' = None
      BY <1>6, <2>6 DEF StartNext
    <3> QED
      BY <1>7, <2>1, <2>4, <2>6, <3>1 DEF Queue
  <2>7. CASE idequeue' # <<>>
    <3>1. /\ 1 \in 1..Len(idequeue')
          /\ Head(idequeue') = idequeue'[1]
      BY <1>7, <2>7
    <3>2. PICK d \in Buf : d = idequeue'[1]
      BY <2>2, <3>1
    <3>3. req' = Command(d)
      BY <1>6, <2>7, <3>1, <3>2 DEF StartNext
    <3>4. d # c /\ data'[d] = data[d] /\ dirty'[d] = dirty[d]
      BY <1>6, <2>2, <3>1, <3>2 DEF Flags
    <3>5. lock[d] \in Client /\ WithDriver(lock[d])
      BY <1>1, <2>3, <3>1, <3>2
    <3>6. mine[lock[d]] = d /\ bno[d] \in Block
      BY <3>2, <3>5, MineIs DEF Holders, WithDriver
    <3>7. /\ req' \in Request /\ req' # None /\ req'.block = bno[d] /\ req'.write = dirty[d]
          /\ req'.data = data[d] /\ req'.done = FALSE
      BY <3>3, <3>6, CommandIs
    <3> QED
      BY <1>6, <1>7, <2>1, <2>4, <2>7, <3>2, <3>4, <3>7 DEF Queue
  <2> QED
    BY <2>6, <2>7
<1>12. Recency'
  BY <1>6 DEF Recency
<1>13. Pins'
  <2>1. Pinned' \subseteq Pinned
    BY <1>6 DEF Pinned, Flags
  <2> QED
    BY <2>1, PinsShrink
<1> QED
  BY <1>9, <1>10, <1>11, <1>12, <1>13

\* The boot, and the memory after a crash.
LEMMA BootIs ==
  ASSUME bno = [c \in Buf |-> None], valid = [c \in Buf |-> FALSE],
         dirty = [c \in Buf |-> FALSE], data = [c \in Buf |-> None],
         lock = [c \in Buf |-> None], idequeue = <<>>, req = None, list = Boot,
         pc = [p \in Client |-> "idle"], disk \in [Block -> Value]
  PROVE  Holders /\ Flags /\ Queue /\ Recency /\ Pins
<1> USE BufferCacheAssumption DEF BufferCacheAssumption
<1>1. Holders /\ Flags /\ Recency
  BY DEF Holders, Flags, Recency
<1>2. Queue
  BY DEF Queue
<1>3. Pinned = {}
  BY DEF Pinned
<1> QED
  BY <1>1, <1>2, <1>3, FS_EmptySet DEF Pins

LEMMA InitIInv == Init => IInv
<1>1. Init => Full
  BY DEF Init, Full, BcacheFree
<1> QED
  BY <1>1, InitBase, BootIs, BufferCacheAssumption DEF Init, IInv, BufferCacheAssumption

LEMMA CrashKeeps ==
  ASSUME IInv, Crash
  PROVE  Holders' /\ Flags' /\ Queue' /\ Recency' /\ Pins'
<1> USE BufferCacheAssumption DEF BufferCacheAssumption, Crash
<1>1. disk' \in [Block -> Value]
  BY DEF IInv, Flags
<1>2. Holders' /\ Flags' /\ Recency'
  BY <1>1 DEF Holders, Flags, Recency
<1>3. Queue'
  BY DEF Queue
<1>4. Pinned' = {}
  BY DEF Pinned
<1> QED
  BY <1>2, <1>3, <1>4, FS_EmptySet DEF Pins

LEMMA NoBuffersKeeps ==
  ASSUME IInv, NEW p \in Client, NEW b \in Block, NoBuffers(p, b)
  PROVE  Holders' /\ Flags' /\ Queue' /\ Recency' /\ Pins'
<1> USE BufferCacheAssumption DEF BufferCacheAssumption, IInv, cache, flags, driver
<1>1. mine \in [Client -> Buf \cup {None}] /\ pc \in [Client -> PC] /\ lock \in [Buf -> Client \cup {None}]
  BY DEF BaseInv, RefInv, RefTypes, LockInv
<1>2. /\ pc[p] = "idle" /\ pc' = [pc EXCEPT ![p] = "no_buffers"]
      /\ UNCHANGED <<list, bno, valid, dirty, data, lock, idequeue, req, disk, mine, at>>
  BY DEF NoBuffers, Goto
<1>3. Holders' /\ Recency'
  BY <1>1, <1>2 DEF Holders, Using, Recency
<1>4. Flags'
  BY <1>1, <1>2 DEF Flags, InSync
<1>5. Queue'
  BY <1>1, <1>2 DEF Queue, Waits, WithDriver, InSync
<1>6. Pinned' \subseteq Pinned
  BY <1>1, <1>2 DEF Pinned
<1> QED
  BY <1>3, <1>4, <1>5, <1>6, PinsShrink

\* Who is in bget when no buffer is free stays there, and the others can only
\* use the buffers they have.
LEMMA FullKeeps == IInv /\ [Next]_vars => Full'
<1> SUFFICES ASSUME IInv, [Next]_vars, ~BcacheFree', NEW c \in Buf PROVE refcnt'[c] # 0 \/ dirty'[c]
  BY DEF Full
<1> USE BufferCacheAssumption DEF BufferCacheAssumption, IInv, cache, flags, driver
<1>1. /\ pc \in [Client -> PC] /\ mine \in [Client -> Buf \cup {None}] /\ refcnt \in [Buf -> Nat]
      /\ dirty \in [Buf -> BOOLEAN]
  BY DEF BaseInv, RefInv, RefTypes, Flags
<1>2. PICK p \in Client : pc'[p] = "no_buffers"
  BY DEF BcacheFree
<1>3. CASE Crash
  BY <1>2, <1>3 DEF Crash
<1>4. CASE pc[p] # "no_buffers"
  <2>1. ~Crash /\ ~DiskDone /\ ~Ideintr /\ ~UNCHANGED vars
    BY <1>1, <1>2, <1>4 DEF Crash, DiskDone, Ideintr, vars
  <2>2. PICK q \in Client : Uses(q) \/ Iderw(q) \/ Kill(q) \/ Retest(q)
    BY <2>1 DEF Next
  <2>3. \E b \in Block : NoBuffers(q, b)
    BY <1>1, <1>2, <1>4, <2>2
       DEF Uses, Hit, Recycle, Chosen, AcquireSleep, Modify, Bwrite, LogWrite, ReleaseSleep,
           Brelse, Iderw, Kill, Retest, Goto
  <2> QED
    BY <2>3 DEF NoBuffers, Unused
<1>5. CASE pc[p] = "no_buffers" /\ ~Crash
  <2>1. ~BcacheFree /\ (refcnt[c] # 0 \/ dirty[c])
    BY <1>5 DEF Full, BcacheFree
  <2>2. refcnt' = refcnt
    BY <1>5, <2>1
       DEF Next, Uses, Hit, Recycle, NoBuffers, AcquireSleep, Modify, Bwrite, LogWrite,
           ReleaseSleep, Brelse, Iderw, Kill, Retest, DiskDone, Ideintr, vars
  <2>3. CASE Ideintr /\ c = Head(idequeue)
    <3>1. idequeue # <<>> /\ 1 \in 1..Len(idequeue) /\ c = idequeue[1]
      BY <2>3, QueueIs DEF Ideintr, Queue
    <3>2. Waits(c)
      BY <3>1 DEF Queue
    <3>3. lock[c] \in Client /\ mine[lock[c]] = c
      BY <3>2 DEF Waits, Holders, BaseInv, LockInv
    <3>4. Users(c) # {}
      BY <3>3 DEF Users
    <3>5. refcnt[c] # 0
      BY <3>4, UsersFinite, FS_EmptySet DEF BaseInv, RefInv, CountsUsers
    <3> QED
      BY <2>2, <3>5
  <2>4. CASE ~(Ideintr /\ c = Head(idequeue))
    <3>1. dirty[c] => dirty'[c]
      BY <1>1, <1>5, <2>1, <2>4
         DEF Next, Uses, Hit, Recycle, NoBuffers, AcquireSleep, Modify, Bwrite, LogWrite,
             ReleaseSleep, Brelse, Iderw, Kill, Retest, DiskDone, Ideintr, vars
    <3> QED
      BY <2>1, <2>2, <3>1
  <2> QED
    BY <2>3, <2>4
<1> QED
  BY <1>3, <1>4, <1>5

LEMMA NextIInv == IInv /\ [Next]_vars => IInv'
<1> SUFFICES ASSUME IInv, [Next]_vars PROVE Holders' /\ Flags' /\ Queue' /\ Recency' /\ Pins'
  BY NextBase, FullKeeps DEF IInv
<1>1. ASSUME NEW p \in Client, Uses(p) \/ Iderw(p) \/ Kill(p) \/ Retest(p)
      PROVE  Holders' /\ Flags' /\ Queue' /\ Recency' /\ Pins'
  BY <1>1, HitKeeps, RecycleKeeps, NoBuffersKeeps, AcquireSleepKeeps, ModifyKeeps, BwriteKeeps,
     LogWriteKeeps, ReleaseSleepKeeps, BrelseKeeps, IderwKeeps, KillKeeps, RetestKeeps
     DEF Uses
<1>2. CASE DiskDone
  BY <1>2, DiskDoneKeeps
<1>3. CASE Ideintr
  BY <1>3, IdeintrKeeps
<1>4. CASE Crash
  BY <1>4, CrashKeeps
<1>5. CASE UNCHANGED vars
  <2> USE <1>5 DEF IInv, vars
  <2>1. Holders' /\ Flags' /\ Recency'
    BY DEF Holders, Using, Flags, InSync, Recency
  <2>2. Queue'
    BY DEF Queue, Waits, WithDriver, InSync
  <2>3. Pinned' = Pinned
    BY DEF Pinned
  <2> QED
    BY <2>1, <2>2, <2>3 DEF Pins
<1> QED
  BY <1>1, <1>2, <1>3, <1>4, <1>5 DEF Next

-----------------------------------------------------------------------------
\* The invariant holds throughout.
LEMMA Invariant == Spec => []IInv
BY InitIInv, NextIInv, PTL DEF Spec

\* The buffer that bget has found for a client stays the block's, while the
\* client waits for its sleep lock and for as long as it has it.
THEOREM BufferStaysMine == Spec => []StillMine
<1>1. IInv => StillMine
  BY DEF IInv, BaseInv, RefInv
<1> QED
  BY <1>1, Invariant, PTL

\* "Only one process at a time can use a buffer": two clients between bread and
\* brelse have different blocks, not only different buffers.
OneUserPerBlock ==
  \A p, q \in Client : Using(p) /\ Using(q) /\ at[p] = at[q] => p = q

THEOREM BlocksHaveOneUser == Spec => []OneUserPerBlock
<1>1. IInv => OneUserPerBlock
  <2> SUFFICES ASSUME IInv, NEW p \in Client, NEW q \in Client, Using(p), Using(q), at[p] = at[q]
               PROVE  p = q
    BY DEF OneUserPerBlock
  <2>1. bno[mine[p]] = at[p] /\ bno[mine[q]] = at[q]
    BY DEF IInv, BaseInv, RefInv, StillMine, Using
  <2>2. mine[p] \in Buf /\ mine[q] \in Buf /\ at[p] # None
    BY DEF IInv, BaseInv, RefInv, RefTypes, Using
  <2>3. mine[p] = mine[q]
    BY <2>1, <2>2 DEF IInv, BaseInv, RefInv, OneBufferPerBlock
  <2> QED
    BY <2>3 DEF IInv, BaseInv, LockInv
<1> QED
  BY <1>1, Invariant, PTL

\* The buffers that are neither pinned nor any client's are free for bget.
LEMMA FullMeans ==
  ASSUME IInv, ~BcacheFree
  PROVE  /\ Cardinality(Pinned) + Cardinality(WithBuffer) >= Cardinality(Buf)
         /\ Cardinality(WithBuffer) < Cardinality(Client)
<1> USE BufferCacheAssumption DEF BufferCacheAssumption
<1>1. PICK p \in Client : pc[p] = "no_buffers"
  BY DEF BcacheFree
<1>2. /\ p \notin WithBuffer /\ WithBuffer \subseteq Client \ {p} /\ None \notin Buf
      /\ \A c \in Buf : refcnt[c] # 0 \/ dirty[c]
  BY <1>1 DEF WithBuffer, IInv, BaseInv, RefInv, RefTypes, Full
<1> DEFINE Taken == {mine[q] : q \in WithBuffer}
<1>3. /\ IsFiniteSet(Client \ {p}) /\ Cardinality(Client \ {p}) = Cardinality(Client) - 1
  BY FS_RemoveElement
<1>4. IsFiniteSet(WithBuffer) /\ Cardinality(WithBuffer) <= Cardinality(Client) - 1
  BY <1>2, <1>3, FS_Subset
<1>5. IsFiniteSet(Taken) /\ Cardinality(Taken) <= Cardinality(WithBuffer)
  <2> DEFINE f == [q \in WithBuffer |-> mine[q]]
  <2>1. f \in Surjection(WithBuffer, Taken)
    BY DEF Surjection
  <2> QED
    BY <1>4, <2>1, FS_Surjection
<1>6. Buf \subseteq Pinned \cup Taken
  <2> SUFFICES ASSUME NEW c \in Buf, c \notin Taken PROVE c \in Pinned
    OBVIOUS
  <2>1. \A q \in Client : mine[q] # c
    BY <1>2 DEF WithBuffer
  <2>2. Users(c) = {}
    BY <2>1 DEF Users
  <2>3. refcnt[c] = 0
    BY <2>2, FS_EmptySet DEF IInv, BaseInv, RefInv, CountsUsers
  <2> QED
    BY <1>2, <2>1, <2>3 DEF Pinned
<1>7. IsFiniteSet(Pinned)
  BY FS_Subset DEF Pinned
<1> HIDE DEF Taken
<1>8. /\ IsFiniteSet(Pinned \cup Taken)
      /\ Cardinality(Pinned \cup Taken) = Cardinality(Pinned) + Cardinality(Taken) - Cardinality(Pinned \cap Taken)
  BY <1>5, <1>7, FS_Union
<1>9. IsFiniteSet(Pinned \cap Taken)
  BY <1>7, FS_Intersection
<1>10. Cardinality(Buf) <= Cardinality(Pinned \cup Taken)
  BY <1>6, <1>8, FS_Subset
<1>11. /\ Cardinality(Buf) \in Nat /\ Cardinality(Client) \in Nat /\ Cardinality(Pinned) \in Nat
       /\ Cardinality(Taken) \in Nat /\ Cardinality(WithBuffer) \in Nat /\ Cardinality(Pinned \cap Taken) \in Nat
       /\ Cardinality(Pinned \cup Taken) \in Nat
  BY <1>4, <1>5, <1>7, <1>8, <1>9, FS_CardinalityType
<1> QED
  BY <1>4, <1>5, <1>8, <1>10, <1>11

\* bget panics only when the blocks that the log keeps and the buffers that
\* clients have are all there are, however many there are: none leaks.
THEOREM PanicsWhenFull == Spec => []PanicsOnlyWhenFull
<1>1. IInv => PanicsOnlyWhenFull
  BY FullMeans DEF PanicsOnlyWhenFull, BcacheFree
<1> QED
  BY <1>1, Invariant, PTL

\* So bget never panics when there is a buffer for every client besides the
\* blocks that the log keeps.  (NBUF is LOGSIZE, so param.h does not give that.)
THEOREM EnoughBuffersSuffice ==
  ASSUME Cardinality(Buf) >= MaxDirty + Cardinality(Client)
  PROVE  Spec => []BcacheFree
<1>1. IInv => BcacheFree
  <2> SUFFICES ASSUME IInv, ~BcacheFree PROVE FALSE
    OBVIOUS
  <2>1. IsFiniteSet(Pinned)
    BY BufferCacheAssumption, FS_Subset DEF Pinned, BufferCacheAssumption
  <2>2. IsFiniteSet(WithBuffer)
    BY BufferCacheAssumption, FS_Subset DEF WithBuffer, BufferCacheAssumption
  <2>3. /\ Cardinality(Buf) \in Nat /\ Cardinality(Client) \in Nat /\ Cardinality(Pinned) \in Nat
        /\ Cardinality(WithBuffer) \in Nat /\ MaxDirty \in Nat
    BY <2>1, <2>2, BufferCacheAssumption, FS_CardinalityType DEF BufferCacheAssumption
  <2>4. Cardinality(Pinned) <= MaxDirty
    BY DEF IInv, Pins
  <2> QED
    BY <2>3, <2>4, FullMeans
<1> QED
  BY <1>1, Invariant, PTL

\* One buffer for a block, each buffer once in the list and once in the disk's
\* queue, refcnt right, and no panic in iderw.
THEOREM TypeCorrect == Spec => []TypeOK
<1>1. ASSUME IInv PROVE TypeOK
  <2> USE <1>1 DEF IInv, BaseInv, RefInv
  <2>1. refcnt = [c \in Buf |-> Cardinality({p \in Client : mine[p] = c})]
    BY DEF RefTypes, CountsUsers, Users
  <2>2. IsInjective(idequeue)
    BY DEF Queue, IsInjective
  <2>3. pc \in [Client -> {"idle", "acquire", "iderw", "asleep", "woken", "owns", "changed", "released", "no_buffers"}]
    BY DEF RefTypes, PC, Flags
  <2> QED
    BY <2>1, <2>2, <2>3 DEF TypeOK, RefTypes, OneBufferPerBlock, LockInv, Flags, Queue, Recency
<1> QED
  BY <1>1, Invariant, PTL

-----------------------------------------------------------------------------
\* What the store of blocks is: the contents and the owner of each block.
Contents == [b \in Block |-> IF InCache(b) = {} THEN disk[b] ELSE data[CHOOSE c \in InCache(b) : TRUE]]
Owner == [b \in Block |-> IF Locked(b) = {} THEN None ELSE lock[CHOOSE c \in Locked(b) : TRUE]]

\* As each block has one buffer, the choice is none: the contents are those of
\* the buffer, or the disk's, and the owner is who holds the buffer.
LEMMA ContentsAre ==
  ASSUME OneBufferPerBlock, NEW b \in Block
  PROVE  /\ \A c \in Buf : bno[c] = b /\ valid[c] => Contents[b] = data[c]
         /\ \A c \in Buf : bno[c] = b /\ ~valid[c] => Contents[b] = disk[b]
         /\ (\A c \in Buf : bno[c] # b) => Contents[b] = disk[b]
<1> USE BufferCacheAssumption DEF BufferCacheAssumption
<1>1. ASSUME NEW c \in Buf, bno[c] = b, valid[c] PROVE Contents[b] = data[c]
  <2>1. InCache(b) = {c}
    BY <1>1 DEF InCache, OneBufferPerBlock
  <2> QED
    BY <2>1 DEF Contents
<1>2. ASSUME NEW c \in Buf, bno[c] = b, ~valid[c] PROVE Contents[b] = disk[b]
  <2>1. InCache(b) = {}
    BY <1>2 DEF InCache, OneBufferPerBlock
  <2> QED
    BY <2>1 DEF Contents
<1>3. ASSUME \A c \in Buf : bno[c] # b PROVE Contents[b] = disk[b]
  <2>1. InCache(b) = {}
    BY <1>3 DEF InCache
  <2> QED
    BY <2>1 DEF Contents
<1> QED
  BY <1>1, <1>2, <1>3

LEMMA OwnersAre ==
  ASSUME OneBufferPerBlock, NEW b \in Block
  PROVE  /\ \A c \in Buf : bno[c] = b => Owner[b] = lock[c]
         /\ (\A c \in Buf : bno[c] # b) => Owner[b] = None
<1> USE BufferCacheAssumption DEF BufferCacheAssumption
<1>1. ASSUME NEW c \in Buf, bno[c] = b PROVE Owner[b] = lock[c]
  <2>1. CASE lock[c] # None
    <3>1. Locked(b) = {c}
      BY <1>1, <2>1 DEF Locked, OneBufferPerBlock
    <3> QED
      BY <3>1 DEF Owner
  <2>2. CASE lock[c] = None
    <3>1. Locked(b) = {}
      BY <1>1, <2>2 DEF Locked, OneBufferPerBlock
    <3> QED
      BY <2>2, <3>1 DEF Owner
  <2> QED
    BY <2>1, <2>2
<1>2. ASSUME \A c \in Buf : bno[c] # b PROVE Owner[b] = None
  <2>1. Locked(b) = {}
    BY <1>2 DEF Locked
  <2> QED
    BY <2>1 DEF Owner
<1> QED
  BY <1>1, <1>2

\* The same after a step.
LEMMA NextContentsAre ==
  ASSUME OneBufferPerBlock', NEW b \in Block
  PROVE  /\ \A c \in Buf : bno'[c] = b /\ valid'[c] => Contents'[b] = data'[c]
         /\ \A c \in Buf : bno'[c] = b /\ ~valid'[c] => Contents'[b] = disk'[b]
         /\ (\A c \in Buf : bno'[c] # b) => Contents'[b] = disk'[b]
<1> USE BufferCacheAssumption DEF BufferCacheAssumption
<1>1. ASSUME NEW c \in Buf, bno'[c] = b, valid'[c] PROVE Contents'[b] = data'[c]
  <2>1. InCache(b)' = {c}
    BY <1>1 DEF InCache, OneBufferPerBlock
  <2> QED
    BY <2>1 DEF Contents
<1>2. ASSUME NEW c \in Buf, bno'[c] = b, ~valid'[c] PROVE Contents'[b] = disk'[b]
  <2>1. InCache(b)' = {}
    BY <1>2 DEF InCache, OneBufferPerBlock
  <2> QED
    BY <2>1 DEF Contents
<1>3. ASSUME \A c \in Buf : bno'[c] # b PROVE Contents'[b] = disk'[b]
  <2>1. InCache(b)' = {}
    BY <1>3 DEF InCache
  <2> QED
    BY <2>1 DEF Contents
<1> QED
  BY <1>1, <1>2, <1>3

LEMMA NextOwnersAre ==
  ASSUME OneBufferPerBlock', NEW b \in Block
  PROVE  /\ \A c \in Buf : bno'[c] = b => Owner'[b] = lock'[c]
         /\ (\A c \in Buf : bno'[c] # b) => Owner'[b] = None
<1> USE BufferCacheAssumption DEF BufferCacheAssumption
<1>1. ASSUME NEW c \in Buf, bno'[c] = b PROVE Owner'[b] = lock'[c]
  <2>1. CASE lock'[c] # None
    <3>1. Locked(b)' = {c}
      BY <1>1, <2>1 DEF Locked, OneBufferPerBlock
    <3> QED
      BY <3>1 DEF Owner
  <2>2. CASE lock'[c] = None
    <3>1. Locked(b)' = {}
      BY <1>1, <2>2 DEF Locked, OneBufferPerBlock
    <3> QED
      BY <2>2, <3>1 DEF Owner
  <2> QED
    BY <2>1, <2>2
<1>2. ASSUME \A c \in Buf : bno'[c] # b PROVE Owner'[b] = None
  <2>1. Locked(b)' = {}
    BY <1>2 DEF Locked
  <2> QED
    BY <2>1 DEF Owner
<1> QED
  BY <1>1, <1>2

\* A step that shows nothing.
LEMMA Hidden ==
  ASSUME UNCHANGED disk,
         \A b \in Block : Contents'[b] = Contents[b] /\ Owner'[b] = Owner[b]
  PROVE  UNCHANGED <<Contents, disk, Owner>>
BY DEF Contents, Owner

\* Most steps change nothing that Contents and Owner look at.
LEMMA Invisible ==
  ASSUME UNCHANGED <<bno, valid, data, disk, lock>>
  PROVE  UNCHANGED <<Contents, disk, Owner>>
BY DEF Contents, Owner, InCache, Locked

\* Recycling a buffer loses nothing: nobody has it, so the disk has its contents.
LEMMA RecycleHides ==
  ASSUME IInv, IInv', NEW p \in Client, NEW b \in Block, Recycle(p, b)
  PROVE  UNCHANGED <<Contents, disk, Owner>>
<1> USE BufferCacheAssumption DEF BufferCacheAssumption, IInv, BaseInv, RefInv
<1>1. PICK c \in Buf :
        /\ refcnt[c] = 0 /\ ~dirty[c]
        /\ bno' = [bno EXCEPT ![c] = b]
        /\ valid' = [valid EXCEPT ![c] = FALSE]
  BY DEF Recycle, Unused
<1>2. UNCHANGED <<data, disk, lock>> /\ \A d \in Buf : bno[d] # b
  BY DEF Recycle, Caches, driver
<1>3. Users(c) = {}
  BY <1>1, UsersFinite, FS_EmptySet DEF CountsUsers
<1>4. lock[c] = None /\ \A q \in Client : mine[q] # c
  BY <1>3 DEF Users, Holders, LockInv
<1>5. bno \in [Buf -> Block \cup {None}] /\ valid \in [Buf -> BOOLEAN]
  BY DEF RefTypes, Flags
<1>6. ASSUME NEW x \in Block PROVE Contents'[x] = Contents[x] /\ Owner'[x] = Owner[x]
  <2>1. CASE x = b
    <3>1. bno'[c] = x /\ ~valid'[c] /\ lock'[c] = None
      BY <1>1, <1>2, <1>4, <1>5, <2>1
    <3>2. Contents'[x] = disk[x] /\ Owner'[x] = None
      BY <1>2, <3>1, NextContentsAre, NextOwnersAre
    <3>3. Contents[x] = disk[x] /\ Owner[x] = None
      BY <1>2, <2>1, ContentsAre, OwnersAre
    <3> QED
      BY <3>2, <3>3
  <2>2. CASE x # b /\ bno[c] = x
    <3>1. \A d \in Buf : bno'[d] # x
      BY <1>1, <1>5, <2>2 DEF OneBufferPerBlock
    <3>2. Contents'[x] = disk[x] /\ Owner'[x] = None
      BY <1>2, <3>1, NextContentsAre, NextOwnersAre
    <3>3. Contents[x] = disk[x]
      BY <1>1, <1>4, <2>2, ContentsAre DEF Flags
    <3>4. Owner[x] = None
      BY <1>4, <2>2, OwnersAre
    <3> QED
      BY <3>2, <3>3, <3>4
  <2>3. CASE x # b /\ bno[c] # x /\ \E d \in Buf : bno[d] = x
    <3>1. PICK d \in Buf : bno[d] = x
      BY <2>3
    <3>2. d # c /\ bno'[d] = x /\ valid'[d] = valid[d] /\ data'[d] = data[d] /\ lock'[d] = lock[d] /\ disk'[x] = disk[x]
      BY <1>1, <1>2, <1>5, <2>3, <3>1
    <3>3. Owner'[x] = Owner[x]
      BY <3>1, <3>2, OwnersAre, NextOwnersAre
    <3>4. CASE valid[d]
      <4>1. Contents[x] = data[d]
        BY <3>1, <3>4, ContentsAre
      <4>2. Contents'[x] = data'[d]
        BY <3>2, <3>4, NextContentsAre
      <4> QED
        BY <3>2, <3>3, <4>1, <4>2
    <3>5. CASE ~valid[d]
      <4>1. Contents[x] = disk[x]
        BY <3>1, <3>5, ContentsAre
      <4>2. Contents'[x] = disk'[x]
        BY <3>2, <3>5, NextContentsAre
      <4> QED
        BY <3>2, <3>3, <4>1, <4>2
    <3> QED
      BY <3>3, <3>4, <3>5
  <2>4. CASE x # b /\ \A d \in Buf : bno[d] # x
    <3>1. \A d \in Buf : bno'[d] # x
      BY <1>1, <1>5, <2>4
    <3> QED
      BY <1>2, <2>4, <3>1, ContentsAre, NextContentsAre, OwnersAre, NextOwnersAre
  <2> QED
    BY <2>1, <2>2, <2>3, <2>4
<1> QED
  BY <1>2, <1>6, Hidden

\* The interrupt makes a buffer valid, with what the disk has.
LEMMA IdeintrHides ==
  ASSUME IInv, IInv', Ideintr
  PROVE  UNCHANGED <<Contents, disk, Owner>>
<1> USE BufferCacheAssumption DEF BufferCacheAssumption, IInv, BaseInv, RefInv
<1>1. UNCHANGED <<bno, disk, lock>>
  BY DEF Ideintr, cache
<1>2. req # None /\ req.done /\ 1 \in 1..Len(idequeue)
  BY QueueIs DEF Ideintr
<1>3. PICK c \in Buf : c = idequeue[1]
  BY <1>2, QueueIs
<1>4. idequeue \in Seq(Buf) /\ idequeue # <<>> /\ Head(idequeue) = c
  BY <1>2, <1>3 DEF Queue
<1>5. /\ data' = IF dirty[c] THEN data ELSE [data EXCEPT ![c] = req.data]
      /\ valid' = [valid EXCEPT ![c] = TRUE]
  BY <1>4 DEF Ideintr
<1>6. /\ req.data = disk[bno[c]] /\ req.write = dirty[c]
      /\ req.write => req.data = data[c]
  BY <1>2, <1>3 DEF Queue
<1>7. data'[c] = disk[bno[c]] /\ valid'[c] /\ (valid[c] => data[c] = disk[bno[c]])
  <2>1. ~InSync(c)
    BY <1>2, <1>3 DEF Queue, Waits
  <2> QED
    BY <1>5, <1>6, <2>1 DEF Flags, InSync
<1>8. \A d \in Buf : d # c => data'[d] = data[d] /\ valid'[d] = valid[d]
  BY <1>5 DEF Flags
<1>9. ASSUME NEW x \in Block PROVE Contents'[x] = Contents[x]
  <2>1. CASE bno[c] = x
    BY <1>1, <1>7, <2>1, ContentsAre, NextContentsAre
  <2>2. CASE bno[c] # x /\ \E d \in Buf : bno[d] = x
    <3>1. PICK d \in Buf : bno[d] = x /\ d # c
      BY <2>2
    <3>2. bno'[d] = x /\ data'[d] = data[d] /\ valid'[d] = valid[d] /\ disk'[x] = disk[x]
      BY <1>1, <1>8, <3>1
    <3>3. CASE valid[d]
      <4>1. Contents[x] = data[d]
        BY <3>1, <3>3, ContentsAre
      <4>2. Contents'[x] = data'[d]
        BY <3>2, <3>3, NextContentsAre
      <4> QED
        BY <3>2, <4>1, <4>2
    <3>4. CASE ~valid[d]
      <4>1. Contents[x] = disk[x]
        BY <3>1, <3>4, ContentsAre
      <4>2. Contents'[x] = disk'[x]
        BY <3>2, <3>4, NextContentsAre
      <4> QED
        BY <3>2, <4>1, <4>2
    <3> QED
      BY <3>3, <3>4
  <2>3. CASE \A d \in Buf : bno[d] # x
    BY <1>1, <2>3, ContentsAre, NextContentsAre
  <2> QED
    BY <2>1, <2>2, <2>3
<1>10. Owner' = Owner
  BY <1>1 DEF Owner, Locked
<1> QED
  BY <1>1, <1>9, <1>10, Hidden

\* The buffer of a client that uses it, what it shows and whose it is.
LEMMA UsedIs ==
  ASSUME IInv, NEW p \in Client, Using(p)
  PROVE  /\ mine[p] \in Buf /\ at[p] \in Block /\ bno[mine[p]] = at[p]
         /\ lock[mine[p]] = p /\ Owner[at[p]] = p /\ p # None
         /\ valid[mine[p]] => Contents[at[p]] = data[mine[p]]
<1>1. mine[p] \in Buf /\ at[p] \in Block /\ bno[mine[p]] = at[p]
  BY MineIs DEF IInv, Using
<1>2. lock[mine[p]] = p
  BY DEF IInv, BaseInv, LockInv
<1>3. p # None
  BY BufferCacheAssumption DEF BufferCacheAssumption
<1> QED
  BY <1>1, <1>2, <1>3, ContentsAre, OwnersAre DEF IInv, BaseInv, RefInv

\* A step that changes one buffer's lock or contents changes that of one block.
LEMMA OneBlockChanges ==
  ASSUME IInv, IInv', UNCHANGED <<bno, valid, disk>>, NEW c \in Buf, bno[c] \in Block,
         \A d \in Buf : d # c => data'[d] = data[d] /\ lock'[d] = lock[d]
  PROVE  /\ Owner' = [Owner EXCEPT ![bno[c]] = lock'[c]]
         /\ valid[c] => Contents' = [Contents EXCEPT ![bno[c]] = data'[c]]
         /\ data' = data => Contents' = Contents
<1> USE BufferCacheAssumption DEF BufferCacheAssumption, IInv, BaseInv, RefInv
<1>1. ASSUME NEW x \in Block PROVE Owner'[x] = IF x = bno[c] THEN lock'[c] ELSE Owner[x]
  <2>1. CASE x = bno[c]
    BY <2>1, NextOwnersAre
  <2>2. CASE x # bno[c] /\ \E d \in Buf : bno[d] = x
    <3>1. PICK d \in Buf : bno[d] = x /\ d # c
      BY <2>2
    <3>2. Owner[x] = lock[d]
      BY <3>1, OwnersAre
    <3>3. Owner'[x] = lock'[d]
      BY <3>1, NextOwnersAre
    <3> QED
      BY <2>2, <3>1, <3>2, <3>3
  <2>3. CASE \A d \in Buf : bno[d] # x
    BY <2>3, OwnersAre, NextOwnersAre
  <2> QED
    BY <2>1, <2>2, <2>3
<1>2. ASSUME NEW x \in Block, valid[c] PROVE Contents'[x] = IF x = bno[c] THEN data'[c] ELSE Contents[x]
  <2>1. CASE x = bno[c]
    BY <1>2, <2>1, NextContentsAre
  <2>2. CASE x # bno[c] /\ \E d \in Buf : bno[d] = x
    <3>1. PICK d \in Buf : bno[d] = x /\ d # c
      BY <2>2
    <3>2. CASE valid[d]
      <4>1. Contents[x] = data[d]
        BY <3>1, <3>2, ContentsAre
      <4>2. Contents'[x] = data'[d]
        BY <3>1, <3>2, NextContentsAre
      <4> QED
        BY <2>2, <3>1, <4>1, <4>2
    <3>3. CASE ~valid[d]
      <4>1. Contents[x] = disk[x]
        BY <3>1, <3>3, ContentsAre
      <4>2. Contents'[x] = disk[x]
        BY <3>1, <3>3, NextContentsAre
      <4> QED
        BY <2>2, <4>1, <4>2
    <3> QED
      BY <3>2, <3>3
  <2>3. CASE \A d \in Buf : bno[d] # x
    BY <2>3, ContentsAre, NextContentsAre
  <2> QED
    BY <2>1, <2>2, <2>3
<1>3. data' = data => Contents' = Contents
  BY DEF Contents, InCache
<1>4. /\ Owner = [x \in Block |-> Owner[x]] /\ Owner' = [x \in Block |-> Owner'[x]]
      /\ Contents = [x \in Block |-> Contents[x]] /\ Contents' = [x \in Block |-> Contents'[x]]
  BY DEF Owner, Contents
<1>5. Owner' = [Owner EXCEPT ![bno[c]] = lock'[c]]
  BY <1>1, <1>4
<1>6. valid[c] => Contents' = [Contents EXCEPT ![bno[c]] = data'[c]]
  BY <1>2, <1>4
<1> QED
  BY <1>3, <1>5, <1>6

\* acquiresleep and brelse give the block to a client and back, a client that
\* has it may change it, and the disk's answer to a write makes it durable.
LEMMA TakeStep ==
  ASSUME IInv, IInv', NEW p \in Client, AcquireSleep(p)
  PROVE  Abstract!Take(p, at[p]) /\ at[p] \in Block
<1>1. mine[p] \in Buf /\ at[p] \in Block /\ bno[mine[p]] = at[p] /\ lock[mine[p]] = None
  BY MineIs DEF IInv, AcquireSleep
<1>2. lock' = [lock EXCEPT ![mine[p]] = p] /\ UNCHANGED <<bno, valid, data, disk>>
  BY DEF AcquireSleep, cache, flags, driver
<1>3. lock \in [Buf -> Client \cup {None}]
  BY DEF IInv, BaseInv, LockInv
<1>4. lock'[mine[p]] = p /\ \A d \in Buf : d # mine[p] => data'[d] = data[d] /\ lock'[d] = lock[d]
  BY <1>1, <1>2, <1>3
<1>5. Owner[at[p]] = None
  BY <1>1, OwnersAre DEF IInv, BaseInv, RefInv
<1>6. Owner' = [Owner EXCEPT ![at[p]] = p] /\ Contents' = Contents
  BY <1>1, <1>2, <1>4, OneBlockChanges
<1> QED
  BY <1>1, <1>2, <1>5, <1>6 DEF Abstract!Take, Contents, Owner

LEMMA GiveStep ==
  ASSUME IInv, IInv', NEW p \in Client, ReleaseSleep(p)
  PROVE  Abstract!Give(at[p]) /\ at[p] \in Block
<1>1. /\ mine[p] \in Buf /\ at[p] \in Block /\ bno[mine[p]] = at[p]
      /\ Owner[at[p]] # None
  BY UsedIs DEF Using, ReleaseSleep
<1>2. lock' = [lock EXCEPT ![mine[p]] = None] /\ UNCHANGED <<bno, valid, data, disk>>
  BY DEF ReleaseSleep, cache, flags, driver
<1>3. lock \in [Buf -> Client \cup {None}]
  BY DEF IInv, BaseInv, LockInv
<1>4. lock'[mine[p]] = None /\ \A d \in Buf : d # mine[p] => data'[d] = data[d] /\ lock'[d] = lock[d]
  BY <1>1, <1>2, <1>3
<1>5. Owner' = [Owner EXCEPT ![at[p]] = None] /\ Contents' = Contents
  BY <1>1, <1>2, <1>4, OneBlockChanges
<1> QED
  BY <1>1, <1>2, <1>5 DEF Abstract!Give, Contents, Owner

LEMMA ChangeStep ==
  ASSUME IInv, IInv', NEW p \in Client, NEW v \in Value, Modify(p, v)
  PROVE  Abstract!Change(at[p], v) /\ at[p] \in Block
<1>1. /\ mine[p] \in Buf /\ at[p] \in Block /\ bno[mine[p]] = at[p]
      /\ Owner[at[p]] # None
  BY UsedIs DEF Using, Modify
<1>2. data' = [data EXCEPT ![mine[p]] = v] /\ UNCHANGED <<bno, valid, lock, disk>>
  BY DEF Modify, cache, flags, driver
<1>3. data \in [Buf -> Value \cup {None}] /\ valid[mine[p]]
  BY DEF IInv, Flags, Modify
<1>4. data'[mine[p]] = v /\ \A d \in Buf : d # mine[p] => data'[d] = data[d] /\ lock'[d] = lock[d]
  BY <1>1, <1>2, <1>3
<1>5. Contents' = [Contents EXCEPT ![at[p]] = v]
  BY <1>1, <1>2, <1>3, <1>4, OneBlockChanges
<1>6. Owner' = Owner
  BY <1>2 DEF Owner, Locked
<1> QED
  BY <1>1, <1>2, <1>5, <1>6 DEF Abstract!Change, Contents, Owner

LEMMA SyncStep ==
  ASSUME IInv, DiskDone, req.write
  PROVE  Abstract!Sync(req.block) /\ req.block \in Block
<1>1. UNCHANGED <<bno, valid, data, lock>> /\ req # None
  BY DEF DiskDone, cache, flags
<1>2. PICK c \in Buf : c = idequeue[1]
  BY <1>1, QueueIs DEF IInv
<1>3. /\ req \in Request /\ req.block = bno[c] /\ dirty[c] /\ req.data = data[c] /\ Waits(c)
  BY <1>1, <1>2, QueueIs DEF IInv, Queue
<1>4. bno[c] \in Block /\ valid[c]
  BY <1>3 DEF Request, IInv, Flags
<1>5. Contents[bno[c]] = data[c] /\ Owner[bno[c]] # None
  BY <1>3, <1>4, ContentsAre, OwnersAre DEF IInv, BaseInv, RefInv, Waits
<1>6. disk' = [disk EXCEPT ![bno[c]] = Contents[bno[c]]]
  BY <1>3, <1>5 DEF DiskDone
<1>7. \A x \in Block : InCache(x) = {} => x # bno[c]
  BY <1>4 DEF InCache
<1>8. Contents' = Contents
  <2>1. \A x \in Block : InCache(x) = {} => disk'[x] = disk[x]
    BY <1>6, <1>7 DEF IInv, Flags
  <2>2. \A x \in Block : InCache(x)' = InCache(x)
    BY <1>1 DEF InCache
  <2>3. ASSUME NEW x \in Block PROVE Contents'[x] = Contents[x]
    <3>1. CASE InCache(x) = {}
      BY <2>1, <2>2, <3>1 DEF Contents
    <3>2. CASE InCache(x) # {}
      <4>1. InCache(x)' = InCache(x)
        BY <2>2
      <4>2. Contents[x] = data[CHOOSE d \in InCache(x) : TRUE]
        BY <3>2 DEF Contents
      <4>3. Contents'[x] = data'[CHOOSE d \in InCache(x)' : TRUE]
        BY <3>2, <4>1 DEF Contents
      <4> QED
        BY <1>1, <4>1, <4>2, <4>3
    <3> QED
      BY <3>1, <3>2
  <2> QED
    BY <2>3 DEF Contents
<1>9. Owner' = Owner
  BY <1>1 DEF Owner, Locked
<1> QED
  BY <1>3, <1>4, <1>5, <1>6, <1>8, <1>9 DEF Abstract!Sync, Contents, Owner

LEMMA CrashStep ==
  ASSUME IInv, Crash
  PROVE  Abstract!Crash
<1> USE BufferCacheAssumption DEF BufferCacheAssumption
<1>1. disk' = disk /\ bno' = [c \in Buf |-> None] /\ disk \in [Block -> Value]
  BY DEF Crash, IInv, Flags
<1>2. \A x \in Block : InCache(x)' = {} /\ Locked(x)' = {}
  BY <1>1 DEF InCache, Locked
<1>3. Contents' = disk /\ Owner' = [b \in Block |-> None]
  BY <1>1, <1>2 DEF Contents, Owner
<1> QED
  BY <1>1, <1>3 DEF Abstract!Crash, Contents, Owner

\* Cache and driver implement the store of blocks: what a client finds is what
\* was put there last, evicted and read again or not, and a write reaches the
\* disk in one step.
THEOREM Implementation == Spec => ImplementsBlockStore
<1> USE BufferCacheAssumption DEF BufferCacheAssumption
<1>1. Init => Abstract!Init
  <2> SUFFICES ASSUME Init PROVE Abstract!Init
    OBVIOUS
  <2>1. \A x \in Block : InCache(x) = {} /\ Locked(x) = {}
    BY DEF Init, InCache, Locked
  <2>2. Contents = Initial /\ Owner = [b \in Block |-> None]
    BY <2>1 DEF Init, Contents, Owner
  <2> QED
    BY <2>2 DEF Init, Abstract!Init, Contents, Owner
<1>2. IInv /\ IInv' /\ [Next]_vars => [Abstract!Next]_<<Contents, disk, Owner>>
  <2> SUFFICES ASSUME IInv, IInv', [Next]_vars
               PROVE  Abstract!Next \/ UNCHANGED <<Contents, disk, Owner>>
    OBVIOUS
  <2>1. ASSUME NEW p \in Client, Uses(p)
        PROVE  Abstract!Next \/ UNCHANGED <<Contents, disk, Owner>>
    <3>1. ASSUME NEW b \in Block, Hit(p, b)
          PROVE  UNCHANGED <<Contents, disk, Owner>>
      BY <3>1, Invisible DEF Hit, flags, driver
    <3>2. ASSUME NEW b \in Block, Recycle(p, b)
          PROVE  UNCHANGED <<Contents, disk, Owner>>
      BY <3>2, RecycleHides
    <3>3. CASE AcquireSleep(p)
      BY <3>3, TakeStep DEF Abstract!Next
    <3>4. ASSUME NEW v \in Value, Modify(p, v)
          PROVE  Abstract!Next
      BY <3>4, ChangeStep DEF Abstract!Next
    <3>5. CASE Bwrite(p) \/ LogWrite(p) \/ Brelse(p)
      BY <3>5, Invisible DEF Bwrite, LogWrite, Brelse, cache, flags, driver
    <3>6. CASE ReleaseSleep(p)
      BY <3>6, GiveStep DEF Abstract!Next
    <3>7. ASSUME NEW b \in Block, NoBuffers(p, b)
          PROVE  UNCHANGED <<Contents, disk, Owner>>
      BY <3>7, Invisible DEF NoBuffers, cache, flags, driver
    <3> QED
      BY <2>1, <3>1, <3>2, <3>3, <3>4, <3>5, <3>6, <3>7 DEF Uses
  <2>2. ASSUME NEW p \in Client, Iderw(p) \/ Kill(p) \/ Retest(p)
        PROVE  UNCHANGED <<Contents, disk, Owner>>
    BY <2>2, Invisible DEF Iderw, Kill, Retest, cache, flags, driver
  <2>3. CASE DiskDone
    <3>1. CASE req.write
      BY <2>3, <3>1, SyncStep DEF Abstract!Next
    <3>2. CASE ~req.write
      BY <2>3, <3>2, Invisible DEF DiskDone, cache, flags
    <3> QED
      BY <3>1, <3>2
  <2>4. CASE Ideintr
    BY <2>4, IdeintrHides
  <2>5. CASE Crash
    BY <2>5, CrashStep DEF Abstract!Next
  <2>6. CASE UNCHANGED vars
    BY <2>6, Invisible DEF vars
  <2> QED
    BY <2>1, <2>2, <2>3, <2>4, <2>5, <2>6 DEF Next
<1>3. [Abstract!Next]_<<Contents, disk, Owner>> =>
        [Abstract!Next]_<<[b \in Block |-> IF InCache(b) = {} THEN disk[b] ELSE data[CHOOSE c \in InCache(b) : TRUE]], disk,
                          [b \in Block |-> IF Locked(b) = {} THEN None ELSE lock[CHOOSE c \in Locked(b) : TRUE]]>>
  BY DEF Contents, Owner
<1> QED
  BY <1>1, <1>2, <1>3, Invariant, PTL DEF Spec, ImplementsBlockStore, Abstract!Spec
=============================================================================
