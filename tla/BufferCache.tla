----------------------------- MODULE BufferCache -----------------------------
(***************************************************************************)
(* The buffer cache and the disk driver of OS-lab-xv6-lock: bio.c and      *)
(* ide.c.  A buffer is found or recycled under bcache.lock, used under its *)
(* sleep lock, and read or written through a queue of requests that the    *)
(* disk's interrupt handler serves under idelock.                          *)
(*                                                                         *)
(* A step is what one of these spin locks makes atomic; the sleep lock of  *)
(* a buffer is the Mutex that SleepLock implements.  A client has one      *)
(* buffer at a time: a process that has several counts as several.         *)
(***************************************************************************)
EXTENDS Integers, Sequences, FiniteSets, SequencesExt

CONSTANTS
  Buf,       \* the buffers of bcache.buf
  Boot,      \* their order after binit
  Block,     \* the blocks of the disk
  Written,   \* those that the clients change
  Value,     \* what a block may contain
  Initial,   \* the contents of the disk at first
  Client,    \* who uses buffers
  MaxDirty,  \* the modified blocks that the log keeps in the cache, at most
  Crashes,   \* may the machine crash?
  None       \* no block, no buffer, no client, no request, no contents

\* A command of the disk: outb in idestart, and insl or outsl.
Request == [write : BOOLEAN, block : Block, data : Value \cup {None}, done : BOOLEAN]

ASSUME BufferCacheAssumption ==
  /\ IsFiniteSet(Client) /\ IsFiniteSet(Buf)
  /\ Boot \in [1..Cardinality(Buf) -> Buf] /\ ToSet(Boot) = Buf
  /\ Written \subseteq Block
  /\ Initial \in [Block -> Value]
  /\ None \notin Block \cup Buf \cup Client \cup Value \cup Request
  /\ MaxDirty \in Nat
  /\ Crashes \in BOOLEAN

VARIABLES
  list,      \* bcache.head's list, the most recently used buffer first
  bno,       \* b->blockno
  refcnt,    \* b->refcnt
  valid,     \* b->flags & B_VALID
  dirty,     \* b->flags & B_DIRTY
  data,      \* b->data
  lock,      \* the client that holds b->lock
  idequeue,  \* the requests, the active one first
  req,       \* the command that the disk has
  disk,      \* what the disk contains
  pc,        \* where each client is
  mine,      \* the buffer it has chosen
  at         \* the block it has asked for

cache == <<list, bno, refcnt>>
flags == <<valid, dirty>>
driver == <<idequeue, req, disk>>
vars == <<list, bno, refcnt, valid, dirty, data, lock, idequeue, req, disk, pc, mine, at>>

\* binit and ideinit.
Init ==
  /\ list = Boot
  /\ bno = [c \in Buf |-> None]
  /\ refcnt = [c \in Buf |-> 0]
  /\ valid = [c \in Buf |-> FALSE]
  /\ dirty = [c \in Buf |-> FALSE]
  /\ data = [c \in Buf |-> None]
  /\ lock = [c \in Buf |-> None]
  /\ idequeue = <<>>
  /\ req = None
  /\ pc = [p \in Client |-> "idle"]
  /\ mine = [p \in Client |-> None]
  /\ at = [p \in Client |-> None]
  /\ disk = Initial

Goto(p, there) == pc' = [pc EXCEPT ![p] = there]

-----------------------------------------------------------------------------
\* A search that misses a buffer whose block is still being read.
FilledOnly(c, b) == bno[c] = b /\ valid[c]

\* Is the block already cached?
Caches(c, b) == bno[c] = b

\* A recycling that looks at one of the two reasons to keep a buffer only.
EvenIfInUse(c) == ~dirty[c]
EvenIfDirty(c) == refcnt[c] = 0

\* refcnt counts the clients that have chosen the buffer; a dirty buffer is
\* in use though nobody has it, because the log has not committed it.
Unused(c) == refcnt[c] = 0 /\ ~dirty[c]

Chosen(p, c, b) ==
  /\ mine' = [mine EXCEPT ![p] = c]
  /\ at' = [at EXCEPT ![p] = b]
  /\ Goto(p, "acquire")

\* Whoever panics in bget keeps bcache.lock.
BcacheFree == \A p \in Client : pc[p] # "no_buffers"

\* bget finds the block, and lets go of bcache.lock before it has the buffer.
Hit(p, b) ==
  /\ pc[p] = "idle" /\ BcacheFree
  /\ \E c \in Buf :
       /\ Caches(c, b)
       /\ refcnt' = [refcnt EXCEPT ![c] = @ + 1]
       /\ Chosen(p, c, b)
  /\ UNCHANGED <<list, bno, flags, data, lock, driver>>

LeastRecent(c) ==
  \E i \in DOMAIN list :
    /\ list[i] = c
    /\ \A j \in DOMAIN list : j > i => ~Unused(list[j])

\* Not cached: the unused buffer at the end of the list is recycled.
Recycle(p, b) ==
  /\ pc[p] = "idle" /\ BcacheFree
  /\ \A c \in Buf : ~Caches(c, b)
  /\ \E c \in Buf :
       /\ Unused(c)
       /\ LeastRecent(c)
       /\ bno' = [bno EXCEPT ![c] = b]
       /\ valid' = [valid EXCEPT ![c] = FALSE]
       /\ dirty' = [dirty EXCEPT ![c] = FALSE]
       /\ refcnt' = [refcnt EXCEPT ![c] = 1]
       /\ Chosen(p, c, b)
  /\ UNCHANGED <<list, data, lock, driver>>

\* Every buffer is in use or dirty: panic("bget: no buffers").
NoBuffers(p, b) ==
  /\ pc[p] = "idle" /\ BcacheFree
  /\ \A c \in Buf : ~Caches(c, b) /\ ~Unused(c)
  /\ Goto(p, "no_buffers")
  /\ UNCHANGED <<cache, flags, data, lock, driver, mine, at>>

\* acquiresleep; bread reads the block if the buffer does not have it.
AcquireSleep(p) ==
  /\ pc[p] = "acquire"
  /\ lock[mine[p]] = None
  /\ lock' = [lock EXCEPT ![mine[p]] = p]
  /\ Goto(p, IF valid[mine[p]] THEN "owns" ELSE "iderw")
  /\ UNCHANGED <<cache, flags, data, driver, mine, at>>

\* A client changes the block, and will call bwrite or log_write.
Modify(p, v) ==
  /\ pc[p] = "owns"
  /\ at[p] \in Written
  /\ data' = [data EXCEPT ![mine[p]] = v]
  /\ Goto(p, "changed")
  /\ UNCHANGED <<cache, flags, lock, driver, mine, at>>

Bwrite(p) ==
  /\ pc[p] \in {"owns", "changed"}
  /\ at[p] \in Written
  /\ dirty' = [dirty EXCEPT ![mine[p]] = TRUE]
  /\ Goto(p, "iderw")
  /\ UNCHANGED <<cache, valid, data, lock, driver, mine, at>>

\* The buffers that stay dirty after whoever has them now is done.
Pinned == {c \in Buf : dirty[c]} \ {mine[p] : p \in {q \in Client : pc[q] \in {"iderw", "asleep", "woken"}}}

\* log_write keeps the block in the cache; begin_op bounds how many there are.
LogWrite(p) ==
  /\ pc[p] = "changed"
  /\ Cardinality(Pinned \cup {mine[p]}) <= MaxDirty
  /\ dirty' = [dirty EXCEPT ![mine[p]] = TRUE]
  /\ Goto(p, "owns")
  /\ UNCHANGED <<cache, valid, data, lock, driver, mine, at>>

\* brelse gives up the buffer's sleep lock first ...
ReleaseSleep(p) ==
  /\ pc[p] = "owns"
  /\ lock' = [lock EXCEPT ![mine[p]] = None]
  /\ Goto(p, "released")
  /\ UNCHANGED <<cache, flags, data, driver, mine, at>>

\* The list with buffer c in front.
InFront(c) == <<c>> \o RemoveAt(list, CHOOSE i \in DOMAIN list : list[i] = c)

KeepsReference(n) == n
DropsReference(n) == n - 1

\* ... and its reference next: the last one makes it the most recently used.
Brelse(p) ==
  /\ pc[p] = "released" /\ BcacheFree
  /\ refcnt' = [refcnt EXCEPT ![mine[p]] = DropsReference(@)]
  /\ list' = IF refcnt[mine[p]] = 1 THEN InFront(mine[p]) ELSE list
  /\ mine' = [mine EXCEPT ![p] = None]
  /\ at' = [at EXCEPT ![p] = None]
  /\ Goto(p, "idle")
  /\ UNCHANGED <<bno, flags, data, lock, driver>>

-----------------------------------------------------------------------------
\* idestart: the command for buffer c.
Command(c) == [write |-> dirty[c], block |-> bno[c], data |-> data[c], done |-> FALSE]

\* iderw's flags when there is nothing left to do.
InSync(c) == valid[c] /\ ~dirty[c]

\* iderw appends the request, starts the disk if it is the only one, and
\* sleeps.
Iderw(p) ==
  /\ pc[p] = "iderw"
  /\ idequeue' = Append(idequeue, mine[p])
  /\ req' = IF idequeue = <<>> THEN Command(mine[p]) ELSE req
  /\ Goto(p, IF lock[mine[p]] # p \/ InSync(mine[p]) THEN "panic" ELSE "asleep")
  /\ UNCHANGED <<cache, flags, data, lock, disk, mine, at>>

\* The disk carries out its command and raises an interrupt.
DiskDone ==
  /\ req # None /\ ~req.done
  /\ req' = [req EXCEPT !.done = TRUE, !.data = IF req.write THEN @ ELSE disk[req.block]]
  /\ disk' = IF req.write THEN [disk EXCEPT ![req.block] = req.data] ELSE disk
  /\ UNCHANGED <<cache, flags, data, lock, idequeue, pc, mine, at>>

\* An ideintr that leaves the rest of the queue to the next iderw.
StartLater(q) == None

StartNext(q) == IF q = <<>> THEN None ELSE Command(Head(q))

\* ideintr takes the first request off the queue, wakes who waits for it, and
\* starts the next one.
Ideintr ==
  /\ req # None /\ req.done
  /\ LET c == Head(idequeue) IN
       /\ data' = IF dirty[c] THEN data ELSE [data EXCEPT ![c] = req.data]
       /\ valid' = [valid EXCEPT ![c] = TRUE]
       /\ dirty' = [dirty EXCEPT ![c] = FALSE]
       /\ pc' = [p \in Client |-> IF pc[p] = "asleep" /\ mine[p] = c THEN "woken" ELSE pc[p]]
  /\ idequeue' = Tail(idequeue)
  /\ req' = StartNext(Tail(idequeue))
  /\ UNCHANGED <<cache, lock, disk, mine, at>>

\* kill() wakes a client before the disk has answered.
Kill(p) ==
  /\ pc[p] = "asleep"
  /\ Goto(p, "woken")
  /\ UNCHANGED <<cache, flags, data, lock, driver, mine, at>>

\* iderw tests the flags again.
Retest(p) ==
  /\ pc[p] = "woken"
  /\ Goto(p, IF InSync(mine[p]) THEN "owns" ELSE "asleep")
  /\ UNCHANGED <<cache, flags, data, lock, driver, mine, at>>

\* A crash leaves what is on the disk.
Crash ==
  /\ Crashes
  /\ list' = Boot
  /\ bno' = [c \in Buf |-> None]
  /\ refcnt' = [c \in Buf |-> 0]
  /\ valid' = [c \in Buf |-> FALSE]
  /\ dirty' = [c \in Buf |-> FALSE]
  /\ data' = [c \in Buf |-> None]
  /\ lock' = [c \in Buf |-> None]
  /\ idequeue' = <<>>
  /\ req' = None
  /\ pc' = [p \in Client |-> "idle"]
  /\ mine' = [p \in Client |-> None]
  /\ at' = [p \in Client |-> None]
  /\ UNCHANGED disk

Uses(p) ==
  \/ \E b \in Block : Hit(p, b) \/ Recycle(p, b) \/ NoBuffers(p, b)
  \/ AcquireSleep(p)
  \/ \E v \in Value : Modify(p, v)
  \/ Bwrite(p) \/ LogWrite(p) \/ ReleaseSleep(p) \/ Brelse(p)

Next ==
  \/ \E p \in Client : Uses(p) \/ Iderw(p) \/ Kill(p) \/ Retest(p)
  \/ DiskDone \/ Ideintr
  \/ Crash

Spec == Init /\ [][Next]_vars

\* The disk answers, its interrupts are taken, and the scheduler runs every
\* client; nobody is forced to ask for a block or to give it back.
Fairness ==
  /\ WF_vars(DiskDone) /\ WF_vars(Ideintr)
  /\ \A p \in Client : WF_vars(Iderw(p)) /\ WF_vars(Retest(p))

FairSpec == Spec /\ Fairness

-----------------------------------------------------------------------------
\* The cache is one: each block has one buffer at most, each buffer has one
\* place in the list and one in the queue of the disk, refcnt counts who has
\* chosen the buffer, and iderw is never called without need.
TypeOK ==
  /\ list \in [1..Cardinality(Buf) -> Buf] /\ ToSet(list) = Buf
  /\ bno \in [Buf -> Block \cup {None}]
  /\ \A c, d \in Buf : bno[c] = bno[d] => c = d \/ bno[c] = None
  /\ refcnt = [c \in Buf |-> Cardinality({p \in Client : mine[p] = c})]
  /\ valid \in [Buf -> BOOLEAN] /\ dirty \in [Buf -> BOOLEAN]
  /\ data \in [Buf -> Value \cup {None}]
  /\ lock \in [Buf -> Client \cup {None}]
  /\ idequeue \in Seq(Buf) /\ IsInjective(idequeue)
  /\ req \in Request \cup {None}
  /\ disk \in [Block -> Value]
  /\ pc \in [Client -> {"idle", "acquire", "iderw", "asleep", "woken", "owns", "changed", "released", "no_buffers"}]
  /\ mine \in [Client -> Buf \cup {None}]
  /\ at \in [Client -> Block \cup {None}]

\* While a client waits for the buffer that bget has found, without
\* bcache.lock, and as long as it has it, nobody recycles the buffer for
\* another block.
StillMine == \A p \in Client : pc[p] \notin {"idle", "no_buffers"} => bno[mine[p]] = at[p]

\* bget panics only when the blocks that the log keeps and the buffers that
\* clients have are all there are: no buffer leaks, whoever was killed, waited
\* for the disk or shared a buffer before.
WithBuffer == {p \in Client : mine[p] # None}
PanicsOnlyWhenFull ==
  (\E p \in Client : pc[p] = "no_buffers") =>
    Cardinality(Pinned) + Cardinality(WithBuffer) >= Cardinality(Buf)

\* A request that iderw has made is served, whatever kill() does (unless
\* bget has panicked, perhaps on the CPU that takes the disk's interrupts).
RequestServed ==
  \A p \in Client :
    pc[p] \in {"iderw", "asleep", "woken"} ~> pc[p] \in {"owns", "idle"} \/ ~BcacheFree

\* Cache and driver are a store of blocks: a client finds what was last put
\* into the block, evicted and read again or not; bwrite makes it durable, in
\* one step and with nothing else.
InCache(b) == {c \in Buf : bno[c] = b /\ valid[c]}
Locked(b) == {c \in Buf : bno[c] = b /\ lock[c] # None}
Abstract == INSTANCE BlockStore WITH
  contents <- [b \in Block |-> IF InCache(b) = {} THEN disk[b] ELSE data[CHOOSE c \in InCache(b) : TRUE]],
  durable <- disk,
  owner <- [b \in Block |-> IF Locked(b) = {} THEN None ELSE lock[CHOOSE c \in Locked(b) : TRUE]],
  Nobody <- None
ImplementsBlockStore == Abstract!Spec
=============================================================================
