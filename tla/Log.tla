-------------------------------- MODULE Log --------------------------------
(***************************************************************************)
(* The write-ahead log of OS-lab-xv6-lock/log.c with the crashes it is     *)
(* there for.  File system calls of several processes share a transaction, *)
(* which the last of them commits; a crash may come between any two writes *)
(* of the disk, during recovery too.                                       *)
(*                                                                         *)
(* The buffer cache appears as what a process sees of it: the contents of  *)
(* each block, and the buffer lock, which is held from the modification of *)
(* a block until log_write returns.  bwrite is one step: iderw waits for   *)
(* the disk, and the disk writes a sector or does not.                     *)
(***************************************************************************)
EXTENDS Integers, Sequences, FiniteSets, Functions

CONSTANTS
  Block,        \* the blocks of the file system
  Value,        \* what a block may contain
  Blank,        \* the contents after mkfs
  Lost,         \* the contents of memory after a crash
  Proc,         \* the processes that make file system calls
  MAXOPBLOCKS,  \* what begin_op reserves for a call
  LOGSIZE,      \* how much it reserves altogether
  nlog,         \* the size of the log on the disk, header included
  OpBlocks,     \* the blocks a call really writes, at most
  Crashes       \* may the machine crash?

ASSUME LogAssumption ==
  /\ IsFiniteSet(Block) /\ IsFiniteSet(Proc)
  /\ Blank \in Value
  /\ MAXOPBLOCKS \in Nat /\ LOGSIZE \in Nat /\ nlog \in Nat
  /\ OpBlocks \in 0..MAXOPBLOCKS
  /\ Crashes \in BOOLEAN

VARIABLES
  home,         \* disk: the blocks at their places
  dlog,         \* disk: the blocks of the log
  dhead,        \* disk: the log's header, the block numbers it names
  mem,          \* the contents of the buffers
  lh,           \* log.lh
  outstanding,  \* log.outstanding
  committing,   \* log.committing
  tail,         \* the loop variable of write_log and install_trans
  boot,         \* how far initlog is: "read_head", "install", "clear", "up"
  pc,           \* where each process is
  buf,          \* the buffer that a process in log_write has locked
  wrote         \* the blocks its call has written

disk == <<home, dlog, dhead>>
logvars == <<lh, outstanding, committing>>
vars == <<home, dlog, dhead, mem, lh, outstanding, committing, tail, boot, pc, buf, wrote>>

Blocks(s) == {s[i] : i \in DOMAIN s}
Goto(p, there) == pc' = [pc EXCEPT ![p] = there]
At(p, here) == boot = "up" /\ pc[p] = here

\* mkfs has made an empty log and file system.
Init ==
  /\ home = [b \in Block |-> Blank]
  /\ dlog = [i \in 1..LOGSIZE |-> Blank]
  /\ dhead = <<>>
  /\ mem = [b \in Block |-> Lost]
  /\ lh = <<>>
  /\ outstanding = 0
  /\ committing = FALSE
  /\ tail = 1
  /\ boot = "read_head"
  /\ pc = [p \in Proc |-> "idle"]
  /\ buf = [p \in Proc |-> Lost]
  /\ wrote = [p \in Proc |-> {}]

-----------------------------------------------------------------------------
\* begin_op lets a call in when the log has room for all that is reserved.
ReserveOne == Len(lh) + MAXOPBLOCKS <= LOGSIZE

HasRoom == Len(lh) + (outstanding + 1) * MAXOPBLOCKS <= LOGSIZE

BeginOp(p) ==
  /\ At(p, "idle") \/ At(p, "woken")
  /\ ~committing
  /\ HasRoom
  /\ outstanding' = outstanding + 1
  /\ wrote' = [wrote EXCEPT ![p] = {}]
  /\ Goto(p, "op")
  /\ UNCHANGED <<disk, mem, lh, committing, tail, boot, buf>>

\* Otherwise it sleeps, and tests again when it is woken.
BeginOpSleeps(p) ==
  /\ At(p, "idle") \/ At(p, "woken")
  /\ committing \/ ~HasRoom
  /\ Goto(p, "asleep")
  /\ UNCHANGED <<disk, mem, logvars, tail, boot, buf, wrote>>

\* log_write's test of the space, before it takes log.lock.
Full == Len(lh) >= LOGSIZE \/ Len(lh) >= nlog - 1

\* A call changes the block in its buffer and enters log_write.
Modify(p, b, v) ==
  /\ At(p, "op")
  /\ b \in wrote[p] \/ Cardinality(wrote[p]) < OpBlocks
  /\ \A q \in Proc : buf[q] # b
  /\ mem' = [mem EXCEPT ![b] = v]
  /\ wrote' = [wrote EXCEPT ![p] = @ \cup {b}]
  /\ buf' = [buf EXCEPT ![p] = b]
  /\ Goto(p, IF Full \/ outstanding < 1 THEN "panic" ELSE "log_write")
  /\ UNCHANGED <<disk, logvars, tail, boot>>

\* Log absorption: a block that is in the log already takes no more space.
Recorded(b) == IF b \in Blocks(lh) THEN lh ELSE Append(lh, b)

LogWrite(p) ==
  /\ At(p, "log_write")
  /\ lh' = Recorded(buf[p])
  /\ buf' = [buf EXCEPT ![p] = Lost]
  /\ Goto(p, "op")
  /\ UNCHANGED <<disk, mem, outstanding, committing, tail, boot, wrote>>

\* A wakeup(&log) that is forgotten.
NoWakeup(p, there) == [pc EXCEPT ![p] = there]

\* wakeup(&log), and p goes on to "there".
WakeupLog(p, there) ==
  [q \in Proc |-> IF q = p THEN there ELSE IF pc[q] = "asleep" THEN "woken" ELSE pc[q]]

IsLastOp == outstanding = 1

\* end_op: the last call commits, any other makes room.
EndOp(p) ==
  /\ At(p, "op")
  /\ outstanding' = outstanding - 1
  /\ IF committing
     THEN Goto(p, "panic") /\ UNCHANGED <<committing, tail>>
     ELSE IF IsLastOp
     THEN committing' = TRUE /\ tail' = 1 /\ Goto(p, "write_log")
     ELSE pc' = WakeupLog(p, "idle") /\ UNCHANGED <<committing, tail>>
  /\ UNCHANGED <<disk, mem, lh, boot, buf, wrote>>

-----------------------------------------------------------------------------
\* commit: copy the blocks of the transaction to the log,
WriteLog(p) ==
  /\ At(p, "write_log")
  /\ tail <= Len(lh)
  /\ dlog' = [dlog EXCEPT ![tail] = mem[lh[tail]]]
  /\ tail' = tail + 1
  /\ UNCHANGED <<home, dhead, mem, logvars, boot, pc, buf, wrote>>

\* where a commit goes from write_log, when it installs before it writes the
\* header.
InstallFirst == "install"

AfterWriteLog == "write_head"

\* (a transaction that wrote nothing has nothing to commit)
LogWritten(p) ==
  /\ At(p, "write_log")
  /\ tail > Len(lh)
  /\ tail' = 1
  /\ Goto(p, IF lh = <<>> THEN "done" ELSE AfterWriteLog)
  /\ UNCHANGED <<disk, mem, logvars, boot, buf, wrote>>

\* write the header, which commits,
WriteHead(p) ==
  /\ At(p, "write_head")
  /\ dhead' = lh
  /\ Goto(p, "install")
  /\ UNCHANGED <<home, dlog, mem, logvars, tail, boot, buf, wrote>>

\* copy the blocks from the log to their places,
InstallTrans ==
  /\ tail <= Len(lh)
  /\ home' = [home EXCEPT ![lh[tail]] = dlog[tail]]
  /\ tail' = tail + 1
  /\ UNCHANGED <<dlog, dhead, lh, outstanding, committing>>

AllInstalled == tail > Len(lh)

Install(p) ==
  /\ At(p, "install")
  /\ InstallTrans
  /\ mem' = [mem EXCEPT ![lh[tail]] = dlog[tail]]
  /\ UNCHANGED <<boot, pc, buf, wrote>>

\* and clear the header.
Erase(p) ==
  /\ At(p, "install")
  /\ AllInstalled
  /\ lh' = <<>>
  /\ dhead' = <<>>
  /\ tail' = 1
  /\ Goto(p, "done")
  /\ UNCHANGED <<home, dlog, mem, outstanding, committing, boot, buf, wrote>>

CommitDone(p) ==
  /\ At(p, "done")
  /\ committing' = FALSE
  /\ pc' = WakeupLog(p, "idle")
  /\ UNCHANGED <<disk, mem, lh, outstanding, tail, boot, buf, wrote>>

-----------------------------------------------------------------------------
\* A crash leaves nothing but the disk.
Crash ==
  /\ Crashes
  /\ boot' = "read_head"
  /\ mem' = [b \in Block |-> Lost]
  /\ lh' = <<>>
  /\ outstanding' = 0
  /\ committing' = FALSE
  /\ tail' = 1
  /\ pc' = [p \in Proc |-> "idle"]
  /\ buf' = [p \in Proc |-> Lost]
  /\ wrote' = [p \in Proc |-> {}]
  /\ UNCHANGED disk

\* recover_from_log
ReadHead ==
  /\ boot = "read_head"
  /\ lh' = dhead
  /\ boot' = "install"
  /\ UNCHANGED <<disk, mem, outstanding, committing, tail, pc, buf, wrote>>

RecoverInstall ==
  /\ boot = "install"
  /\ InstallTrans
  /\ UNCHANGED <<mem, boot, pc, buf, wrote>>

\* The log is cleared; what is read from now on comes from the disk.
ClearLog ==
  /\ boot = "install"
  /\ AllInstalled
  /\ lh' = <<>>
  /\ dhead' = <<>>
  /\ tail' = 1
  /\ boot' = "up"
  /\ mem' = home
  /\ UNCHANGED <<home, dlog, outstanding, committing, pc, buf, wrote>>

Recover == ReadHead \/ RecoverInstall \/ ClearLog

Commits(p) ==
  WriteLog(p) \/ LogWritten(p) \/ WriteHead(p) \/ Install(p) \/ Erase(p) \/ CommitDone(p)

Next ==
  \/ \E p \in Proc :
       \/ BeginOp(p) \/ BeginOpSleeps(p) \/ LogWrite(p) \/ EndOp(p) \/ Commits(p)
       \/ \E b \in Block, v \in Value : Modify(p, b, v)
  \/ Recover
  \/ Crash

Spec == Init /\ [][Next]_vars

-----------------------------------------------------------------------------
\* Between begin_op and end_op.
InCall(p) == pc[p] \in {"op", "log_write", "panic"}

\* What the calls under way have used up of the blocks reserved for them.
Used == {u \in Proc \X Block : InCall(u[1]) /\ u[2] \in wrote[u[1]] \cap Blocks(lh)}

\* Each variable has its type.  The log fits the space it has on the disk: the
\* block after it belongs to the inodes; and a block has one place in it, or
\* the older version could be installed over the newer one.  "max # of blocks
\* any FS op writes": calls that stay below it never panic, neither for lack of
\* space nor because a commit is under way, as the log has room for all that
\* the calls under way have reserved, next to what it holds.
TypeOK ==
  /\ home \in [Block -> Value]
  /\ dlog \in [1..LOGSIZE -> Value]
  /\ dhead \in Seq(Block)
  /\ mem \in [Block -> Value \cup {Lost}]
  /\ lh \in Seq(Block) /\ Len(lh) <= LOGSIZE /\ Len(lh) <= nlog - 1
  /\ IsInjective(lh)
  /\ outstanding = Cardinality({p \in Proc : InCall(p)})
  /\ committing \in BOOLEAN
  /\ tail \in 1..LOGSIZE + 1
  /\ boot \in {"read_head", "install", "up"}
  /\ pc \in [Proc -> {"idle", "asleep", "woken", "op", "log_write", "write_log",
                      "write_head", "install", "done"}]
  /\ buf \in [Proc -> Block \cup {Lost}]
  /\ wrote \in [Proc -> SUBSET Block]
  /\ Len(lh) + outstanding * MAXOPBLOCKS - Cardinality(Used) <= LOGSIZE

\* What a reboot would find: the blocks at home, or as a committed log has it.
Durable ==
  [b \in Block |->
    IF b \in Blocks(dhead)
    THEN dlog[CHOOSE i \in DOMAIN dhead : dhead[i] = b]
    ELSE home[b]]

\* The log is a store of whole transactions, whenever the machine crashes.
Abstract == INSTANCE Transactions WITH
  durable <- Durable,
  current <- IF boot = "up" THEN mem ELSE Durable,
  active <- {p \in Proc : InCall(p)}
ImplementsTransactions == Abstract!Spec

\* Nobody sleeps in begin_op once it could begin: the end of each commit and
\* of each call that gives back its reservation wakes the sleepers.
NoLostWakeup == \A p \in Proc : pc[p] = "asleep" => committing \/ ~HasRoom
=============================================================================
