# TLA+ models of the operating system course projects

The repository collects six projects of an operating systems course. Four are
copies of the teaching kernel xv6, each changed by one lab (warm-up, system
calls, scheduling, locks); two are user-space exercises in concurrency (traffic
monitors, sockets) and one in process creation (an ensemble of classifiers).
This directory specifies the parts whose correctness depends on the order in
which things happen, checks them with TLC on small instances, and proves what
TLAPS can prove for instances of every size.

The kernel modules model the copy in `src/OS-lab-xv6-lock`, the newest one; the
files they translate are the same in the other copies except for the labs' own
changes (`spinlock.c` with its reentrant `acquire`, `proc.c` with `barrier`).
`LabScheduler` models the scheduler of `src/OS-lab-xv6-scheduling`. File names below
are relative to the lock lab's directory unless they say otherwise.

## 1. The system

| Part | State | Operations | Interacts with | What makes it correct |
|---|---|---|---|---|
| Spin locks, `spinlock.c` | `locked`, `cpu`, `pid` of each lock; `ncli`, `intena` and the interrupt flag of each CPU | `acquire`, `release`, `holding`, `pushcli`, `popcli` | everything; interrupt handlers on the same CPU | one owner; interrupts off while a lock is held and on again afterwards; no CPU waits for itself |
| Processes, `proc.c` | process table, `c->proc`, `nextpid`, `ptable.lock` | `fork`, `exit`, `wait`, `kill`, `sleep`, `wakeup`, `yield`, `scheduler`, `sched` | the timer (`trap.c`), `sys_sleep` (`sysproc.c`), the program `init` (`init.c`) | a process runs on one CPU and on a stack of its own; no exit, tick or kill is slept through; orphans have a parent; everybody runs and leaves in the end |
| Barrier, `proc.c:559-594` | `waitCount`, `countLock`, `sl` | `barrier`, `init_barrier` | `sleep`, `wakeup`, preemption | nobody passes before all have arrived; nobody is left behind |
| Sleep locks, `sleeplock.c` | `locked`, `pid`, the inner spin lock | `acquiresleep`, `releasesleep`, `holdingsleep` | `sleep`, `wakeup`, `kill`; used by buffers and inodes | one owner; no lost wakeup |
| Log, `log.c` | header and blocks in memory and on disk; `outstanding`, `committing` | `begin_op`, `log_write`, `end_op`, `commit`, `recover_from_log` | buffer cache, disk, crashes | whole transactions survive a crash; the log never overflows |
| Pipes, `pipe.c` | ring buffer, counters, open ends | `pipewrite`, `piperead`, `pipeclose` | `sleep`, `wakeup`, `kill`, `exit` | bytes in order, each once; the end of file is final; the page is freed once |
| Buffer cache and disk, `bio.c`, `ide.c` | LRU list, `refcnt`, flags, request queue | `bget`, `bread`, `bwrite`, `brelse`, `iderw`, `ideintr` | sleep locks, the log, the disk's interrupt | one buffer for a block, not recycled while somebody or the log needs it; every request is answered |
| Files and inodes, `fs.c`, `file.c`, `sysfile.c` | inode cache, file table, inodes and directories on disk | `iget`, `ilock`, `iput`, `namex`, `open`, `mkdir`, `link`, `unlink`, `close` | log, buffer cache, pipes | a named or open file stays; references are counted; the cache tells the truth; no name without an inode, also after a crash |
| Console, `console.c` | input ring | `consoleintr`, `consoleread`, line editing | keyboard interrupt, `sleep` | lines reach readers whole |
| Memory, `kalloc.c`, `vm.c`; `exec.c` | free list, page tables | `kalloc`, `kfree`, `allocuvm`, `copyuvm` | processes | a page has one owner |
| Traps, `trap.c`, `syscall.c` | `ticks` | dispatch, timer tick | everything | killed processes leave |
| Scheduling lab, `../OS-lab-xv6-scheduling/proc.c` | level, tickets, priority, cycles of each process; `ticks` as the seed | `scheduler`, `getTotal`, `generate_random`, `set_tickets`, `set_priority`, `change_queue`, the draw in `allocproc` | process table, timer | the draw ends and names somebody; each level is served as far as the code promises |
| System call lab, `../Os-lab-xv6-system-call` | `PATH` | `set`, `get_children`, `count_num_of_digits`, `set_sleep` | `exec` | the values returned |
| Monitors, `../OS-monitoring` | semaphores, total emission | `Monitor::moveInPath`, `wait`, `signal` | threads | one car on a road; every car arrives |
| Sockets, `../OS-socket-programming` | `client_socket`, the connections, heartbeat socket | server's select loop, client's commands | network, `alarm` | an answer goes to who asked; whoever is in the table is read; an entry comes free |
| Ensemble, `../OS-ensemble-classifier` | weights, result files | start classifiers, vote | `fork`, `pipe`, `wait` | the vote is a majority |
| Boot, drivers, user programs | | | | run once, or hardware |

The parts meet in three ways. Locks are shared state: every part of the kernel
is a set of critical sections under spin locks, and `swtch` carries one of them,
`ptable.lock`, from a process to the scheduler and on to another process.
`sleep` and `wakeup` connect the parts that wait (processes in `wait`, pipes,
the log, sleep locks, the disk, the console) with those that make progress.
Interrupts run on top of whatever a CPU is doing.

What is hard in it: two CPUs and a timer that preempts anywhere; flags (`killed`)
that are written under one lock and read under another; wakeups that carry no
memory; a slot of the process table, a buffer, an inode number or an entry of the
server's table that is reused; a lab change that lets a lock be taken several times
and released once; a draw that depends on a clock which stands still; crashes
between disk writes. The list of hazards in `PROJECT.json` names each place, with the properties that watch
it or the reason why none does yet.

## 2. The modules

| Module | Models | State and actions |
|---|---|---|
| `Mutex` | the promise of a lock | `owner`; `Take`, `Give` |
| `SpinLock` | `spinlock.c`, the lab's reentrance, interrupts | one action for each step of `acquire` and `release` that another CPU or a handler can see: the flag read in `pushcli`, `cli` and the counting, the two reads of `holding`, the exchange, the write of `cpu`, and so on back. Two contexts per CPU, a thread and a handler |
| `ProcTable` | `proc.c`, the timer of `trap.c`, `sys_sleep`, `init.c` | the fields of `struct proc` and `struct cpu`; one action per critical section of `ptable.lock`, with the sections that go through `swtch` cut at the switch (`Exit`, `Sched`, `SchedPick`, `YieldReturn`, ...) |
| `Barrier` | `barrier`, `init_barrier` | the two locks, the count, and one action per statement that is not under a single lock; any number of CPUs |
| `SleepLock` | `sleeplock.c` | the inner spin lock and `ptable.lock` as holders, `sleep` step by step |
| `Transactions` | the promise of the log | the durable and the current contents, the calls in progress |
| `Log` | `log.c` | the disk, the in-memory header, one action per disk write, crash and recovery |
| `Channel` | the promise of a pipe | the bytes under way |
| `Pipe` | `pipe.c` | the ring with its wrapping counters, one action per byte and per critical section, the test of `killed` apart from the `sleep` |
| `BlockStore` | the promise of cache and driver | the contents and the durable contents of blocks, each with one user |
| `BufferCache` | `bio.c`, `ide.c` | the fields of `struct buf`, the list, the queue and the command the disk has; one action per section of `bcache.lock` and of `idelock` and per operation on a buffer's sleep lock, the disk's answer, the interrupt, a kill and a crash |
| `FileStore` | the promise of the file calls | the files, names and open descriptors, and what of them is durable |
| `Inodes` | `fs.c` with `sysfile.c` and `fileclose` | the inodes and directories as the log has them and as of the last commit, the inode cache, the inodes' sleep locks, the variables `ip` and `dp` of each call; one action per stretch under an inode's lock, `iput` in its three steps, a crash |
| `LabScheduler` | the scheduling lab's `scheduler`, `allocproc`, `set_tickets`, `change_queue` | state, level and tickets of each slot, the clock, the draw and the pass under way; one action per stretch with `ptable.lock` |
| `Sockets` | `server.c`, `client.c` | the server's table, its round of `select`, each client, the messages under way in both directions; one action per `read`, `write` or round, crash and restart of the server |
| `SpinLock_proofs`, `ProcTable_proofs`, `SleepLock_proofs`, `Log_proofs`, `Pipe_proofs`, `BufferCache_proofs`, `Inodes_proofs`, `LabScheduler_proofs` | | the theorems of section 5 |

`Mutex` is implemented by both `SpinLock` and `SleepLock`, `Transactions` by
`Log`, `Channel` by `Pipe`, `BlockStore` by `BufferCache` and `FileStore` by `Inodes`; each
implementation is stated as `Abstract == INSTANCE ... WITH ...` in the detailed module and checked as a
property. The layers are separate on purpose: `SpinLock` shows that a critical
section is one, so the other modules treat a section under one lock as one step;
`ProcTable` and `SleepLock` show that `sleep` and `wakeup` are atomic for
whoever calls them under a lock, so `Barrier`, `Log`, `Pipe` and `BufferCache` treat
each as a step; `BufferCache` takes the mutex `SleepLock` implements for the lock of a
buffer, and shows that a `bwrite` is one step and that blocks keep their contents
in the cache, which is what `Log` sees of it. `Inodes` in turn takes the log for what
`Transactions` says (calls become durable together, when the last of them ends), and
an inode's lock for the mutex of `SleepLock`.

Definitions above an action, with the same parameters (`XchgAlwaysWins` above
`XchgWins`), are wrong variants of it. No behaviour uses them; `PROJECT.json`
names for each property a variant that breaks it, which shows that the property
depends on the code.

### Abstractions, by module

* `SpinLock`: clients take nested locks in the order `LockRank`, which the kernel
  keeps by convention; CPUs in `Careless` do not, and may release what they do
  not hold. A panic stops its CPU only (other CPUs stop when they next panic or
  print; nothing depends on it). The handler takes one lock at a time, as the
  timer's does. `recursionLock`'s five acquires are `MaxDepth` further ones.
* `ProcTable`: memory, files and names are not there. An exit of a killed process
  in `trap` runs with interrupts enabled in the model and disabled in the code,
  so the model has more behaviours. `sched`'s panic "interruptible" cannot be
  told apart from `NLocks` here; `SpinLock` covers interrupts. `ticks` does not
  wrap. `init` follows `init.c`; its shell is an ordinary process.
* `Barrier`: every process passes the same `number`, the size of the group, as
  `bar.c` does. A group member is not killed.
* `Log`: a buffer is its contents and its lock; a disk sector is written whole or
  not (`BSIZE` is a sector). A call writes at most `OpBlocks` blocks, which is
  not more than the `MAXOPBLOCKS` that `param.h:10` allows it.
* `BufferCache`: a client has one buffer at a time, so a process that holds several
  counts as several clients, and orders between its buffers are not there. A
  client changes the blocks in `Written` only, and writes or logs every change, as
  `log.c` and `fs.c` do. `MaxDirty` stands for the blocks that the log holds. Nothing
  says that there are buffers enough: when all are in use or dirty `bget` panics
  (`NoBuffers`), as the kernel may, whose `NBUF` equals its `LOGSIZE` and whose `NPROC` is
  64 (`param.h`). Whoever panics keeps `bcache.lock` for ever (`BcacheFree`). The disk
  answers every command and does not fail; its interrupt comes only after a command
  (`ideintr` without a request and the error bits that `idewait` tests are left out).
* `Pipe`: a call reads or writes 0 to `MaxN` bytes; a read of 0 bytes returns 0 and is
  no end of file. `kill` may hit any process at any step; a killed process makes no more
  calls, and closes its ends as `exit` does.
* `Inodes`: what files contain, and the blocks they have, are left out, and so are
  "." and ".." (but for the link that ".." is to the parent), the working directory,
  `mknod`, and files shared by `dup` and `fork`. Each process has one descriptor. The
  cache has an entry for every inode, so it is never full. `iput`'s truncation and the
  `valid = 0` after it are one step: `ialloc` may take the number in between in the code,
  but whoever then locks the inode waits for `iput`'s sleep lock.
* `LabScheduler`: response ratios and priorities order the processes of a level; here
  any of them may be chosen, so what is shown holds for every order. Sums and differences
  of tickets wrap as C's ints do here. A slot that a fork without memory gave up keeps
  its pid (`failed`), so `set_tickets` may still find it. The sum of the
  tickets and the draw are one step, as no process runs between them on one CPU
  (`NCPU` is 1 in the lab's `param.h`). Interrupts meet a pass once at most, because a
  pass is far shorter than a tick. Who is whose parent, and who sleeps on what, is
  `ProcTable`'s subject.
* `Sockets`: a message is shorter than one read. TCP keeps no borders, so one read may
  take several messages. `is_server_up` may answer either way at any time: heartbeats
  may be lost, may wait in the socket from before the server died, and the wait for
  one may be cut short by the client's own alarm. A `read` that fails (`server.c:188`) is left
  out. The upload of an empty file stops the server when it is read alone; together with
  the message behind it that message is taken for contents. The broadcasts between clients,
  which change nothing but `server_port`, are left out.

## 3. What is checked

Every passing run states a type invariant once and otherwise properties that
take several steps, mostly of several actors, to violate.

| Run | Instance | Properties and what they show |
|---|---|---|
| `spinlock` | 2 CPUs with a handler each, 3 locks (one reentrant, one taken by handlers, one nested inside), one careless CPU, fair | `NoPanic`: the unlocked reads of `holding` never mislead a careful CPU; `InterruptsRestored`: the lab's reentrant path keeps `pushcli` and `popcli` balanced although a lock is released once; `ImplementsMutex`; `LastLockFreed` (liveness) |
| `proc` | 3 slots, 2 CPUs, all calls, allocation may fail | `RunsOnItsStack`: a process is RUNNING exactly on the CPU that has it, and `wait` never frees the stack a zombie still runs on, nor forgets one; `NoLostWakeup`: no exit and no tick is slept through; `KilledSleepsForTick`: a killed process sleeps at most for a tick, never for a child, also one that the other CPU kills between `sys_sleep`'s test of `killed` and its sleep; `TypeOK` includes that `sched` never panics and that every child has a living parent; no deadlock |
| `proc_live` | 3 slots, 1 CPU, all calls, one tick to sleep for, fair | `RunnableRuns`; `KilledLeaves`, from user code or any call, also one killed in `sys_sleep` before its test of `killed` or asleep in it; `ZombiesReaped`: a zombie whose parent is `init`, also one that `init` inherits while it sleeps in `wait`, goes |
| `lab_scheduler` | 3 slots, 4-bit words, fair | `AllocReturns`: `allocproc` does not draw for ever with `ptable.lock` held; `LotteryServed`, `SrpfServed` (liveness); `TypeOK` includes that the `continue` which would keep `ptable.lock` over a pass is never taken; no deadlock |
| `sleeplock` | 4 processes, kills, fair | `NoLostWakeup`, `ImplementsMutex`, `FreeLockTaken` (liveness); `TypeOK` includes that `lk->lk` and `ptable.lock` are held exactly where the code holds them; no deadlock |
| `log` | 2 processes, 3 blocks, 2 contents, crashes anywhere | `ImplementsTransactions`: whole calls survive, in order; `NoLostWakeup`; `TypeOK` includes that nothing panics, that a block is logged once and that the reserved space is there (the log never fills here, so that `log_write`'s panic is out of reach is left to the theorem); no deadlock |
| `pipe` | 1 reader, 2 writers, calls of 0 to 3 bytes, buffer of 2, counters modulo 4, kills | `ImplementsChannel`; `NoLostWakeup`; `TypeOK` includes that an end of file is final and that the page is freed after its last use |
| `bufcache` | 3 clients, 2 buffers, 3 blocks of which one is written, 1 block kept by the log, kills, crashes, fair | `ImplementsBlockStore`: what is put into a block is found there, evicted or not, and a `bwrite` is one step; `StillMine`: no buffer is recycled between `bget`'s choice and the last use; `PanicsOnlyWhenFull`: `bget` panics only when the buffers in use and the blocks that the log keeps are all there are, so no buffer leaks; `RequestServed` (liveness, until a panic); `TypeOK` includes one buffer per block and `refcnt` as a count; no deadlock |
| `inodes` | 2 processes, 3 inodes, names `a` and `b`, 7 calls, crashes anywhere | `ImplementsFileStore`: a named or open file stays; `CacheTruthful`: no stale cache entry for a number that was freed and taken again; `RefsCounted`; `NamesLive`: no name without an inode and no inode with fewer links than names, also in what a crash goes back to; `LinksBalanced` (an action property): whatever way out a call takes, a link that was counted has a name or is taken back; `TypeOK` includes that `ilock` and `unlink` never panic and that no call ends with a lock |
| `sockets` | 3 clients, 2 entries, 1 file, 2 messages in a connection, crashes and restarts, fair | `AnswersOwnRequest`; `RequestsRead`, `SlotsFreed` (liveness); no deadlock |
| `inode_leak` | as `inodes`, without crashes | finding: `FreedWithLastReference` fails |
| `barrier` | 3 processes, 3 rounds, 2 CPUs | finding: `BarrierHolds` fails |

### Bounds, and why they are enough

* `spinlock`: a lock has two states and a waiter knows nothing of the number of
  the others, so two CPUs with two contexts each show every kind of conflict:
  thread against handler on one CPU, and either against another CPU. Three locks
  give nesting of a handler's lock inside a reentrant one. The theorems of
  section 5 remove the bounds.
* `proc`: init, a child and a grandchild fill three slots; a slot is reused, as
  `MaxPid` lets a second child be made in it. Two CPUs are what the Makefile starts.
  One tick (`MaxTicks`) is enough for a sleeper to be woken and for another to come
  late. Liveness is checked on one CPU (`proc_live`), where nobody else runs the
  process that was preempted. One CPU leaves a case out: `sys_sleep` tests `killed`
  and goes to sleep with interrupts off, so that only a second CPU can kill in
  between. `KilledLeaves` has every other kill of a sleeper; of this one `proc` shows
  on two CPUs that the process then sleeps for a tick only (`KilledSleepsForTick`) and
  that the tick wakes it (`NoLostWakeup`), after which it tests `killed` again as in
  `proc_live`. At its bound the clock stops but its interrupt still wakes. The
  grandchild is what `init` adopts.
* `lab_scheduler`: init and two others, of which one may fork while the other is on
  another level, make every combination of two occupied levels. What matters about
  the constants of `generate_random` (12345678 and 87654321, words of 32 bits, 60
  tickets) is their parity, which `MULT`, `ADD`, `WordSize` and `DrawnTickets` keep.
* `barrier`: two CPUs are what the Makefile starts, and the fewest on which a process
  can call `barrier` again while the last one is between its wakeup and its reset.
* `sleeplock`: four processes give an owner, a releaser, a sleeper and a waiter
  that is between its test and its sleep.
* `log`: `MAXOPBLOCKS = 3` and `LOGSIZE = 6` let two calls in and no third, and
  two calls together write more blocks than one may.
* `pipe`: the buffer fills and empties, and the counters wrap, within one call of
  `MaxN = 3` bytes. The system may stop for good when all ends are closed, or the
  last process is left asleep with nobody to write: deadlock is not an error there.
* `bufcache`: two buffers for three clients and three blocks: each miss evicts, clients
  meet on one block, on two, and in the disk's queue, and with a block that the log
  keeps or two others in use `bget` panics. One written block has all the states of a
  modified one; the others show that an eviction brings back the right block.
* `inodes`: the root, a directory in it and a file in that, are three inodes; all are
  used when a directory with a file is there, so numbers are freed and taken again.
  The calls are `mkdir a`, `create a/b`, `open b`, `unlink a`, `unlink b`, `unlink a/b` and
  `link a/b` to `b`: two names for one file, a directory removed while another call is
  on its way through it, and an unlink that finds the directory not empty. Two
  processes are enough for every step of one call to fall between two of another.
  The run allows deadlock because the code can deadlock here (section 4).
* `sockets`: with three clients and two entries one client may be forgotten, and two
  compete in one round; two messages in a connection are the fewest that a read can
  run together.
* Runs without deadlock checking are those whose clients may stop: a careless CPU
  panics, `init`'s pids run out, a barrier's group finishes, all ends of
  a pipe are closed, file calls wait for each other.

### Fairness

* `SpinLock`: a context in a call goes on, a handler returns, a holder releases
  in the end (weak fairness). Nothing is assumed about who wins the exchange:
  `LastLockFreed` needs only that holders go on.
* `ProcTable`: each CPU goes on with a trap or a switch (`GoesOn`), its scheduler gets the
  lock, its timer ticks (`Timer`), and the thread of each process makes its steps wherever
  it runs (`Thread`). All are strongly fair: they are disabled again and again, by
  preemption and by the other CPUs' critical sections, and the code gives them their
  chance because a time slice is longer than a step and `xchg` does not fail for ever.
  User programs owe nothing, except `init`, whose loop is
  in the repository.
* `BufferCache`: the disk answers, its interrupt is taken, a client inside `iderw` runs
  (weak).
* `SleepLock`: as above; `ptable.lock` and `lk->lk` reach whoever keeps trying.
* `LabScheduler`: the scheduler loops and the timer interrupts a running process
  (weak); it also interrupts an idle scheduler again and again (strong, since that
  needs a moment between two passes with interrupts enabled, which every pass has).
  Programs owe nothing. `init` is outside `Settable`: a program that lowers its tickets
  to nothing or moves it can make every draw miss.
* `Sockets`: only the server owes progress, while it is up and `select` has something
  for it (weak). Clients may stop anywhere.

## 4. What the checks found

**On two CPUs a process passes the barrier before the others have arrived**
(`proc.c:562`, run `barrier`). The first test of `waitCount` takes no lock, and the last
process resets the count only after its wakeup: a process that is woken meanwhile and
calls `barrier` again still reads the full count and returns at once.

**An inode can lose both its links and its references without being freed**
(`fs.c:349`, run `inode_leak`). `iput` promises to free an inode "if that was the last
reference and the inode has no links to it" (`fs.c:327`). It tests `nlink` and `ref`
under the locks, but lowers `ref` in a later section of `icache.lock`: of two processes
that drop the last two references together each sees `ref == 2`, and neither frees.

Limits of the code that the models show and no run reports, because no text of the
repository promises otherwise or because they are excluded by a named constant:

* `kill` compares pids without looking at the state, and free slots have pid 0: after
  `kill(0)` the next process made in such a slot is born killed (`proc.c:487`).
* The barrier loses wakeups, on one CPU too: between releasing `countLock` and taking `sl`
  a process can miss the wakeup of its round, and sleeps until a later round ends, or for
  ever (`proc.c:580`).
* `bget` panics when every buffer is in use or kept by the log (`bio.c:92`). `NBUF` is
  `LOGSIZE`, so only calls that write less than they reserve leave buffers over.
* A kill can be slept through in a pipe, because `killed` is tested under `p->lock`
  and set under `ptable.lock` (`pipe.c:107`); `sys_sleep` has the same window but sleeps
  at most to the next tick (`sysproc.c:70`). A writer killed with the pipe full returns
  without waking the readers (`pipe.c:86-89`, the exception in `Pipe!NoLostWakeup`).
* `init` exits, and the kernel panics, when its fork fails (`init.c:25`).
* `begin_op` reserves `LOGSIZE` blocks in a log whose header takes one of them
  (`log.c:132`, `log.c:218`), and `log_write` tests for a free place even when the block is
  in the log already. Only calls that write nearly every block they reserve could notice:
  two spare blocks for each call are enough (`Log_proofs!TypeCorrect`).
* `create` and `unlink` keep the inode locked while they drop the directory with
  `iput`, which locks the directory again if the entry is valid (`fs.c:334`,
  `sysfile.c:225`, `sysfile.c:279`): another call that has the directory and waits for
  that inode waits for ever, and so does the first.
* A link in a directory that was removed meanwhile goes with the directory, whose
  truncation does not lower the link count of what its names stood for (`fs.c:341`): `nlink`
  then is not the "Number of links to inode in file system" of `fs.h:33`, and the inode
  stays allocated (the exception `LosesNames` in `LinksBalanced`).
* `create` inside a directory that was removed meanwhile makes a file nobody can
  reach, and a `mkdir` there raises the link count of the removed directory; a file
  that is open and has no name is not freed after a crash; `link` of "." to itself waits
  for its own lock.
* Scheduling lab: the product in `generate_random` overflows from tick 167 on
  (`167 * 12345678 + 87654321 >= 2^31`), so draws are negative half of the time and
  then name the first LOTTERY process that is runnable; a draw out of an even total
  is odd, so otherwise a process of one ticket behind an odd number of others is
  never named; tickets of sleeping, dead and free slots are counted, so a draw may
  name nobody. HRRN starves behind LOTTERY, while SRPF only waits for HRRN.
  LOTTERY relies on the 10000 tickets that `exec` gives `init`: `allocproc` draws fewer than
  60, but negative ones as well, and without `init`'s a total may be negative or name
  nobody again and again. `set_tickets` and `change_queue` may be applied to `init`, after
  which LOTTERY can starve too.
* Sockets: a download that arrives in one read with an upload before it is taken for
  contents and never answered; a request for a file whose first line is empty is
  never answered; the upload of an empty file makes the server exit, unless the
  message behind it arrives in the same read; the thirty-first
  client is greeted and forgotten (`server.c:170`); a client started before the
  server writes to descriptor 0; a failed read obeys the old buffer again;
  `broadcasts` is never reset (`client.c:91`, `client.c:264`) and `server_port` points
  into a buffer that has gone (`client.c:44`, `client.c:137`).
* Traffic monitors: a condition's semaphore starts at 1 and its count is raised after
  the wait (`../OS-monitoring/Monitor.cpp:28`); no car ever waits on a condition.

## 5. What is proved

`SpinLock_proofs`, for any finite set of locks, any set of CPUs, any lock order,
pids and recursion depth, and any set of careless CPUs (`LockAssumption`):

* `Invariant`: `Spec => []IInv`. Mutual exclusion is not inductive: a release is
  harmless only if `holding` is right, `holding` is right because `lk->cpu` names
  the owner (`CpuIsOwner`), which stays true because a handler never finds the
  thread below it inside a lock (`HandlerAlone`), which follows from interrupts
  being off exactly when the depth is not zero, and the depth counts the locks
  (`NcliCountsLocks`, `FlagSaved`). `IInv` is the conjunction; one lemma per action
  shows that it is kept, and `CountStep` does the arithmetic of cardinalities once.
* From it: `TypeCorrect`, `Exclusive`, `LockedTruthful` (the word that `xchg` tests is
  set exactly while somebody owns the lock; no run lists it), `PushCliMatched`,
  `InterruptFlag`, `NeverSpinsForOwn`.
* `PoliteNeverPanic` strengthens `IInv` by what the careful CPUs' nesting implies.
* `Implementation`: every step is a step of `Mutex` or leaves its owner alone.

`ProcTable_proofs`, for any number of slots and CPUs, any subset of the system calls, and
any bounds on pids and ticks (`ProcAssumption`): `TypeCorrect`, `RunsOnOwnStack`,
`WakeupsAreNotLost` and `KilledSleepsShort`. The invariant is the conjunction of

* `Locks`: a CPU has `ptable.lock` exactly while it scans the table, is about to switch, or
  runs a process that comes out of `swtch` with it; the same for `tickslock`.
* `Running`: no two CPUs have the same process, and a process is RUNNING exactly on the CPU
  that has it, except between the change of its state and `swtch`. That is
  `RunsOnItsStack` but for the lock: `wait` frees the stack of a ZOMBIE under
  `ptable.lock`, which the CPU that still runs on that stack has.
* `Points`: a process that does not run stands where `swtch` may return to.
* `Forking`: a slot that `fork` works on is EMBRYO, one process's, and nobody's child before
  it has a stack and memory.
* `Families`: whoever exists has a stack and, except `init`, a living parent, so that `exit`
  always finds `init` to adopt.
* `Exits` and `Sleepers`: no process sleeps in `wait` with a zombie child, none sleeps for a
  tick that has come, unless the `wakeup` of that tick is still to run.

`SleepLock_proofs`, for any set of processes: `Invariant`, `TypeCorrect`, `OwnerAlwaysKnows`,
`WakeupsAreNotLost` and `Implementation`. `NoLostWakeup` needs `Announced`: a process
counts as asleep from the moment it takes `ptable.lock`, since no wakeup can come in
between.

The second part of `SleepLock_proofs` is about `BarrierSpec` of `Barrier`, whose
processes (`Group`) and places in the code (`at`) have names of their own there, so that
one module can extend both:

* `BarrierCounts`, for any finite group, any argument and number of calls and any number of
  CPUs (`BarrierAssumption`, a hypothesis of each theorem about the barrier): the count is that of the
  processes counted since the last reset, and it reaches `number` only under `countLock`.
  The invariant `BInv` rests on `CountedOnce`: a process that is counted leaves the barrier
  only when the count is complete, and then the unlocked test of `waitCount` lets it pass
  again instead of counting it twice.
* `RoundsAreFull` (`RoundIsFull`), under the same: a process that was counted is woken or
  returns only when `number` processes have been counted in its round. That a process which
  was not counted may return is what the run `barrier` finds (section 4).

`Log_proofs`, for any processes, any finite set of blocks, any contents, any log size and
reservation (`LogAssumption`), with crashes at every step: `WakeupsAreNotLost`,
`Implementation`, the refinement of `Transactions`, and `TypeCorrect`, whose hypothesis
`Roomy` says that a call writes at least two blocks less than `MAXOPBLOCKS` and that the
log on the disk has `LOGSIZE` blocks. The invariant is `IInv`:

* `Counting`: one process commits, and no call is under way beside it.
* `Space`: what the log holds and what is reserved fit `LOGSIZE`, apart from what the calls
  under way have used. `Rows` counts the pairs of a call and a block it has written, so
  `RoomIsLeft` bounds the log, and `log_write` finds a place for the block it records.
* `Durability`: what each phase leaves on the disk. Outside a commit the header is empty
  and every block is at home, in the log or about to be; `write_log` has copied a part of
  the log, and from `write_head` on the log is what memory has. `Booting` says the same of
  a recovery.

With `Durability` each step is a lemma about the function `Disk`, what a reboot finds:
`DiskCommits` for the header's write, `DiskInstalls` and `DiskAtHome` for the steps after it
and for recovery, which do not show. The write of the header is the commit.

`BufferCache_proofs`, for any number of buffers, blocks and clients, with crashes and kills
(`BufferCacheAssumption`): `TypeCorrect`, `BufferStaysMine` (which is
`StillMine`), `BlocksHaveOneUser` (two clients between `bread` and `brelse` have different
blocks), `PanicsWhenFull` and `Implementation`, the refinement of `BlockStore`.
`EnoughBuffersSuffice` has the hypothesis that there is a buffer for every client besides
`MaxDirty`, which `param.h` does not give, and concludes that `bget` never panics. The
invariant has these parts:

* `BaseInv`: `refcnt` is the number of clients that have chosen the buffer (`CountsUsers`,
  with the cardinality theorems), so that `bget` recycles what nobody has, and a client
  between `acquiresleep` and `releasesleep` holds the lock. `Holders` is the converse.
* `Flags`: what `B_VALID` and `B_DIRTY` say of a buffer is true of it. An eviction does not
  show because a buffer that is not dirty has what the disk has.
* `Queue`: the queue has each buffer once, all of them of clients that `iderw` has put to
  sleep, and the disk's command is that of the first: so the interrupt completes
  what it took for complete.
* `Recency` and `Pins`: the list has every buffer, and no more than `MaxDirty` stay dirty.

`Inodes_proofs`, for any number of inodes, any finite sets of names and processes, any set
of calls and paths, with crashes at every step (`InodeAssumption`): `TypeCorrect` (with the
panics of `ilock` and `unlink`), `CacheStaysTruthful`, `ReferencesAreCounted`, `NamesStayLive` and
`Implementation`, the refinement of `FileStore`. None of the four invariants is inductive. An
inode may be freed when `iput` finds `nlink = 0` and `ref = 1`, and to see that nothing needs it
then one must know who has a reference and who counts on a link. `IInv` says

* `Shape`: in which phase a call uses `ip`, `dp` and the inode that its `iput` drops.
* `Locks`: the sleep locks are held exactly where the calls hold them, and a process never
  waits for one that it has.
* `RefsCounted`: a variable that names an inode is a reference, so `ref = 1` in `iput` means
  that no other process can come to that inode.
* `Cached`: a valid entry with references is what the disk has; what is locked is valid.
* `InUse`: what a call has in its variables exists, its directory is one, and the entry that
  `create` or `unlink` looked up stays while the directory is locked.
* `Trees`: an inode has at least one link for each of its names, each directory inside it,
  the root's own, and each call in progress that owes one (`Owes`: `link` has counted the link
  it has not yet written, `unlink` has removed the name but not yet the link). On the
  last commit the same holds without the calls, since the last `end_op` commits when no
  call is under way, so a crash goes back to such a tree.

A lookup that reaches an inode without a name can therefore only be one that has a reference
of its own; and an inode without links has no name, hence `itrunc` frees what nobody can
reach. Each way through a handler is one lemma, and they all have the same steps; the
lemmas about counting (`CountMoves`, `EntriesMove`, `KidsMove`, `OwesMove`) say what one changed
variable or entry does to a cardinality.

`Pipe_proofs`, for any numbers of readers and writers, any bytes, any size of the
buffer and any modulus of the counters that it divides (`PipeAssumption`; 512 and 2^32
in the kernel), with kills at every step: `TypeCorrect` (with the finality of an end of
file and the life of the page), `WakeupsAreNotLost` and `Implementation`, the refinement
of `Channel`. `NoLostWakeup` speaks of a free lock; its strengthening says what a process
in its critical section still owes to the sleepers (`ReadersSleep`, `WritersSleep`).
The refinement rests on the arithmetic of the counters: `PlaceWraps` (the place of a
byte does not change when its counter wraps), `PlacesDiffer` (bytes that are in the
buffer together have different places), and from them `PutAppends` and `GetTakes`, which
say what a step does to the sequence that the buffer stands for.

The second part of `Pipe_proofs` is about the connections of the file server
(`NetSpec` of `Sockets`), for any clients, table, files and room in a connection
(`SocketsAssumption`), with crashes and restarts: `AnswersAreOwn` (`AnswersOwnRequest`)
and `TableStaysTrue`. `AnswersOwnRequest` speaks of the answers only;
`NetInv` adds what is on the way to the server: a client's request is the last message of
its connection and not answered while it is there (`Requests`), a connection in the backlog
is there once and has been sent nothing (`Queued`), what `select` found is there when the
loop comes to it, so that a `read` of nothing means that the client is gone (`Found`), and
`client_socket` names each connection once, none that is closed and none that still waits
(`TableTrue`).

`LabScheduler_proofs`, for any table, word and clock (`LabAssumption`): `TypeCorrect` and
`AllocAlwaysReturns`. For the first the invariant says that the running process is the
CPU's (`OneRuns`) and at which points of a pass the lock is the scheduler's (`Pass`); that
every finite table has a sum at all is `SumIsInt`, by induction over the size of a set.
For the second: the product of a tick with an even factor, plus an odd summand, is odd;
wrapping to an even word and the remainder by an even number of tickets keep it odd, with
C's sign or without, so the draw is never 0.

Every safety property that a passing run checks is a theorem, except `LinksBalanced`. Only model-checked: all
liveness, because the prover has no rules for fairness and `ENABLED` here.

## 6. What is not modelled

The components with status `not_modelled` in `PROJECT.json`, with the reasons.

* The repository holds four copies of xv6. A file that the labs did not change is
  modelled once, in the lock lab's copy; the three other copies repeat it line for
  line (some 24500 of the 40000 lines) and are not mapped a second time.
* Boot code, assembly and hardware protocols (APIC, UART, the IDE ports, the disk in
  memory) have no behaviour that a model of this kind could tell anything about.
* User programs, `usertests.c` above all, and the C library are sequential.
* Page tables, `exec`, block allocation and the contents of files are sequential data
  structures that one process changes under one lock; the console is one reader and
  one interrupt handler under one lock.
* The system call lab, the line editing of the warm-up lab and the ensemble of
  classifiers are sequential code on one process's own data. The cars of the traffic
  lab hold one mutex for each road and one for the sum.

## 7. Plan

Done, in this order: `SpinLock`, `ProcTable`, `Barrier`, `SleepLock`, `Log`, `Pipe`, `BufferCache`,
`LabScheduler`, `Inodes`, `Sockets`, and the proofs of section 5.

Next, by importance:

1. `LinksBalanced` as a theorem.
2. `Inodes` with files shared by `dup` and `fork`, the working directory, and what each
   call writes at most, against `MAXOPBLOCKS` and `NBUF`.
3. `Console` with the editing of the warm-up lab.
