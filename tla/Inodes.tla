------------------------------- MODULE Inodes -------------------------------
(***************************************************************************)
(* Inodes, directories and the calls that change them in OS-lab-xv6-lock:  *)
(* the inode cache with its reference counts and sleep locks, path lookup  *)
(* (fs.c), open, mkdir, link, unlink and close (sysfile.c, file.c).        *)
(*                                                                         *)
(* A stretch under an inode's sleep lock is one action, and so is one      *)
(* under icache.lock; a call waits, and others run, wherever it takes the  *)
(* sleep lock of another inode.  The log is what module Transactions says  *)
(* of it: the calls of a transaction become durable together, when the     *)
(* last of them ends.  What files contain is left out, and so are "." and  *)
(* "..", but for the link that ".." is to the parent.                      *)
(***************************************************************************)
EXTENDS Integers, Sequences, FiniteSets, FiniteSetsExt

CONSTANTS
  NInodes,   \* the inodes on the disk; number 1 is the root's
  Name,      \* names of directory entries
  Proc,      \* the processes, with one file descriptor each
  Nobody,    \* the holder of a free sleep lock
  Requests,  \* the calls they make, with their paths: sequences of names;
             \* link has a second one, new
  Crashes    \* may the machine crash?

ASSUME InodeAssumption ==
  /\ NInodes \in Nat \ {0}
  /\ IsFiniteSet(Name) /\ IsFiniteSet(Proc) /\ Nobody \notin Proc
  /\ Requests \subseteq
       [name : {"open", "create", "mkdir", "unlink"}, rest : Seq(Name) \ {<<>>}]
         \cup [name : {"link"}, rest : Seq(Name) \ {<<>>}, new : Seq(Name) \ {<<>>}]
  /\ Crashes \in BOOLEAN

ROOTINO == 1
Inum == 1..NInodes
NoInode == 0

VARIABLES
  disk,    \* the inodes and directories, as the log and the buffers have them
  saved,   \* the same at the last commit
  icache,  \* the inode cache, by inode number
  lock,    \* ip->lock
  pc,      \* where each process is
  call,    \* the call it is in, with what namex has left of its path
  ip, dp,  \* its variables of these names; dp is namex's ip as well
  put,     \* the inode that its iput drops ...
  then,    \* ... and where it goes on after that
  fd       \* the file it has open

data == <<disk, saved, lock>>
inodes == <<ip, dp>>
vars == <<data, icache, pc, call, inodes, put, then, fd>>

Empty == [n \in Name |-> NoInode]
NoCall == [name |-> "none"]
Fresh == [i \in Inum |-> [ref |-> IF i = ROOTINO THEN 1 ELSE 0,
                          valid |-> FALSE, type |-> "free", nlink |-> 0]]

Nowhere == [p \in Proc |-> NoInode]
InUser == [p \in Proc |-> "user"]

\* What mkfs and the boot leave: the root directory, referenced for good.
Init ==
  /\ disk = [type |-> [i \in Inum |-> IF i = ROOTINO THEN "dir" ELSE "free"],
             nlink |-> [i \in Inum |-> IF i = ROOTINO THEN 1 ELSE 0],
             dents |-> [i \in Inum |-> Empty]]
  /\ saved = disk
  /\ icache = Fresh /\ lock = [i \in Inum |-> Nobody]
  /\ pc = InUser /\ then = InUser
  /\ call = [p \in Proc |-> NoCall]
  /\ ip = Nowhere /\ dp = Nowhere /\ put = Nowhere /\ fd = Nowhere

-----------------------------------------------------------------------------
Panicked == \E p \in Proc : pc[p] = "no_inodes"
At(p, here) == pc[p] = here /\ ~Panicked
Goto(p, there) == pc' = [pc EXCEPT ![p] = there]

\* The cache after iget(i), and after ilock(i) has read what is not valid.
\* Each inode has an entry of its own here; one without references is empty.
Iget(c, i) ==
  IF c[i].ref > 0 THEN [c EXCEPT ![i].ref = @ + 1]
  ELSE [c EXCEPT ![i].ref = 1, ![i].valid = FALSE]
Read(c, i) ==
  IF c[i].valid THEN c
  ELSE [c EXCEPT ![i].valid = TRUE, ![i].type = disk.type[i], ![i].nlink = disk.nlink[i]]

\* iupdate(i): the disk with the type and the link count that c has.
Iupdate(d, c, i) == [d EXCEPT !.type[i] = c[i].type, !.nlink[i] = c[i].nlink]

AddLinks(c, i, n) == [c EXCEPT ![i].nlink = @ + n]

\* The inode that p locks next, and p with that lock.
Wanted(p) ==
  CASE pc[p] \in {"namex", "create", "link_new", "unlink"} -> dp[p]
    [] pc[p] \in {"create_new", "create_found", "open", "link_old", "link_bad", "unlink_ip"} -> ip[p]
    [] pc[p] = "user" -> fd[p]
    [] OTHER -> NoInode
Free(i) == lock[i] = Nobody
Typed(i) == icache[i].valid \/ disk.type[i] # "free"
Ilock(p, here) == At(p, here) /\ Wanted(p) # NoInode /\ Free(Wanted(p)) /\ Typed(Wanted(p))

\* The processes that have called begin_op and not end_op.
InOp == {p \in Proc : pc[p] # "user"}

Take(p, i) == lock' = [lock EXCEPT ![i] = p]
Pass(p, i, j) == lock' = [lock EXCEPT ![i] = Nobody, ![j] = p]
Forget(i) == UNCHANGED lock
Release(i) == lock' = [lock EXCEPT ![i] = Nobody]

\* iput of the inode that p has in its variable ip, dp or another, after
\* which p goes on there, or its call is over but for end_op.
Put(p, i, there) ==
  /\ put' = [put EXCEPT ![p] = i]
  /\ then' = [then EXCEPT ![p] = there]
  /\ Goto(p, "iput")
Over(p) == call' = [call EXCEPT ![p] = NoCall]
Continue(p, there) == IF there = "end" THEN Over(p) ELSE UNCHANGED call
PutIp(p, there) ==
  /\ Put(p, ip[p], there) /\ Continue(p, there)
  /\ ip' = [ip EXCEPT ![p] = NoInode] /\ UNCHANGED dp
PutDp(p, there) ==
  /\ Put(p, dp[p], there) /\ Continue(p, there)
  /\ dp' = [dp EXCEPT ![p] = NoInode] /\ UNCHANGED ip
NoPut == UNCHANGED <<put, then>>

-----------------------------------------------------------------------------
\* iput(), the lock taken: an inode without links is freed if this is its
\* only reference.  Wrong tests look at one of the two.
FreesIfUnlinked(i) == icache[i].valid /\ icache[i].nlink = 0
FreesIfUnreferenced(i) == icache[i].valid /\ icache[i].ref = 1
MustFree(i) == icache[i].valid /\ icache[i].nlink = 0 /\ icache[i].ref = 1

IputTest(p) ==
  /\ At(p, "iput") /\ Free(put[p])
  /\ IF MustFree(put[p])
     THEN Take(p, put[p]) /\ Goto(p, "itrunc")
     ELSE Goto(p, "drop") /\ UNCHANGED lock
  /\ UNCHANGED <<disk, saved, icache, call, inodes, put, then, fd>>

\* itrunc and the iupdate of the type; what is cached is no longer valid.
FreedStaysValid(c, i) == [c EXCEPT ![i].type = "free"]
Freed(c, i) == [c EXCEPT ![i].type = "free", ![i].valid = FALSE]

Itrunc(p) ==
  /\ At(p, "itrunc")
  /\ icache' = Freed(icache, put[p])
  /\ disk' = [disk EXCEPT !.type[put[p]] = "free", !.dents[put[p]] = Empty]
  /\ Release(put[p])
  /\ Goto(p, "drop")
  /\ UNCHANGED <<saved, call, inodes, put, then, fd>>

IputDrop(p) ==
  /\ At(p, "drop")
  /\ icache' = [icache EXCEPT ![put[p]].ref = @ - 1]
  /\ put' = [put EXCEPT ![p] = NoInode]
  /\ then' = [then EXCEPT ![p] = "user"]
  /\ Goto(p, then[p])
  /\ UNCHANGED <<data, call, inodes, fd>>

-----------------------------------------------------------------------------
\* Where a lookup leads, found or not: link makes two.
Second(p) == call[p].name = "link" /\ ip[p] # NoInode
WantsParent(p) == call[p].name \in {"create", "mkdir", "unlink"} \/ Second(p)
Found(p) ==
  CASE Second(p) -> "link_new"
    [] call[p].name = "link" /\ ~Second(p) -> "link_old"
    [] call[p].name = "mkdir" -> "create"
    [] OTHER -> call[p].name
NotFound(p) == IF Second(p) THEN "link_bad" ELSE "end"

\* A call: begin_op, and namex takes a reference to the root directory.
Begin(p) ==
  /\ At(p, "user")
  /\ \E r \in Requests :
       /\ r.name \in {"open", "create"} => fd[p] = NoInode
       /\ call' = [call EXCEPT ![p] = r]
  /\ icache' = Iget(icache, ROOTINO)
  /\ dp' = [dp EXCEPT ![p] = ROOTINO]
  /\ Goto(p, "namex")
  /\ UNCHANGED <<data, ip, put, then, fd>>

\* One round of namex: the parent is found, or the entry is missing, or the
\* next inode gets a reference before this one loses its own.
Namex(p) ==
  LET i == dp[p]
      c == Read(icache, i)
      path == call[p].rest
      next == disk.dents[i][Head(path)]
  IN
    /\ Ilock(p, "namex")
    /\ IF c[i].type = "dir" /\ WantsParent(p) /\ Len(path) = 1
       THEN icache' = c /\ Goto(p, Found(p)) /\ NoPut /\ UNCHANGED <<call, inodes>>
       ELSE IF c[i].type # "dir" \/ next = NoInode
       THEN icache' = c /\ PutDp(p, NotFound(p))
       ELSE /\ icache' = Iget(c, next)
            /\ call' = [call EXCEPT ![p].rest = Tail(@)]
            /\ IF Len(path) > 1
               THEN Put(p, i, "namex") /\ dp' = [dp EXCEPT ![p] = next] /\ UNCHANGED ip
               ELSE /\ Put(p, i, Found(p))
                    /\ dp' = [dp EXCEPT ![p] = NoInode] /\ ip' = [ip EXCEPT ![p] = next]
    /\ UNCHANGED <<data, fd>>

-----------------------------------------------------------------------------
\* The name that create, link and unlink look for in the directory, and what
\* it stands for there.
Entry(p) == Head(call[p].rest)
Existing(p) == disk.dents[dp[p]][Entry(p)]

\* create(): a new inode is marked on the disk and referenced before it is
\* locked; without a free one ialloc panics.
FreeInodes == {i \in Inum : disk.type[i] = "free"}
NewType(p) == IF call[p].name = "mkdir" THEN "dir" ELSE "file"

Create(p) ==
  LET c == Read(icache, dp[p]) IN
    /\ Ilock(p, "create")
    /\ \/ /\ Existing(p) # NoInode
          /\ icache' = Iget(c, Existing(p))
          /\ Put(p, dp[p], "create_found")
          /\ dp' = [dp EXCEPT ![p] = NoInode] /\ ip' = [ip EXCEPT ![p] = Existing(p)]
          /\ UNCHANGED <<disk, lock>>
       \/ /\ Existing(p) = NoInode /\ FreeInodes # {}
          /\ LET i == Min(FreeInodes) IN
               /\ disk' = [disk EXCEPT !.type[i] = NewType(p), !.nlink[i] = 0]
               /\ icache' = Iget(c, i)
               /\ ip' = [ip EXCEPT ![p] = i]
          /\ Take(p, dp[p])
          /\ Goto(p, "create_new")
          /\ NoPut /\ UNCHANGED dp
       \/ /\ Existing(p) = NoInode /\ FreeInodes = {}
          /\ Goto(p, "no_inodes")
          /\ NoPut /\ UNCHANGED <<disk, icache, lock, inodes>>
    /\ UNCHANGED <<saved, call, fd>>

\* With both locks: one link for the name, and one to the parent for "..".
CreateNew(p) ==
  LET i == ip[p]
      d == dp[p]
      named == AddLinks(Read(icache, i), i, 1)
      c == IF named[i].type = "dir" THEN AddLinks(named, d, 1) ELSE named
  IN
    /\ Ilock(p, "create_new")
    /\ icache' = c
    /\ disk' = [Iupdate(Iupdate(disk, c, i), c, d) EXCEPT !.dents[d][Entry(p)] = i]
    /\ Pass(p, d, i)
    /\ PutDp(p, "opened")
    /\ UNCHANGED <<saved, fd>>

\* A name that was there: open takes a file, mkdir nothing.
CreateFound(p) ==
  LET c == Read(icache, ip[p]) IN
    /\ Ilock(p, "create_found")
    /\ icache' = c
    /\ IF call[p].name = "create" /\ c[ip[p]].type = "file"
       THEN Take(p, ip[p]) /\ Goto(p, "opened") /\ NoPut /\ UNCHANGED <<call, inodes>>
       ELSE PutIp(p, "end") /\ UNCHANGED lock
    /\ UNCHANGED <<disk, saved, fd>>

\* open() without O_CREATE.
OpenFound(p) ==
  /\ Ilock(p, "open")
  /\ icache' = Read(icache, ip[p])
  /\ Take(p, ip[p])
  /\ Goto(p, "opened")
  /\ UNCHANGED <<disk, saved, call, inodes, put, then, fd>>

\* The file gets the reference, unless there is no file or no descriptor or
\* a directory is opened for writing; mkdir wants none.
Opened(p) ==
  /\ At(p, "opened")
  /\ Release(ip[p])
  /\ \/ /\ call[p].name # "mkdir"
        /\ fd' = [fd EXCEPT ![p] = ip[p]]
        /\ ip' = [ip EXCEPT ![p] = NoInode]
        /\ Goto(p, "end") /\ Over(p) /\ NoPut /\ UNCHANGED dp
     \/ PutIp(p, "end") /\ UNCHANGED fd
  /\ UNCHANGED <<disk, saved, icache>>

-----------------------------------------------------------------------------
\* link(): count the new link first ...
LinkOld(p) ==
  LET c == Read(icache, ip[p])
      linked == AddLinks(c, ip[p], 1)
  IN
    /\ Ilock(p, "link_old")
    /\ IF c[ip[p]].type = "dir"
       THEN icache' = c /\ PutIp(p, "end") /\ UNCHANGED disk
       ELSE /\ icache' = Iget(linked, ROOTINO)
            /\ disk' = Iupdate(disk, linked, ip[p])
            /\ dp' = [dp EXCEPT ![p] = ROOTINO]
            /\ call' = [call EXCEPT ![p].rest = call[p].new]
            /\ Goto(p, "namex") /\ NoPut /\ UNCHANGED ip
    /\ UNCHANGED <<saved, lock, fd>>

\* ... then write the entry, or find the name taken and drop what it stands
\* for with the directory locked.
LinkNew(p) ==
  LET c == Read(icache, dp[p]) IN
    /\ Ilock(p, "link_new")
    /\ IF Existing(p) = NoInode
       THEN /\ icache' = c
            /\ disk' = [disk EXCEPT !.dents[dp[p]][Entry(p)] = ip[p]]
            /\ PutDp(p, "linked")
            /\ UNCHANGED lock
       ELSE /\ icache' = Iget(c, Existing(p))
            /\ Take(p, dp[p])
            /\ Put(p, Existing(p), "link_exists")
            /\ UNCHANGED <<disk, call, inodes>>
    /\ UNCHANGED <<saved, fd>>

LinkExists(p) ==
  /\ At(p, "link_exists")
  /\ Release(dp[p])
  /\ PutDp(p, "link_bad")
  /\ UNCHANGED <<disk, saved, icache, fd>>

\* The link that was counted is not made.  A wrong one stays counted.
StaysCounted(c, i) == c
TakenBack(c, i) == AddLinks(c, i, -1)

LinkBad(p) ==
  LET c == TakenBack(Read(icache, ip[p]), ip[p]) IN
    /\ Ilock(p, "link_bad")
    /\ icache' = c
    /\ disk' = Iupdate(disk, c, ip[p])
    /\ PutIp(p, "end")
    /\ UNCHANGED <<saved, lock, fd>>

Linked(p) ==
  /\ At(p, "linked")
  /\ PutIp(p, "end")
  /\ UNCHANGED <<data, icache, fd>>

-----------------------------------------------------------------------------
\* unlink(): the directory is locked over the lookup and the lock of what is
\* found there.
Unlink(p) ==
  LET c == Read(icache, dp[p]) IN
    /\ Ilock(p, "unlink")
    /\ IF Existing(p) = NoInode
       THEN icache' = c /\ PutDp(p, "end") /\ UNCHANGED lock
       ELSE /\ icache' = Iget(c, Existing(p))
            /\ ip' = [ip EXCEPT ![p] = Existing(p)]
            /\ Take(p, dp[p])
            /\ Goto(p, "unlink_ip") /\ NoPut /\ UNCHANGED <<call, dp>>
    /\ UNCHANGED <<disk, saved, fd>>

IsDirEmpty(i) == disk.dents[i] = Empty

\* The entry goes, with the parent's link for "..", and the directory is
\* unlocked and dropped while the inode stays locked.
UnlinkIp(p) ==
  LET i == ip[p]
      d == dp[p]
      c == Read(icache, i)
      orphaned == IF c[i].type = "dir" THEN AddLinks(c, d, -1) ELSE c
  IN
    /\ Ilock(p, "unlink_ip")
    /\ IF c[i].type = "dir" /\ ~IsDirEmpty(i)
       THEN icache' = c /\ PutIp(p, "unlink_bad") /\ UNCHANGED <<disk, lock>>
       ELSE /\ c[i].nlink > 0
            /\ icache' = orphaned
            /\ disk' = [Iupdate(disk, orphaned, d) EXCEPT !.dents[d][Entry(p)] = NoInode]
            /\ Pass(p, d, i)
            /\ PutDp(p, "unlinked")
    /\ UNCHANGED <<saved, fd>>

\* A wrong one unlocks the directory and keeps the reference.
ForgetsDirectory(p) == Goto(p, "end") /\ Over(p) /\ NoPut /\ UNCHANGED inodes
DropsDirectory(p) == PutDp(p, "end")

UnlinkBad(p) ==
  /\ At(p, "unlink_bad")
  /\ Release(dp[p])
  /\ DropsDirectory(p)
  /\ UNCHANGED <<disk, saved, icache, fd>>

Unlinked(p) ==
  LET c == AddLinks(icache, ip[p], -1) IN
    /\ At(p, "unlinked")
    /\ icache' = c
    /\ disk' = Iupdate(disk, c, ip[p])
    /\ Release(ip[p])
    /\ PutIp(p, "end")
    /\ UNCHANGED <<saved, fd>>

-----------------------------------------------------------------------------
\* close(): the last fileclose drops the inode in a transaction of its own.
Close(p) ==
  /\ At(p, "user") /\ fd[p] # NoInode
  /\ fd' = [fd EXCEPT ![p] = NoInode]
  /\ Put(p, fd[p], "end")
  /\ UNCHANGED <<data, icache, call, inodes>>

\* fileread, filewrite and filestat lock the inode and leave it as it is.
FileIO(p) ==
  /\ Ilock(p, "user")
  /\ icache' = Read(icache, fd[p])
  /\ UNCHANGED <<data, pc, call, inodes, put, then, fd>>

\* end_op: the last call commits the transaction.
Commits(p) == InOp = {p}

EndOp(p) ==
  /\ At(p, "end")
  /\ saved' = IF Commits(p) THEN disk ELSE saved
  /\ Goto(p, "user")
  /\ UNCHANGED <<disk, lock, icache, call, inodes, put, then, fd>>

\* A crash, or the reset after a panic, and the boot: recovery goes back to
\* the last commit.
Crash ==
  /\ Crashes
  /\ disk' = saved
  /\ icache' = Fresh /\ lock' = [i \in Inum |-> Nobody]
  /\ pc' = InUser /\ then' = InUser
  /\ call' = [p \in Proc |-> NoCall]
  /\ ip' = Nowhere /\ dp' = Nowhere /\ put' = Nowhere /\ fd' = Nowhere
  /\ UNCHANGED saved

-----------------------------------------------------------------------------
Iput(p) == IputTest(p) \/ Itrunc(p) \/ IputDrop(p)
Opens(p) == Create(p) \/ CreateNew(p) \/ CreateFound(p) \/ OpenFound(p) \/ Opened(p)
Links(p) == LinkOld(p) \/ LinkNew(p) \/ LinkExists(p) \/ LinkBad(p) \/ Linked(p)
Unlinks(p) == Unlink(p) \/ UnlinkIp(p) \/ UnlinkBad(p) \/ Unlinked(p)

Next ==
  \/ \E p \in Proc :
       \/ Begin(p) \/ Close(p) \/ FileIO(p) \/ EndOp(p)
       \/ Iput(p) \/ Namex(p) \/ Opens(p) \/ Links(p) \/ Unlinks(p)
  \/ Crash

Spec == Init /\ [][Next]_vars

-----------------------------------------------------------------------------
Entries(d, i) == Cardinality({e \in Inum \X Name : d.dents[e[1]][e[2]] = i})

\* Types; no call ends with a lock or waits for one that it has, over all the
\* ways out of the calls in sysfile.c; and neither "ilock: no type" nor
\* "unlink: nlink < 1" can happen, whatever the others have removed between a
\* lookup and the lock of what it found: the reference that the lookup took
\* keeps the inode.
TypeOK ==
  /\ \A d \in {disk, saved} : \A i \in Inum :
       /\ d.type[i] \in {"free", "file", "dir"} /\ d.nlink[i] \in Nat
       /\ d.dents[i] \in [Name -> Inum \cup {NoInode}]
  /\ icache \in [Inum -> [ref : Nat, valid : BOOLEAN, type : {"free", "file", "dir"}, nlink : Nat]]
  /\ lock \in [Inum -> Proc \cup {Nobody}]
  /\ \A q \in {ip, dp, put, fd} : q \in [Proc -> Inum \cup {NoInode}]
  /\ \A i \in Inum, p \in Proc : lock[i] = p =>
       /\ pc[p] \notin {"user", "end"} /\ Wanted(p) # i
       /\ pc[p] = "iput" => put[p] # i
  /\ \A p \in Proc :
       /\ Wanted(p) # NoInode /\ Free(Wanted(p)) => Typed(Wanted(p))
       /\ pc[p] = "unlink_ip" /\ Free(ip[p]) => Read(icache, ip[p])[ip[p]].nlink > 0

\* The cache is write-through: a valid entry with references is what the
\* disk has, also for a number that was freed and taken again while the
\* process that freed it still had its reference (iput, ialloc, ilock).
CacheTruthful ==
  \A i \in Inum : icache[i].valid /\ icache[i].ref > 0 =>
    icache[i].type = disk.type[i] /\ icache[i].nlink = disk.nlink[i]

\* ref is the number of C pointers to the entry: lookups in progress, open
\* files and the working directory, in every path through the calls.
RefsCounted ==
  \A i \in Inum :
    icache[i].ref = (IF i = ROOTINO THEN 1 ELSE 0)
      + Cardinality({p \in Proc : ip[p] = i}) + Cardinality({p \in Proc : dp[p] = i})
      + Cardinality({p \in Proc : put[p] = i}) + Cardinality({p \in Proc : fd[p] = i})

\* On the disk, and in what a crash goes back to, no name is without an
\* inode and no inode has fewer links than names (the order in which link,
\* unlink, create and iput write nlink, entry and type).
NamesLive ==
  \A d \in {disk, saved}, i \in Inum : Entries(d, i) > 0 =>
    d.type[i] # "free" /\ d.nlink[i] >= Entries(d, i)

\* The links of an inode on the disk that are not names of it or ".." in a
\* directory below it: counted by a link() that is on its way, or left for
\* an unlink() to take back.
Place(p) == IF pc[p] \in {"iput", "itrunc", "drop"} THEN then[p] ELSE pc[p]
Underway(p, i) ==
  /\ ip[p] = i
  /\ \/ call[p].name = "link" /\ Place(p) \in {"namex", "link_new", "link_exists", "link_bad"}
     \/ Place(p) = "unlinked"
Below(i) == {n \in Name : disk.dents[i][n] # NoInode /\ disk.type[disk.dents[i][n]] = "dir"}
Unexplained(i) ==
  disk.nlink[i] - Entries(disk, i) - Cardinality(Below(i))
    - Cardinality({p \in Proc : Underway(p, i)})

\* What the names in a directory count is lost when it goes with them in it.
LosesNames == \E p \in Proc : At(p, "itrunc") /\ ~IsDirEmpty(put[p]) /\ Itrunc(p)

\* Each change of a link count has its name: over the whole of each call,
\* every way out of it and other calls between its steps, link() and
\* unlink() give and take as many links as they write and clear entries,
\* link() takes its own back when it fails (sysfile.c), and so do create()
\* and unlink() for "..".  Only a removed directory in which a call that
\* was late has made an entry takes names with it.
LinksBalanced ==
  [][LosesNames \/ Crash \/ \A i \in Inum : Unexplained(i)' = Unexplained(i)]_vars

\* What the calls promise of files and names.
Files(d) == {i \in Inum : d.type[i] # "free"}
Abstract == INSTANCE FileStore WITH
  File <- Inum, NoFile <- NoInode,
  files <- Files(disk), names <- disk.dents, open <- fd,
  durableFiles <- Files(saved), durableNames <- saved.dents

\* A file that has a name or is open stays, and a crash keeps that true: the
\* steps of the calls are steps of FileStore (sysfile.c).
ImplementsFileStore == Abstract!Spec

\* "If that was the last reference and the inode has no links to it, free the
\* inode (and its content) on disk" (fs.c:327): an inode in use has links or
\* references.
FreedWithLastReference ==
  \A i \in Inum : disk.type[i] # "free" => disk.nlink[i] > 0 \/ icache[i].ref > 0
=============================================================================
