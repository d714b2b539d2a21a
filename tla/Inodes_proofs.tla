----------------------------- MODULE Inodes_proofs -----------------------------
(***************************************************************************)
(* What holds of the inodes, for any number of inodes, names, processes    *)
(* and any set of calls: the types and the two panics of ilock and unlink, *)
(* the cache being what the disk has, the reference counts, the links of   *)
(* what has a name, and that the calls are FileStore's.                    *)
(*                                                                         *)
(* None of these is inductive.  IInv is, and its parts need each other:    *)
(*   Types        the ranges of the variables;                             *)
(*   Shape        which of its variables a call uses in which phase;       *)
(*   Locks        the sleep locks are held where the calls hold them;      *)
(*   RefsCounted  ref counts the variables, so that who uses an inode has  *)
(*                a reference, and ref = 1 in iput says that nobody else   *)
(*                does;                                                    *)
(*   Cached       what is valid and referenced is what the disk has;       *)
(*   InUse        what a call has in its variables is on the disk, and the *)
(*                entry that it found under a directory's lock stays;      *)
(*   Trees        a name has an inode, an inode has a link for each name,  *)
(*                each directory in it, and each link that a call has      *)
(*                counted and not yet written, or removed and not yet      *)
(*                taken off (Owes).                                        *)
(* An inode with nlink = 0 and ref = 1 has no name then and no user but    *)
(* the process in iput, so nothing is lost when it is freed.               *)
(*                                                                         *)
(* One lemma for each way through a handler follows the steps <1>2 (what   *)
(* changes), <1>3 (where the process was), <1>4 (where it is), <1>6 (the   *)
(* cache and the disk), and then the parts of IInv in their order.         *)
(***************************************************************************)
EXTENDS Inodes, TLAPS, FiniteSetTheorems, WellFoundedInduction, SequenceTheorems

FileType == {"free", "file", "dir"}
Disk == [type : [Inum -> FileType], nlink : [Inum -> Nat],
         dents : [Inum -> [Name -> Inum \cup {NoInode}]]]
CacheEntry == [ref : Nat, valid : BOOLEAN, type : FileType, nlink : Nat]
Cache == [Inum -> CacheEntry]
Call == [name : {"open", "create", "mkdir", "unlink"}, rest : Seq(Name)]
          \cup [name : {"link"}, rest : Seq(Name), new : Seq(Name) \ {<<>>}]

\* A process in iput is on its way to the phase then[p]; the phase says
\* which of its variables are in use.
Putting == {"iput", "itrunc", "drop"}
Phase(p) == IF pc[p] \in Putting THEN then[p] ELSE pc[p]
Idle == {"user", "end"}
Creating == {"create", "create_new", "create_found", "no_inodes"}
Linking == {"link_old", "link_new", "link_exists", "link_bad", "linked"}
Unlinking == {"unlink", "unlink_ip", "unlink_bad", "unlinked"}
Phases == Idle \cup {"namex", "open", "opened"} \cup Creating \cup Linking \cup Unlinking
WithIp == {"create_new", "create_found", "open", "opened", "unlink_ip", "unlinked"} \cup Linking
WithDp == {"namex", "create", "create_new", "no_inodes", "link_new", "link_exists",
           "unlink", "unlink_ip", "unlink_bad"}

Types ==
  /\ disk \in Disk /\ saved \in Disk /\ icache \in Cache
  /\ lock \in [Inum -> Proc \cup {Nobody}]
  /\ ip \in [Proc -> Inum \cup {NoInode}] /\ dp \in [Proc -> Inum \cup {NoInode}]
  /\ put \in [Proc -> Inum \cup {NoInode}] /\ fd \in [Proc -> Inum \cup {NoInode}]
  /\ pc \in [Proc -> Phases \cup Putting] /\ then \in [Proc -> Phases]
  /\ call \in [Proc -> Call \cup {NoCall}]

\* The variables that a phase uses are set, the others are not.
Variables(p) ==
  /\ put[p] # NoInode <=> pc[p] \in Putting
  /\ pc[p] \notin Putting => then[p] = "user"
  /\ dp[p] # NoInode <=> Phase(p) \in WithDp
  /\ Phase(p) # "namex" => (ip[p] # NoInode <=> Phase(p) \in WithIp)
  /\ Phase(p) = "namex" /\ ip[p] # NoInode => call[p].name = "link"

\* The phase belongs to the call; who opens a file has none.
Calls(p) ==
  /\ call[p] = NoCall <=> Phase(p) \in Idle
  /\ Phase(p) \in Creating => call[p].name \in {"create", "mkdir"}
  /\ Phase(p) = "open" => call[p].name = "open"
  /\ Phase(p) = "opened" => call[p].name \in {"open", "create", "mkdir"}
  /\ Phase(p) \in Linking => call[p].name = "link"
  /\ Phase(p) \in Unlinking => call[p].name = "unlink"
  /\ Phase(p) \in WithDp => call[p].rest # <<>>
  /\ call[p].name \in {"open", "create"} => fd[p] = NoInode

Shape == \A p \in Proc : Variables(p) /\ Calls(p)

\* The locks that a process has, and that they are of different inodes than
\* the one it is about to lock.
Holds(p, i) ==
  \/ pc[p] = "itrunc" /\ put[p] = i
  \/ Phase(p) \in {"create_new", "link_exists", "unlink_ip", "unlink_bad"} /\ dp[p] = i
  \/ Phase(p) \in {"opened", "unlinked"} /\ ip[p] = i

Apart(p) ==
  /\ Phase(p) \in {"create_new", "unlink_ip"} => dp[p] # ip[p]
  /\ pc[p] \in Putting /\ Phase(p) \in {"create_new", "link_exists", "unlink_ip", "unlink_bad"} => put[p] # dp[p]
  /\ pc[p] \in Putting /\ Phase(p) \in {"opened", "unlinked"} => put[p] # ip[p]

Locks ==
  /\ \A p \in Proc, i \in Inum : lock[i] = p <=> Holds(p, i)
  /\ \A p \in Proc : Apart(p)

\* The cache has what the disk has, where it is in use.
True(c, d) ==
  \A i \in Inum : c[i].valid /\ c[i].ref > 0 =>
    c[i].type = d.type[i] /\ c[i].nlink = d.nlink[i] /\ d.type[i] # "free"

Cached ==
  /\ True(icache, disk)
  /\ \A i \in Inum : lock[i] # Nobody => icache[i].valid

\* An inode that somebody is going to use is there; a directory stays one.
Live(p) ==
  /\ ip[p] # NoInode => disk.type[ip[p]] # "free"
  /\ dp[p] # NoInode => disk.type[dp[p]] # "free"
  /\ fd[p] # NoInode => disk.type[fd[p]] # "free"
  /\ pc[p] \in {"iput", "itrunc"} => disk.type[put[p]] # "free"
  /\ Phase(p) \in WithDp \ {"namex"} => disk.type[dp[p]] = "dir"
  /\ Phase(p) \in {"namex", "link_new", "link_exists", "link_bad"} /\ ip[p] # NoInode => disk.type[ip[p]] = "file"
  /\ pc[p] = "itrunc" => icache[put[p]].ref = 1 /\ disk.nlink[put[p]] = 0

\* While the directory is locked the entry stays.
Stays(p) ==
  /\ Phase(p) = "unlink_ip" => Existing(p) = ip[p]
  /\ Phase(p) = "create_new" => Existing(p) = NoInode

InUse == \A p \in Proc : Live(p) /\ Stays(p)

\* The tree on a disk.
Kids(d, i) == {n \in Name : d.dents[i][n] # NoInode /\ d.type[d.dents[i][n]] = "dir"}
Owing == {"namex", "link_new", "link_exists", "link_bad", "unlinked"}
Owed(p) == IF Phase(p) \in Owing THEN ip[p] ELSE NoInode
Owes(i) == Cardinality({p \in Proc : Owed(p) = i})
Rooted(i) == IF i = ROOTINO THEN 1 ELSE 0

Tree(d) ==
  /\ d.type[ROOTINO] = "dir"
  /\ \A i \in Inum, n \in Name :
       /\ d.dents[i][n] # i
       /\ d.dents[i][n] # NoInode => d.type[i] = "dir" /\ d.type[d.dents[i][n]] # "free"
Counted(d) == \A i \in Inum : d.nlink[i] >= Entries(d, i) + Cardinality(Kids(d, i)) + Rooted(i)
CountedNow == \A i \in Inum : disk.nlink[i] >= Entries(disk, i) + Cardinality(Kids(disk, i)) + Rooted(i) + Owes(i)
Trees == Tree(disk) /\ Tree(saved) /\ Counted(saved) /\ CountedNow

IInv ==
  /\ Types /\ Shape /\ Locks /\ RefsCounted /\ Cached /\ InUse /\ Trees

-----------------------------------------------------------------------------
(* The constants, and what the operators on caches and disks do.           *)

LEMMA Consts ==
  /\ Inum \subseteq Nat /\ IsFiniteSet(Inum) /\ ROOTINO \in Inum /\ NoInode \notin Inum
  /\ IsFiniteSet(Name) /\ IsFiniteSet(Proc) /\ Nobody \notin Proc
  /\ ROOTINO # NoInode
BY InodeAssumption, FS_Interval DEF InodeAssumption, Inum, ROOTINO, NoInode

\* iget: one reference more, and what is valid is in use.
LEMMA IgetIs ==
  ASSUME NEW c \in Cache, NEW i \in Inum
  PROVE  /\ Iget(c, i) \in Cache
         /\ Iget(c, i)[i].ref = c[i].ref + 1
         /\ Iget(c, i)[i].valid <=> c[i].valid /\ c[i].ref > 0
         /\ Iget(c, i)[i].type = c[i].type /\ Iget(c, i)[i].nlink = c[i].nlink
         /\ \A j \in Inum : j # i => Iget(c, i)[j] = c[j]
<1>0. c[i] \in CacheEntry
  BY DEF Cache
<1>1. CASE c[i].ref > 0
  <2> DEFINE e == [c[i] EXCEPT !.ref = @ + 1]
  <2>1. Iget(c, i) = [c EXCEPT ![i] = e]
    BY <1>1 DEF Iget
  <2>2. e \in CacheEntry /\ e.ref = c[i].ref + 1 /\ e.valid = c[i].valid /\ e.type = c[i].type /\ e.nlink = c[i].nlink
    BY <1>0 DEF CacheEntry
  <2> HIDE DEF e
  <2>3. Iget(c, i)[i] = e /\ \A j \in Inum : j # i => Iget(c, i)[j] = c[j]
    BY <2>1 DEF Cache
  <2>4. Iget(c, i) \in Cache
    BY <2>1, <2>2 DEF Cache
  <2> QED
    BY <1>1, <2>2, <2>3, <2>4
<1>2. CASE ~(c[i].ref > 0)
  <2> DEFINE e == [c[i] EXCEPT !.ref = 1, !.valid = FALSE]
  <2>1. Iget(c, i) = [c EXCEPT ![i] = e]
    BY <1>2 DEF Iget
  <2>2. e \in CacheEntry /\ e.ref = 1 /\ e.valid = FALSE /\ e.type = c[i].type /\ e.nlink = c[i].nlink
    BY <1>0 DEF CacheEntry
  <2> HIDE DEF e
  <2>3. Iget(c, i)[i] = e /\ \A j \in Inum : j # i => Iget(c, i)[j] = c[j]
    BY <2>1 DEF Cache
  <2>4. Iget(c, i) \in Cache
    BY <2>1, <2>2 DEF Cache
  <2>5. c[i].ref = 0
    BY <1>0, <1>2 DEF CacheEntry
  <2> QED
    BY <1>2, <2>2, <2>3, <2>4, <2>5
<1> QED
  BY <1>1, <1>2

\* ilock: the entry has what the disk has.
LEMMA ReadIs ==
  ASSUME NEW c \in Cache, NEW i \in Inum, disk \in Disk
  PROVE  /\ Read(c, i) \in Cache
         /\ Read(c, i)[i].ref = c[i].ref
         /\ Read(c, i)[i].valid
         /\ c[i].valid => Read(c, i)[i] = c[i]
         /\ ~c[i].valid => Read(c, i)[i].type = disk.type[i] /\ Read(c, i)[i].nlink = disk.nlink[i]
         /\ \A j \in Inum : j # i => Read(c, i)[j] = c[j]
<1>0. c[i] \in CacheEntry /\ disk.type[i] \in FileType /\ disk.nlink[i] \in Nat
  BY DEF Cache, Disk
<1>1. CASE c[i].valid
  BY <1>1 DEF Read
<1>2. CASE ~c[i].valid
  <2> DEFINE e == [c[i] EXCEPT !.valid = TRUE, !.type = disk.type[i], !.nlink = disk.nlink[i]]
  <2>1. Read(c, i) = [c EXCEPT ![i] = e]
    BY <1>2 DEF Read
  <2>2. e \in CacheEntry /\ e.ref = c[i].ref /\ e.valid = TRUE /\ e.type = disk.type[i] /\ e.nlink = disk.nlink[i]
    BY <1>0 DEF CacheEntry
  <2> HIDE DEF e
  <2>3. Read(c, i)[i] = e /\ \A j \in Inum : j # i => Read(c, i)[j] = c[j]
    BY <2>1 DEF Cache
  <2>4. Read(c, i) \in Cache
    BY <2>1, <2>2 DEF Cache
  <2> QED
    BY <1>2, <2>2, <2>3, <2>4
<1> QED
  BY <1>1, <1>2

LEMMA AddLinksIs ==
  ASSUME NEW c \in Cache, NEW i \in Inum, NEW n \in Int, c[i].nlink + n >= 0
  PROVE  /\ AddLinks(c, i, n) \in Cache
         /\ AddLinks(c, i, n)[i].ref = c[i].ref
         /\ AddLinks(c, i, n)[i].valid <=> c[i].valid
         /\ AddLinks(c, i, n)[i].type = c[i].type
         /\ AddLinks(c, i, n)[i].nlink = c[i].nlink + n
         /\ \A j \in Inum : j # i => AddLinks(c, i, n)[j] = c[j]
<1> DEFINE e == [c[i] EXCEPT !.nlink = @ + n]
<1>0. c[i] \in CacheEntry
  BY DEF Cache
<1>1. AddLinks(c, i, n) = [c EXCEPT ![i] = e]
  BY DEF AddLinks
<1>2. e \in CacheEntry /\ e.ref = c[i].ref /\ e.valid = c[i].valid /\ e.type = c[i].type /\ e.nlink = c[i].nlink + n
  BY <1>0 DEF CacheEntry
<1> HIDE DEF e
<1>3. AddLinks(c, i, n)[i] = e /\ \A j \in Inum : j # i => AddLinks(c, i, n)[j] = c[j]
  BY <1>1 DEF Cache
<1>4. AddLinks(c, i, n) \in Cache
  BY <1>1, <1>2 DEF Cache
<1> QED
  BY <1>2, <1>3, <1>4

Written(d, c, i, f) ==
  /\ f \in Disk
  /\ f.type = [d.type EXCEPT ![i] = c[i].type]
  /\ f.nlink = [d.nlink EXCEPT ![i] = c[i].nlink]
  /\ f.dents = d.dents

LEMMA IupdateIs ==
  ASSUME NEW d \in Disk, NEW c \in Cache, NEW i \in Inum
  PROVE  Written(d, c, i, Iupdate(d, c, i))
<1> DEFINE t == [d.type EXCEPT ![i] = c[i].type]
           n == [d.nlink EXCEPT ![i] = c[i].nlink]
<1>1. c[i].type \in FileType /\ c[i].nlink \in Nat
  BY DEF Cache, CacheEntry
<1>2. t \in [Inum -> FileType] /\ n \in [Inum -> Nat]
  BY <1>1 DEF Disk
<1>3. Iupdate(d, c, i) = [d EXCEPT !.type = t, !.nlink = n]
  BY DEF Iupdate, Disk
<1> HIDE DEF t, n
<1>4. Iupdate(d, c, i) \in Disk /\ Iupdate(d, c, i).type = t /\ Iupdate(d, c, i).nlink = n
      /\ Iupdate(d, c, i).dents = d.dents
  BY <1>2, <1>3 DEF Disk
<1> QED
  BY <1>4 DEF t, n, Written

-----------------------------------------------------------------------------
(* Counting.  How many arguments have a value, when one argument gets      *)
(* another value.                                                          *)
Is(x, i) == IF x = i THEN 1 ELSE 0
Having(S, f, i) == {x \in S : f[x] = i}

LEMMA CountIsNat ==
  ASSUME NEW S, IsFiniteSet(S), NEW f, NEW i
  PROVE  /\ IsFiniteSet(Having(S, f, i)) /\ Cardinality(Having(S, f, i)) \in Nat
         /\ \A x \in S : f[x] = i => Cardinality(Having(S, f, i)) >= 1
         /\ \A x, y \in S : f[x] = i /\ f[y] = i /\ x # y => Cardinality(Having(S, f, i)) >= 2
<1> DEFINE H == Having(S, f, i)
<1>1. IsFiniteSet(H) /\ Cardinality(H) \in Nat
  BY FS_Subset, FS_CardinalityType DEF Having
<1>2. ASSUME NEW x \in S, f[x] = i PROVE Cardinality(H) >= 1
  <2>1. {x} \subseteq H
    BY <1>2 DEF Having
  <2>2. Cardinality({x}) <= Cardinality(H)
    BY <1>1, <2>1, FS_Subset
  <2> QED
    BY <1>1, <2>2, FS_Singleton
<1>3. ASSUME NEW x \in S, NEW y \in S, f[x] = i, f[y] = i, x # y PROVE Cardinality(H) >= 2
  <2>1. {x, y} \subseteq H
    BY <1>3 DEF Having
  <2>2. Cardinality({x, y}) <= Cardinality(H)
    BY <1>1, <2>1, FS_Subset
  <2>3. Cardinality({x, y}) = 2
    <3>1. IsFiniteSet({x}) /\ Cardinality({x}) = 1 /\ y \notin {x}
      BY <1>3, FS_Singleton
    <3>2. Cardinality({x} \cup {y}) = Cardinality({x}) + 1
      BY <3>1, FS_AddElement
    <3>3. {x} \cup {y} = {x, y}
      OBVIOUS
    <3> QED
      BY <3>1, <3>2, <3>3
  <2> QED
    BY <1>1, <2>2, <2>3
<1> QED
  BY <1>1, <1>2, <1>3

Moved(S, f, g, x, i) ==
  /\ Cardinality(Having(S, f, i)) \in Nat /\ Cardinality(Having(S, g, i)) \in Nat
  /\ Cardinality(Having(S, g, i)) = Cardinality(Having(S, f, i)) + Is(g[x], i) - Is(f[x], i)

LEMMA CountMoves ==
  ASSUME NEW S, IsFiniteSet(S), NEW f, NEW g, NEW x \in S,
         \A y \in S : y # x => g[y] = f[y], NEW i
  PROVE  Moved(S, f, g, x, i)
<1> DEFINE F == Having(S, f, i)
           G == Having(S, g, i)
<1>1. IsFiniteSet(F) /\ IsFiniteSet(G) /\ Cardinality(F) \in Nat /\ Cardinality(G) \in Nat
  BY CountIsNat
<1>2. G \ {x} = F \ {x}
  BY DEF Having
<1>3. /\ x \in F <=> f[x] = i
      /\ x \in G <=> g[x] = i
  BY DEF Having
<1>4. ASSUME NEW H, IsFiniteSet(H)
      PROVE  /\ Cardinality(H) \in Nat /\ Cardinality(H \ {x}) \in Nat
             /\ Cardinality(H \ {x}) = Cardinality(H) - (IF x \in H THEN 1 ELSE 0)
  <2>1. Cardinality(H) \in Nat /\ Cardinality(H \ {x}) \in Nat
    BY <1>4, FS_CardinalityType, FS_Subset
  <2>2. CASE x \in H
    BY <1>4, <2>1, <2>2, FS_RemoveElement DEF Is
  <2>3. CASE x \notin H
    <3>1. H \ {x} = H
      BY <2>3
    <3>2. Cardinality(H \ {x}) = Cardinality(H)
      BY <3>1, Zenon
    <3> QED
      BY <2>1, <2>3, <3>2 DEF Is
  <2> QED
    BY <2>2, <2>3
<1>5. Cardinality(F \ {x}) = Cardinality(F) - (IF x \in F THEN 1 ELSE 0)
  BY <1>1, <1>4
<1>6. Cardinality(G \ {x}) = Cardinality(G) - (IF x \in G THEN 1 ELSE 0)
  BY <1>1, <1>4
<1>7. PICK n \in Nat : n = Cardinality(F \ {x}) /\ n = Cardinality(G \ {x})
  <2>1. Cardinality(G \ {x}) = Cardinality(F \ {x}) /\ Cardinality(F \ {x}) \in Nat
    BY <1>1, <1>2, <1>4, Zenon
  <2> QED
    BY <2>1
<1>8. (IF x \in F THEN 1 ELSE 0) = Is(f[x], i) /\ (IF x \in G THEN 1 ELSE 0) = Is(g[x], i)
  BY <1>3, Zenon DEF Is
<1>9. Is(f[x], i) \in Nat /\ Is(g[x], i) \in Nat
  BY DEF Is
<1> QED
  BY <1>1, <1>5, <1>6, <1>7, <1>8, <1>9 DEF Moved

LEMMA CountShrinks ==
  ASSUME NEW S, IsFiniteSet(S), NEW f, NEW g, NEW i,
         \A x \in S : g[x] = i => f[x] = i
  PROVE  Cardinality(Having(S, g, i)) <= Cardinality(Having(S, f, i))
<1>1. Having(S, g, i) \subseteq Having(S, f, i)
  BY DEF Having
<1> QED
  BY <1>1, CountIsNat, FS_Subset

-----------------------------------------------------------------------------
(* References.                                                             *)
Uses(p, i) == ip[p] = i \/ dp[p] = i \/ put[p] = i \/ fd[p] = i
Mine(p, i) == Is(ip[p], i) + Is(dp[p], i) + Is(put[p], i) + Is(fd[p], i)
Count(f, i) == Cardinality(Having(Proc, f, i))

LEMMA RefsAre ==
  RefsCounted <=> \A i \in Inum :
    icache[i].ref = Rooted(i) + Count(ip, i) + Count(dp, i) + Count(put, i) + Count(fd, i)
BY DEF RefsCounted, Rooted, Count, Having

LEMMA RefsAreNext ==
  RefsCounted' <=> \A i \in Inum :
    icache'[i].ref = Rooted(i) + Count(ip', i) + Count(dp', i) + Count(put', i) + Count(fd', i)
BY DEF RefsCounted, Rooted, Count, Having

\* Who uses an inode has a reference; a second one makes it two.
LEMMA UsedHasRef ==
  ASSUME RefsCounted, NEW i \in Inum
  PROVE  /\ i = ROOTINO => icache[i].ref >= 1
         /\ \A q \in Proc : Uses(q, i) => icache[i].ref >= 1
         /\ \A p, q \in Proc : put[p] = i /\ Uses(q, i) =>
              \/ icache[i].ref >= 2
              \/ p = q /\ i # ROOTINO /\ ip[p] # i /\ dp[p] # i /\ fd[p] # i
         /\ i = ROOTINO => \A p \in Proc : put[p] = i => icache[i].ref >= 2
<1>1. PICK r \in Nat, a \in Nat, b \in Nat, c \in Nat, d \in Nat :
        /\ r = Rooted(i) /\ a = Count(ip, i) /\ b = Count(dp, i) /\ c = Count(put, i) /\ d = Count(fd, i)
  BY Consts, CountIsNat DEF Rooted, Count
<1>2. icache[i].ref = r + a + b + c + d
  BY <1>1, RefsAre
<1>3. i = ROOTINO => r = 1
  BY <1>1 DEF Rooted
<1>4. \A q \in Proc : /\ ip[q] = i => a >= 1
                      /\ dp[q] = i => b >= 1
                      /\ put[q] = i => c >= 1
                      /\ fd[q] = i => d >= 1
  BY <1>1, Consts, CountIsNat DEF Count
<1>5. \A p, q \in Proc : put[p] = i /\ put[q] = i /\ p # q => c >= 2
  BY <1>1, Consts, CountIsNat DEF Count
<1> QED
  BY <1>2, <1>3, <1>4, <1>5 DEF Uses

\* The references move with the variables of the one process that steps.
LEMMA RefStep ==
  ASSUME RefsCounted, NEW p \in Proc,
         \A q \in Proc : q # p => ip'[q] = ip[q] /\ dp'[q] = dp[q] /\ put'[q] = put[q] /\ fd'[q] = fd[q],
         \A i \in Inum : icache'[i].ref = icache[i].ref + Mine(p, i)' - Mine(p, i)
  PROVE  RefsCounted'
<1> SUFFICES ASSUME NEW i \in Inum
             PROVE  icache'[i].ref = Rooted(i) + Count(ip', i) + Count(dp', i) + Count(put', i) + Count(fd', i)
  BY RefsAreNext
<1>1. Moved(Proc, ip, ip', p, i)
  <2>1. \A q \in Proc : q # p => ip'[q] = ip[q]
    OBVIOUS
  <2> QED
    BY <2>1, Consts, CountMoves
<1>2. Moved(Proc, dp, dp', p, i)
  <2>1. \A q \in Proc : q # p => dp'[q] = dp[q]
    OBVIOUS
  <2> QED
    BY <2>1, Consts, CountMoves
<1>3. Moved(Proc, put, put', p, i)
  <2>1. \A q \in Proc : q # p => put'[q] = put[q]
    OBVIOUS
  <2> QED
    BY <2>1, Consts, CountMoves
<1>4. Moved(Proc, fd, fd', p, i)
  <2>1. \A q \in Proc : q # p => fd'[q] = fd[q]
    OBVIOUS
  <2> QED
    BY <2>1, Consts, CountMoves
<1>5. Rooted(i) \in Nat
  BY DEF Rooted
<1>6. icache[i].ref = Rooted(i) + Count(ip, i) + Count(dp, i) + Count(put, i) + Count(fd, i)
  BY RefsAre
<1>7. icache'[i].ref = icache[i].ref
        + (Is(ip'[p], i) + Is(dp'[p], i) + Is(put'[p], i) + Is(fd'[p], i))
        - (Is(ip[p], i) + Is(dp[p], i) + Is(put[p], i) + Is(fd[p], i))
  BY DEF Mine
<1>8. /\ Is(ip'[p], i) \in Nat /\ Is(dp'[p], i) \in Nat /\ Is(put'[p], i) \in Nat /\ Is(fd'[p], i) \in Nat
      /\ Is(ip[p], i) \in Nat /\ Is(dp[p], i) \in Nat /\ Is(put[p], i) \in Nat /\ Is(fd[p], i) \in Nat
  BY DEF Is
<1> QED
  BY <1>1, <1>2, <1>3, <1>4, <1>5, <1>6, <1>7, <1>8 DEF Moved, Count

-----------------------------------------------------------------------------
(* What the steps have in common.  A process that does not step keeps its  *)
(* variables.                                                              *)
Same(q) ==
  /\ ip'[q] = ip[q] /\ dp'[q] = dp[q] /\ put'[q] = put[q] /\ fd'[q] = fd[q]
  /\ pc'[q] = pc[q] /\ then'[q] = then[q] /\ call'[q] = call[q]
OthersSame(p) == \A q \in Proc : q # p => Same(q)

-----------------------------------------------------------------------------
(* The tree: entries, subdirectories and links owed, as counts.            *)
Slots == Inum \X Name
Entered(d) == [e \in Slots |-> d.dents[e[1]][e[2]]]
Kid(d, i) == [n \in Name |-> IF d.dents[i][n] # NoInode /\ d.type[d.dents[i][n]] = "dir" THEN 1 ELSE 0]

LEMMA SlotsFinite == IsFiniteSet(Slots)
BY Consts, FS_Product DEF Slots

LEMMA EntriesAre ==
  ASSUME NEW d, NEW i
  PROVE  /\ Entries(d, i) = Cardinality(Having(Slots, Entered(d), i))
         /\ Entries(d, i) \in Nat
         /\ \A x \in Inum, n \in Name : d.dents[x][n] = i => Entries(d, i) >= 1
<1>1. {e \in Inum \X Name : d.dents[e[1]][e[2]] = i} = Having(Slots, Entered(d), i)
  BY DEF Having, Slots, Entered
<1>2. Entries(d, i) = Cardinality(Having(Slots, Entered(d), i))
  BY <1>1 DEF Entries
<1>3. ASSUME NEW x \in Inum, NEW n \in Name, d.dents[x][n] = i
      PROVE  \E e \in Slots : Entered(d)[e] = i
  <2>1. <<x, n>> \in Slots /\ Entered(d)[<<x, n>>] = i
    BY <1>3 DEF Slots, Entered
  <2> QED
    BY <2>1
<1> QED
  BY <1>2, <1>3, SlotsFinite, CountIsNat

LEMMA KidsAre ==
  ASSUME NEW d, NEW i
  PROVE  /\ Cardinality(Kids(d, i)) = Cardinality(Having(Name, Kid(d, i), 1))
         /\ Cardinality(Kids(d, i)) \in Nat
<1>1. Kids(d, i) = Having(Name, Kid(d, i), 1)
  BY DEF Kids, Having, Kid
<1> QED
  BY <1>1, Consts, CountIsNat

OwedBy == [q \in Proc |-> Owed(q)]

LEMMA OwesAre ==
  ASSUME NEW i
  PROVE  Owes(i) = Count(OwedBy, i) /\ Owes(i) \in Nat
<1>1. {q \in Proc : Owed(q) = i} = Having(Proc, OwedBy, i)
  BY DEF Having, OwedBy
<1>2. Owes(i) = Count(OwedBy, i)
  BY <1>1 DEF Owes, Count
<1> QED
  BY <1>2, Consts, CountIsNat DEF Count

LEMMA OwesAreNext ==
  ASSUME NEW i
  PROVE  Owes(i)' = Count(OwedBy', i) /\ Owes(i)' \in Nat
<1>1. {q \in Proc : Owed(q)' = i} = Having(Proc, OwedBy', i)
  BY DEF Having, OwedBy
<1>2. Owes(i)' = Count(OwedBy', i)
  BY <1>1 DEF Owes, Count
<1> QED
  BY <1>2, Consts, CountIsNat DEF Count

LEMMA TreeCounts ==
  ASSUME NEW d, NEW i
  PROVE  /\ Entries(d, i) \in Nat /\ Cardinality(Kids(d, i)) \in Nat
         /\ Rooted(i) \in Nat /\ Owes(i) \in Nat /\ Owes(i)' \in Nat
BY EntriesAre, KidsAre, OwesAre, OwesAreNext DEF Rooted

\* The one process that steps may come to owe a link, or not to owe it.
LEMMA OwesMove ==
  ASSUME NEW p \in Proc, \A q \in Proc : q # p => Owed(q)' = Owed(q), NEW i
  PROVE  Owes(i)' = Owes(i) + Is(Owed(p)', i) - Is(Owed(p), i)
<1>1. \A q \in Proc : q # p => (OwedBy')[q] = OwedBy[q]
  BY DEF OwedBy
<1>2. Moved(Proc, OwedBy, OwedBy', p, i)
  BY <1>1, Consts, CountMoves
<1>3. OwedBy[p] = Owed(p) /\ (OwedBy')[p] = Owed(p)'
  BY DEF OwedBy
<1> QED
  BY <1>2, <1>3, OwesAre, OwesAreNext DEF Moved, Count

LEMMA OthersOwe ==
  ASSUME NEW p \in Proc, OthersSame(p)
  PROVE  \A q \in Proc : q # p => Owed(q)' = Owed(q)
BY DEF OthersSame, Same, Owed, Phase

\* An entry gets another value.
LEMMA EntriesMove ==
  ASSUME NEW d \in Disk, NEW e \in Disk, NEW x \in Inum, NEW n \in Name, NEW v,
         e.dents = [d.dents EXCEPT ![x][n] = v], NEW i
  PROVE  Entries(e, i) = Entries(d, i) + Is(v, i) - Is(d.dents[x][n], i)
<1> DEFINE s == <<x, n>>
<1>1. s \in Slots /\ s[1] = x /\ s[2] = n
  BY DEF Slots
<1>2. \A y \in Slots : y[1] \in Inum /\ y[2] \in Name /\ (y # s => y[1] # x \/ y[2] # n)
  BY DEF Slots
<1>3. \A y \in Inum, m \in Name : e.dents[y][m] = IF y = x /\ m = n THEN v ELSE d.dents[y][m]
  BY DEF Disk
<1>4. \A y \in Slots : y # s => Entered(e)[y] = Entered(d)[y]
  BY <1>2, <1>3 DEF Entered
<1>5. Entered(e)[s] = v /\ Entered(d)[s] = d.dents[x][n]
  BY <1>1, <1>3 DEF Entered
<1> HIDE DEF s
<1>6. PICK f, g : f = Entered(d) /\ g = Entered(e)
  OBVIOUS
<1>7. Moved(Slots, f, g, s, i)
  BY <1>1, <1>4, <1>6, SlotsFinite, CountMoves
<1> QED
  BY <1>5, <1>6, <1>7, EntriesAre DEF Moved

LEMMA KidsMove ==
  ASSUME NEW d \in Disk, NEW e \in Disk, NEW x \in Inum, NEW n \in Name, NEW v \in Inum \cup {NoInode},
         e.dents = [d.dents EXCEPT ![x][n] = v], e.type = d.type
  PROVE  /\ \A i \in Inum : i # x => Cardinality(Kids(e, i)) = Cardinality(Kids(d, i))
         /\ Cardinality(Kids(e, x)) = Cardinality(Kids(d, x)) + Kid(e, x)[n] - Kid(d, x)[n]
<1>1. \A y \in Inum, m \in Name : e.dents[y][m] = IF y = x /\ m = n THEN v ELSE d.dents[y][m]
  BY DEF Disk
<1>2. \A i \in Inum : i # x => Kids(e, i) = Kids(d, i)
  BY <1>1 DEF Kids
<1>3. \A m \in Name : m # n => Kid(e, x)[m] = Kid(d, x)[m]
  BY <1>1 DEF Kid
<1>4. PICK f, g : f = Kid(d, x) /\ g = Kid(e, x)
  OBVIOUS
<1>5. Moved(Name, f, g, n, 1)
  <2>1. \A m \in Name : m # n => g[m] = f[m]
    BY <1>3, <1>4
  <2> QED
    BY <2>1, Consts, CountMoves
<1>6. f[n] \in {0, 1} /\ g[n] \in {0, 1}
  BY <1>4 DEF Kid
<1>7. Is(g[n], 1) = g[n] /\ Is(f[n], 1) = f[n]
  BY <1>6 DEF Is
<1> QED
  BY <1>2, <1>4, <1>5, <1>7, KidsAre DEF Moved

\* Nothing on the disk changes, and no link is owed that was not.
LEMMA TreesSame ==
  ASSUME Trees, disk' = disk, saved' = saved \/ saved' = disk, disk \in Disk,
         \A q \in Proc : Owed(q)' = Owed(q) \/ Owed(q)' = NoInode
  PROVE  Trees'
<1>1. \A i \in Inum : Owes(i)' <= Owes(i)
  <2> SUFFICES ASSUME NEW i \in Inum PROVE Owes(i)' <= Owes(i)
    OBVIOUS
  <2>1. \A q \in Proc : (OwedBy')[q] = i => OwedBy[q] = i
    BY Consts DEF OwedBy
  <2>2. Count(OwedBy', i) <= Count(OwedBy, i)
    BY <2>1, Consts, CountShrinks DEF Count
  <2> QED
    BY <2>2, OwesAre, OwesAreNext
<1>2. CountedNow'
  <2> SUFFICES ASSUME NEW i \in Inum
               PROVE  disk.nlink[i] >= Entries(disk, i) + Cardinality(Kids(disk, i)) + Rooted(i) + Owes(i)'
    BY DEF CountedNow, Entries, Kids
  <2>1. disk.nlink[i] >= Entries(disk, i) + Cardinality(Kids(disk, i)) + Rooted(i) + Owes(i)
    BY DEF Trees, CountedNow
  <2>2. disk.nlink[i] \in Nat
    BY DEF Disk
  <2> QED
    BY <1>1, <2>1, <2>2, TreeCounts
<1>3. Counted(disk)
  <2> SUFFICES ASSUME NEW i \in Inum
               PROVE  disk.nlink[i] >= Entries(disk, i) + Cardinality(Kids(disk, i)) + Rooted(i)
    BY DEF Counted
  <2>1. disk.nlink[i] >= Entries(disk, i) + Cardinality(Kids(disk, i)) + Rooted(i) + Owes(i)
    BY DEF Trees, CountedNow
  <2>2. disk.nlink[i] \in Nat
    BY DEF Disk
  <2> QED
    BY <2>1, <2>2, TreeCounts
<1>4. Tree(disk)' /\ Tree(saved)' /\ Counted(saved)'
  <2>1. Tree(disk') /\ Tree(saved') /\ Counted(saved')
    BY <1>3 DEF Trees
  <2> QED
    BY <2>1 DEF Tree, Counted, Entries, Kids
<1> QED
  BY <1>2, <1>4 DEF Trees

\* A true cache stays true when an inode in use is read and referenced.
LEMMA ReadTrue ==
  ASSUME NEW c \in Cache, disk \in Disk, True(c, disk), NEW i \in Inum, disk.type[i] # "free"
  PROVE  /\ Read(c, i) \in Cache /\ True(Read(c, i), disk)
         /\ \A j \in Inum : /\ Read(c, i)[j].ref = c[j].ref
                            /\ c[j].valid => Read(c, i)[j].valid
         /\ Read(c, i)[i].valid
         /\ c[i].ref > 0 => Read(c, i)[i].type = disk.type[i] /\ Read(c, i)[i].nlink = disk.nlink[i]
<1> DEFINE r == Read(c, i)
<1>1. /\ r \in Cache /\ r[i].ref = c[i].ref /\ r[i].valid
      /\ c[i].valid => r[i] = c[i]
      /\ ~c[i].valid => r[i].type = disk.type[i] /\ r[i].nlink = disk.nlink[i]
      /\ \A j \in Inum : j # i => r[j] = c[j]
  BY ReadIs
<1> HIDE DEF r
<1>2. c[i].ref > 0 => r[i].type = disk.type[i] /\ r[i].nlink = disk.nlink[i]
  BY <1>1 DEF True
<1>3. True(r, disk)
  BY <1>1, <1>2 DEF True
<1> QED
  BY <1>1, <1>2, <1>3 DEF r

LEMMA IgetTrue ==
  ASSUME NEW c \in Cache, NEW d, True(c, d), NEW i \in Inum
  PROVE  /\ Iget(c, i) \in Cache /\ True(Iget(c, i), d)
         /\ \A j \in Inum : /\ Iget(c, i)[j].ref = c[j].ref + Is(i, j)
                            /\ c[j].valid /\ c[j].ref > 0 => Iget(c, i)[j].valid
<1> DEFINE g == Iget(c, i)
<1>1. /\ g \in Cache /\ g[i].ref = c[i].ref + 1
      /\ g[i].valid <=> c[i].valid /\ c[i].ref > 0
      /\ g[i].type = c[i].type /\ g[i].nlink = c[i].nlink
      /\ \A j \in Inum : j # i => g[j] = c[j]
  BY IgetIs
<1> HIDE DEF g
<1>2. True(g, d)
  BY <1>1 DEF True
<1>3. \A j \in Inum : c[j].ref \in Nat
  BY DEF Cache, CacheEntry
<1> QED
  BY <1>1, <1>2, <1>3 DEF g, Is

\* A lock's holder has a reference.
LEMMA LockedHasRef ==
  ASSUME IInv, NEW i \in Inum, lock[i] # Nobody
  PROVE  icache[i].ref >= 1 /\ icache[i].valid
<1>1. lock[i] \in Proc
  BY DEF IInv, Types
<1>2. Uses(lock[i], i)
  BY <1>1 DEF IInv, Locks, Holds, Uses
<1> QED
  BY <1>1, <1>2, UsedHasRef DEF IInv, Cached

LEMMA CachedStep ==
  ASSUME IInv, True(icache', disk'),
         \A i \in Inum : lock'[i] # Nobody => lock[i] # Nobody \/ icache'[i].valid,
         \A i \in Inum : lock'[i] # Nobody /\ icache[i].valid /\ icache[i].ref > 0 => icache'[i].valid
  PROVE  Cached'
<1>1. \A i \in Inum : lock[i] # Nobody => icache[i].ref >= 1 /\ icache[i].valid
  BY LockedHasRef
<1>2. \A i \in Inum : icache[i].ref \in Nat
  BY DEF IInv, Types, Cache, CacheEntry
<1>3. \A i \in Inum : lock'[i] # Nobody => icache'[i].valid
  BY <1>1, <1>2
<1>4. True(icache, disk)'
  BY DEF True
<1> QED
  BY <1>3, <1>4 DEF Cached

LEMMA ShapeStep ==
  ASSUME Shape, NEW p \in Proc, OthersSame(p), Variables(p)', Calls(p)'
  PROVE  Shape'
<1> SUFFICES ASSUME NEW q \in Proc, q # p PROVE Variables(q)' /\ Calls(q)'
  BY DEF Shape
<1>1. Same(q) /\ Variables(q) /\ Calls(q)
  BY DEF OthersSame, Shape
<1>2. Phase(q)' = Phase(q)
  BY <1>1 DEF Same, Phase
<1> QED
  BY <1>1, <1>2 DEF Same, Variables, Calls

LEMMA LocksStep ==
  ASSUME Locks, NEW p \in Proc, OthersSame(p), Apart(p)',
         \A i \in Inum : lock'[i] = p <=> Holds(p, i)',
         \A i \in Inum, q \in Proc : q # p => (lock'[i] = q <=> lock[i] = q)
  PROVE  Locks'
<1> SUFFICES ASSUME NEW q \in Proc, q # p
             PROVE  Apart(q)' /\ \A i \in Inum : lock'[i] = q <=> Holds(q, i)'
  BY DEF Locks
<1>1. Same(q) /\ Apart(q)
  BY DEF OthersSame, Locks
<1>2. Phase(q)' = Phase(q)
  BY <1>1 DEF Same, Phase
<1>3. \A i \in Inum : Holds(q, i)' <=> Holds(q, i)
  BY <1>1, <1>2 DEF Same, Holds
<1> QED
  BY <1>1, <1>2, <1>3 DEF Same, Apart, Locks

LEMMA InUseStep ==
  ASSUME IInv, NEW p \in Proc, OthersSame(p), Live(p)', Stays(p)',
         \A q \in Proc, i \in Inum : q # p /\ Uses(q, i) /\ disk.type[i] # "free" => disk'.type[i] = disk.type[i],
         \A q \in Proc, i \in Inum : q # p /\ lock[i] = q => disk'.dents[i] = disk.dents[i],
         \A q \in Proc : q # p /\ pc[q] = "itrunc" => icache'[put[q]].ref = 1 /\ disk'.nlink[put[q]] = 0
  PROVE  InUse'
<1> SUFFICES ASSUME NEW q \in Proc, q # p PROVE Live(q)' /\ Stays(q)'
  BY DEF InUse
<1>1. Same(q) /\ Live(q) /\ Stays(q) /\ Variables(q)
  BY DEF OthersSame, IInv, InUse, Shape
<1>2. Phase(q)' = Phase(q)
  BY <1>1 DEF Same, Phase
<1>3. /\ ip[q] \in Inum \cup {NoInode} /\ dp[q] \in Inum \cup {NoInode}
      /\ put[q] \in Inum \cup {NoInode} /\ fd[q] \in Inum \cup {NoInode}
  BY DEF IInv, Types
<1>4. \A i \in Inum : Uses(q, i) /\ disk.type[i] # "free" => disk'.type[i] = disk.type[i]
  OBVIOUS
<1>5. /\ ip[q] # NoInode => disk'.type[ip[q]] = disk.type[ip[q]]
      /\ dp[q] # NoInode => disk'.type[dp[q]] = disk.type[dp[q]]
      /\ fd[q] # NoInode => disk'.type[fd[q]] = disk.type[fd[q]]
      /\ pc[q] \in {"iput", "itrunc"} => disk'.type[put[q]] = disk.type[put[q]]
  <2>1. pc[q] \in {"iput", "itrunc"} => put[q] # NoInode
    BY <1>1 DEF Variables, Putting
  <2> QED
    BY <1>1, <1>3, <1>4, <2>1 DEF Live, Uses
<1>6. Phase(q) \in WithDp \ {"namex"} => dp[q] # NoInode
  BY <1>1 DEF Variables
<1>7. Live(q)'
  <2>1. pc[q] = "itrunc" => icache'[put[q]].ref = 1 /\ disk'.nlink[put[q]] = 0
    OBVIOUS
  <2> QED
    BY <1>1, <1>2, <1>5, <1>6, <2>1 DEF Live, Same
<1>8. Phase(q) \in {"unlink_ip", "create_new"} => disk'.dents[dp[q]] = disk.dents[dp[q]]
  <2>1. Phase(q) \in {"unlink_ip", "create_new"} => Holds(q, dp[q]) /\ dp[q] \in Inum
    BY <1>1, <1>3 DEF Holds, Variables, WithDp
  <2>2. Phase(q) \in {"unlink_ip", "create_new"} => lock[dp[q]] = q
    BY <2>1 DEF IInv, Locks
  <2> QED
    BY <2>1, <2>2
<1>9. Phase(q) \in {"unlink_ip", "create_new"} => Existing(q)' = Existing(q)
  BY <1>1, <1>8 DEF Same, Existing, Entry
<1>10. Stays(q)'
  BY <1>1, <1>2, <1>9 DEF Stays, Same
<1> QED
  BY <1>7, <1>10

\* What is being truncated has no name, and nobody else uses it.
LEMMA TruncatedAlone ==
  ASSUME IInv, NEW q \in Proc, pc[q] = "itrunc"
  PROVE  /\ put[q] \in Inum /\ put[q] # ROOTINO /\ disk.type[put[q]] # "free"
         /\ ip[q] # put[q] /\ dp[q] # put[q] /\ fd[q] # put[q]
         /\ \A p \in Proc : p # q => ~Uses(p, put[q])
         /\ \A d \in Inum, n \in Name : disk.dents[d][n] # put[q]
         /\ icache[put[q]].ref = 1 /\ disk.nlink[put[q]] = 0
<1> DEFINE i == put[q]
<1>1. i \in Inum
  BY DEF IInv, Types, Shape, Variables, Putting
<1>2. icache[i].ref = 1 /\ disk.nlink[i] = 0 /\ disk.type[i] # "free"
  BY DEF IInv, InUse, Live
<1>3. \A p \in Proc : Uses(p, i) => p = q /\ i # ROOTINO /\ ip[q] # i /\ dp[q] # i /\ fd[q] # i
  BY <1>1, <1>2, UsedHasRef DEF IInv
<1>4. Uses(q, i)
  BY DEF Uses
<1>5. ASSUME NEW d \in Inum, NEW n \in Name, disk.dents[d][n] = i PROVE FALSE
  <2>1. Entries(disk, i) >= 1
    BY <1>1, <1>5, EntriesAre, CountIsNat, Consts
  <2>2. Entries(disk, i) \in Nat /\ Cardinality(Kids(disk, i)) \in Nat /\ Owes(i) \in Nat /\ Rooted(i) \in Nat
    BY <1>1, TreeCounts
  <2>3. disk.nlink[i] >= Entries(disk, i) + Cardinality(Kids(disk, i)) + Rooted(i) + Owes(i)
    BY <1>1 DEF IInv, Trees, CountedNow
  <2> QED
    BY <1>2, <2>1, <2>2, <2>3
<1> QED
  BY <1>1, <1>2, <1>3, <1>4, <1>5

\* Links are counted before the entry is written and given back after it is
\* gone: no entry changes and the link count follows what p owes.
LEMMA TreesLinks ==
  ASSUME Trees, NEW p \in Proc, OthersSame(p), saved' = saved,
         disk \in Disk, disk' \in Disk, disk'.type = disk.type, disk'.dents = disk.dents,
         \A i \in Inum : disk'.nlink[i] >= disk.nlink[i] + Is(Owed(p)', i) - Is(Owed(p), i)
  PROVE  Trees'
<1>1. CountedNow'
  <2> SUFFICES ASSUME NEW i \in Inum
               PROVE  disk'.nlink[i] >= Entries(disk', i) + Cardinality(Kids(disk', i)) + Rooted(i) + Owes(i)'
    BY DEF CountedNow, Entries, Kids
  <2>1. disk.nlink[i] >= Entries(disk, i) + Cardinality(Kids(disk, i)) + Rooted(i) + Owes(i)
    BY DEF Trees, CountedNow
  <2>2. Entries(disk', i) = Entries(disk, i) /\ Kids(disk', i) = Kids(disk, i)
    BY DEF Entries, Kids
  <2>3. Owes(i)' = Owes(i) + Is(Owed(p)', i) - Is(Owed(p), i)
    BY OwesMove, OthersOwe
  <2>4. disk.nlink[i] \in Nat /\ disk'.nlink[i] \in Nat
    BY DEF Disk
  <2>5. Is(Owed(p)', i) \in Nat /\ Is(Owed(p), i) \in Nat
    BY DEF Is
  <2>6. Cardinality(Kids(disk', i)) = Cardinality(Kids(disk, i))
    BY <2>2, Zenon
  <2> QED
    BY <2>1, <2>2, <2>3, <2>4, <2>5, <2>6, TreeCounts
<1>2. Tree(disk') /\ Tree(saved') /\ Counted(saved')
  BY DEF Trees, Tree
<1>3. Tree(disk)' /\ Tree(saved)' /\ Counted(saved)'
  BY <1>2 DEF Tree, Counted, Entries, Kids
<1> QED
  BY <1>1, <1>3 DEF Trees

\* Entry n of directory x gets the value v, and the link counts follow.
DirLink(d, v) == IF v # NoInode /\ d.type[v] = "dir" THEN 1 ELSE 0

LEMMA TreesEntry ==
  ASSUME Trees, NEW p \in Proc, OthersSame(p), saved' = saved,
         NEW x \in Inum, NEW n \in Name, NEW v \in Inum \cup {NoInode}, NEW old, old = disk.dents[x][n],
         disk \in Disk, disk' \in Disk, disk'.type = disk.type,
         disk'.dents = [disk.dents EXCEPT ![x][n] = v],
         v # NoInode => v # x /\ disk.type[x] = "dir" /\ disk.type[v] # "free",
         \A i \in Inum : i # x =>
           disk'.nlink[i] >= disk.nlink[i] + Is(v, i) - Is(old, i) + Is(Owed(p)', i) - Is(Owed(p), i),
         disk'.nlink[x] >= disk.nlink[x] + DirLink(disk, v) - DirLink(disk, old)
                             + Is(Owed(p)', x) - Is(Owed(p), x)
  PROVE  Trees'
<1>0. \A y \in Inum, m \in Name : disk'.dents[y][m] = IF y = x /\ m = n THEN v ELSE disk.dents[y][m]
  BY DEF Disk
<1>1. CountedNow'
  <2> SUFFICES ASSUME NEW i \in Inum
               PROVE  disk'.nlink[i] >= Entries(disk', i) + Cardinality(Kids(disk', i)) + Rooted(i) + Owes(i)'
    BY DEF CountedNow, Entries, Kids
  <2>1. disk.nlink[i] >= Entries(disk, i) + Cardinality(Kids(disk, i)) + Rooted(i) + Owes(i)
    BY DEF Trees, CountedNow
  <2>2. Entries(disk', i) = Entries(disk, i) + Is(v, i) - Is(old, i)
    BY EntriesMove
  <2>3. Owes(i)' = Owes(i) + Is(Owed(p)', i) - Is(Owed(p), i)
    BY OwesMove, OthersOwe
  <2>4. disk.nlink[i] \in Nat /\ disk'.nlink[i] \in Nat
    BY DEF Disk
  <2>5. /\ Is(Owed(p)', i) \in Nat /\ Is(Owed(p), i) \in Nat /\ Is(v, i) \in Nat /\ Is(old, i) \in Nat
        /\ DirLink(disk, v) \in Nat /\ DirLink(disk, old) \in Nat
    BY DEF Is, DirLink
  <2>6. /\ Cardinality(Kids(disk, i)) \in Nat /\ Cardinality(Kids(disk', i)) \in Nat
        /\ Entries(disk, i) \in Nat /\ Rooted(i) \in Nat /\ Owes(i) \in Nat
    BY TreeCounts
  <2>7. CASE i # x
    <3>1. Cardinality(Kids(disk', i)) = Cardinality(Kids(disk, i))
      BY <2>7, KidsMove
    <3> QED
      BY <2>1, <2>2, <2>3, <2>4, <2>5, <2>6, <2>7, <3>1
  <2>8. CASE i = x
    <3>1. Cardinality(Kids(disk', x)) = Cardinality(Kids(disk, x)) + Kid(disk', x)[n] - Kid(disk, x)[n]
      BY KidsMove
    <3>2. Kid(disk', x)[n] = DirLink(disk, v) /\ Kid(disk, x)[n] = DirLink(disk, old)
      BY <1>0 DEF Kid, DirLink
    <3>3. Is(v, x) = 0 /\ Is(old, x) = 0
      BY Consts DEF Is, Trees, Tree
    <3> QED
      BY <2>1, <2>2, <2>3, <2>4, <2>5, <2>6, <2>8, <3>1, <3>2, <3>3
  <2> QED
    BY <2>7, <2>8
<1>2. Tree(disk')
  BY <1>0, Consts DEF Trees, Tree
<1>3. Tree(disk)' /\ Tree(saved)' /\ Counted(saved)'
  <2>1. Tree(saved') /\ Counted(saved')
    BY DEF Trees
  <2> QED
    BY <1>2, <2>1 DEF Tree, Counted, Entries, Kids
<1> QED
  BY <1>1, <1>3 DEF Trees

\* ialloc takes a free inode.
LEMMA FirstIsFree ==
  ASSUME FreeInodes # {}
  PROVE  Min(FreeInodes) \in Inum /\ disk.type[Min(FreeInodes)] = "free"
<1>1. FreeInodes \subseteq Nat
  BY Consts DEF FreeInodes
<1> DEFINE Less == {ss \in Nat \X Nat : ss[1] < ss[2]}
<1>2. IsWellFoundedOn(Less, Nat)
  BY NatLessThanWellFounded DEF OpToRel
<1> HIDE DEF Less
<1>3. PICK i \in FreeInodes : \A j \in FreeInodes : <<j, i>> \notin Less
  BY <1>1, <1>2, WFMin
<1>4. ASSUME NEW j \in FreeInodes PROVE i <= j
  <2>1. i \in Nat /\ j \in Nat /\ ~(<<j, i>> \in Less)
    BY <1>1, <1>3
  <2>2. ~(j < i)
    BY <2>1 DEF Less
  <2> QED
    BY <2>1, <2>2
<1>5. Min(FreeInodes) \in FreeInodes
  BY <1>4 DEF Min
<1> QED
  BY <1>5 DEF FreeInodes

\* A step of p: what p has afterwards, what the others keep, and the disk.
LEMMA StepKeeps ==
  ASSUME IInv, NEW p \in Proc, OthersSame(p), Types', Trees',
         Variables(p)', Calls(p)', Apart(p)', Live(p)', Stays(p)',
         \A i \in Inum : lock'[i] = p <=> Holds(p, i)',
         \A i \in Inum, q \in Proc : q # p => (lock'[i] = q <=> lock[i] = q),
         \A i \in Inum : icache'[i].ref = icache[i].ref + Mine(p, i)' - Mine(p, i),
         True(icache', disk'),
         \A i \in Inum : lock'[i] # Nobody => lock[i] # Nobody \/ icache'[i].valid,
         \A i \in Inum : lock'[i] # Nobody /\ icache[i].valid /\ icache[i].ref > 0 => icache'[i].valid,
         \A q \in Proc, i \in Inum : q # p /\ Uses(q, i) /\ disk.type[i] # "free" => disk'.type[i] = disk.type[i],
         \A q \in Proc, i \in Inum : q # p /\ lock[i] = q => disk'.dents[i] = disk.dents[i],
         \A q \in Proc : q # p /\ pc[q] = "itrunc" => icache'[put[q]].ref = 1 /\ disk'.nlink[put[q]] = 0
  PROVE  IInv'
<1>0. Shape /\ Locks /\ RefsCounted
  BY DEF IInv
<1>1. Shape'
  BY <1>0, ShapeStep
<1>2. Locks'
  BY <1>0, LocksStep
<1>3. RefsCounted'
  BY <1>0, RefStep DEF OthersSame, Same
<1>4. Cached'
  BY CachedStep
<1>5. InUse'
  BY InUseStep
<1> QED
  BY <1>1, <1>2, <1>3, <1>4, <1>5 DEF IInv

\* What a process reads in the cache is what the disk has.
LEMMA ReadHere ==
  ASSUME IInv, NEW i \in Inum, NEW q \in Proc, Uses(q, i), disk.type[i] # "free"
  PROVE  /\ icache[i].ref > 0
         /\ Read(icache, i) \in Cache /\ True(Read(icache, i), disk)
         /\ \A j \in Inum : /\ Read(icache, i)[j].ref = icache[j].ref
                            /\ icache[j].valid => Read(icache, i)[j].valid
         /\ Read(icache, i)[i].valid
         /\ Read(icache, i)[i].type = disk.type[i] /\ Read(icache, i)[i].nlink = disk.nlink[i]
<1>1. icache \in Cache /\ disk \in Disk /\ RefsCounted /\ True(icache, disk)
  BY DEF IInv, Types, Cached
<1>2. icache[i].ref \in Nat
  BY <1>1 DEF Cache, CacheEntry
<1>3. icache[i].ref > 0
  BY <1>1, <1>2, UsedHasRef
<1> QED
  BY <1>1, <1>3, ReadTrue

\* A call goes on with the rest of its path, or with the new path of link.
Onward(c) == [c EXCEPT !.rest = Tail(@)]

LEMMA OnwardIs ==
  ASSUME NEW c \in Call, c.rest # <<>>
  PROVE  /\ Onward(c) \in Call /\ Onward(c) # NoCall /\ Onward(c).name = c.name
         /\ Head(c.rest) \in Name
         /\ IF Len(c.rest) > 1 THEN Onward(c).rest # <<>> ELSE Len(c.rest) = 1
         /\ c.name = "link" => Onward(c).new = c.new
<1>1. c.rest \in Seq(Name)
  BY DEF Call
<1>2. Tail(c.rest) \in Seq(Name) /\ Head(c.rest) \in Name /\ (IF Len(c.rest) > 1 THEN Tail(c.rest) # <<>> ELSE Len(c.rest) = 1)
  <2>1. PICK s, t : s \in Seq(Name) /\ s = c.rest /\ t = Tail(s)
    BY <1>1
  <2>2. t \in Seq(Name) /\ Head(s) \in Name /\ Len(t) = Len(s) - 1
    BY <2>1, HeadTailProperties
  <2>3. Len(s) \in Nat \ {0} /\ (t = <<>> => Len(t) = 0)
    BY <2>1, EmptySeq
  <2>4. IF Len(s) > 1 THEN t # <<>> ELSE Len(s) = 1
    BY <2>2, <2>3
  <2> QED
    BY <2>1, <2>2, <2>4
<1>3. CASE c \in [name : {"open", "create", "mkdir", "unlink"}, rest : Seq(Name)]
  BY <1>2, <1>3 DEF Call, Onward, NoCall
<1>4. CASE c \in [name : {"link"}, rest : Seq(Name), new : Seq(Name) \ {<<>>}]
  BY <1>2, <1>4 DEF Call, Onward, NoCall
<1> QED
  BY <1>3, <1>4 DEF Call

Anew(c) == [c EXCEPT !.rest = c.new]

LEMMA AnewIs ==
  ASSUME NEW c \in Call, c.name = "link"
  PROVE  /\ Anew(c) \in Call /\ Anew(c) # NoCall /\ Anew(c).name = "link"
         /\ Anew(c).rest # <<>>
<1>1. c \in [name : {"link"}, rest : Seq(Name), new : Seq(Name) \ {<<>>}]
  BY DEF Call
<1>2. c.new \in Seq(Name) \ {<<>>}
  BY <1>1
<1> QED
  BY <1>1, <1>2 DEF Call, Anew, NoCall

\* What namex finds: the parent it looks for, the next inode, or neither.
AtParent(p) == Read(icache, dp[p])[dp[p]].type = "dir" /\ WantsParent(p) /\ Len(call[p].rest) = 1
Leads(p, i) == Read(icache, dp[p])[dp[p]].type = "dir" /\ disk.dents[dp[p]][Head(call[p].rest)] = i
NoWay(p) == Read(icache, dp[p])[dp[p]].type # "dir" \/ disk.dents[dp[p]][Head(call[p].rest)] = NoInode
Longer(p) == Len(call[p].rest) > 1

\* The entry that a call in a directory is about.
LEMMA EntryIs ==
  ASSUME IInv, NEW p \in Proc, Phase(p) \in WithDp
  PROVE  /\ dp[p] \in Inum /\ Entry(p) \in Name /\ Existing(p) \in Inum \cup {NoInode}
         /\ Existing(p) # dp[p]
         /\ Existing(p) # NoInode =>
              /\ disk.type[dp[p]] = "dir" /\ disk.type[Existing(p)] # "free"
              /\ \E d \in Inum, n \in Name : disk.dents[d][n] = Existing(p)
<1>1. dp[p] \in Inum /\ call[p] # NoCall /\ call[p].rest # <<>>
  <2>1. Variables(p) /\ Calls(p) /\ Types
    BY DEF IInv, Shape
  <2> QED
    BY <2>1, Consts DEF Variables, Calls, Types, WithDp, Idle
<1>2. call[p] \in Call
  BY <1>1 DEF IInv, Types
<1>3. Entry(p) \in Name
  BY <1>1, <1>2, OnwardIs DEF Entry
<1>4. Existing(p) \in Inum \cup {NoInode}
  BY <1>1, <1>3 DEF Existing, IInv, Types, Disk
<1>5. Tree(disk)
  BY DEF IInv, Trees
<1> QED
  BY <1>1, <1>3, <1>4, <1>5 DEF Existing, Tree

\* A link count changes in the cache and, with iupdate, on the disk: from c
\* and d to e and f.
LinksMoved(c, d, i, n, e, f) ==
  /\ e \in Cache /\ f \in Disk /\ True(e, f)
  /\ \A j \in Inum : /\ e[j].ref = c[j].ref /\ e[j].type = c[j].type
                     /\ e[j].valid <=> c[j].valid
                     /\ j # i => e[j] = c[j]
  /\ f.type = d.type /\ f.dents = d.dents
  /\ f.nlink = [d.nlink EXCEPT ![i] = @ + n]

LEMMA LinksMove ==
  ASSUME NEW c \in Cache, NEW d \in Disk, True(c, d), NEW i \in Inum, NEW n \in Int,
         c[i].valid, c[i].ref > 0, d.nlink[i] + n >= 0
  PROVE  LinksMoved(c, d, i, n, AddLinks(c, i, n), Iupdate(d, AddLinks(c, i, n), i))
<1> DEFINE e == AddLinks(c, i, n)
           f == Iupdate(d, e, i)
<1>1. c[i].type = d.type[i] /\ c[i].nlink = d.nlink[i] /\ d.type[i] # "free"
  BY DEF True
<1>2. /\ e \in Cache /\ e[i].ref = c[i].ref /\ (e[i].valid <=> c[i].valid)
      /\ e[i].type = c[i].type /\ e[i].nlink = c[i].nlink + n
      /\ \A j \in Inum : j # i => e[j] = c[j]
  BY <1>1, AddLinksIs
<1> HIDE DEF e
<1>3. /\ f \in Disk /\ f.type = [d.type EXCEPT ![i] = e[i].type]
      /\ f.nlink = [d.nlink EXCEPT ![i] = e[i].nlink] /\ f.dents = d.dents
  <2>1. Written(d, e, i, Iupdate(d, e, i))
    BY <1>2, IupdateIs
  <2> QED
    BY <2>1 DEF Written
<1> HIDE DEF f
<1>4. f.type = d.type /\ f.nlink = [d.nlink EXCEPT ![i] = @ + n]
  BY <1>1, <1>2, <1>3 DEF Disk
<1>5. \A j \in Inum : e[j].ref = c[j].ref /\ (e[j].valid <=> c[j].valid) /\ e[j].type = c[j].type
  BY <1>2
<1>6. True(e, f)
  <2>1. \A j \in Inum : f.nlink[j] = IF j = i THEN d.nlink[j] + n ELSE d.nlink[j]
    BY <1>4 DEF Disk
  <2> QED
    BY <1>1, <1>2, <1>4, <1>5, <2>1 DEF True
<1> QED
  BY <1>2, <1>3, <1>4, <1>5, <1>6 DEF e, f, LinksMoved

\* iupdate of what did not change.
LEMMA WriteSame ==
  ASSUME NEW c \in Cache, NEW d \in Disk, True(c, d), NEW i \in Inum, c[i].valid, c[i].ref > 0
  PROVE  /\ Iupdate(d, c, i) \in Disk /\ Iupdate(d, c, i).type = d.type
         /\ Iupdate(d, c, i).nlink = d.nlink /\ Iupdate(d, c, i).dents = d.dents
<1>1. c[i].type = d.type[i] /\ c[i].nlink = d.nlink[i]
  BY DEF True
<1> QED
  BY <1>1, IupdateIs DEF Disk, Written

\* dirlink, and the writei of unlink.
LEMMA EntryWritten ==
  ASSUME NEW d \in Disk, NEW x \in Inum, NEW n \in Name, NEW v \in Inum \cup {NoInode}
  PROVE  /\ [d EXCEPT !.dents[x][n] = v] \in Disk
         /\ [d EXCEPT !.dents[x][n] = v].type = d.type
         /\ [d EXCEPT !.dents[x][n] = v].nlink = d.nlink
         /\ [d EXCEPT !.dents[x][n] = v].dents = [d.dents EXCEPT ![x][n] = v]
<1> DEFINE t == [d.dents EXCEPT ![x][n] = v]
<1>1. t \in [Inum -> [Name -> Inum \cup {NoInode}]]
  BY DEF Disk
<1>2. [d EXCEPT !.dents[x][n] = v] = [d EXCEPT !.dents = t]
  BY DEF Disk
<1> HIDE DEF t
<1>3. /\ [d EXCEPT !.dents = t] \in Disk
      /\ [d EXCEPT !.dents = t].type = d.type /\ [d EXCEPT !.dents = t].nlink = d.nlink
      /\ [d EXCEPT !.dents = t].dents = t
  BY <1>1 DEF Disk
<1> QED
  BY <1>2, <1>3 DEF t

\* A link that is owed has been counted, and so has a parent's.
LEMMA OwedIsCounted ==
  ASSUME IInv, NEW p \in Proc, Owed(p) \in Inum
  PROVE  disk.nlink[Owed(p)] >= 1
<1> DEFINE i == Owed(p)
<1>1. disk.nlink[i] >= Entries(disk, i) + Cardinality(Kids(disk, i)) + Rooted(i) + Owes(i)
  BY DEF IInv, Trees, CountedNow
<1>2. OwedBy[p] = i
  BY DEF OwedBy
<1> HIDE DEF i
<1>3. Owes(i) >= 1
  BY <1>2, OwesAre, CountIsNat, Consts DEF Count
<1>4. disk.nlink[i] \in Nat
  BY DEF i, IInv, Types, Disk
<1> QED
  BY <1>1, <1>3, <1>4, TreeCounts DEF i

LEMMA ParentIsCounted ==
  ASSUME IInv, NEW x \in Inum, NEW n \in Name
  PROVE  disk.nlink[x] >= DirLink(disk, disk.dents[x][n])
<1>1. disk.nlink[x] >= Entries(disk, x) + Cardinality(Kids(disk, x)) + Rooted(x) + Owes(x)
  BY DEF IInv, Trees, CountedNow
<1>2. disk.nlink[x] \in Nat
  BY DEF IInv, Types, Disk
<1>3. PICK f : f = Kid(disk, x)
  OBVIOUS
<1>4. f[n] = DirLink(disk, disk.dents[x][n])
  BY <1>3 DEF Kid, DirLink
<1>5. f[n] = 1 => Cardinality(Having(Name, f, 1)) >= 1
  BY CountIsNat, Consts
<1>6. f[n] \in {0, 1}
  BY <1>4 DEF DirLink
<1> QED
  BY <1>1, <1>2, <1>3, <1>4, <1>5, <1>6, TreeCounts, KidsAre
-----------------------------------------------------------------------------
(* The steps. *)

\* A call starts at the root.
LEMMA BeginKeeps ==
  ASSUME IInv, NEW p \in Proc, Begin(p)
  PROVE  IInv'
<1>0. Types /\ Shape /\ Locks /\ RefsCounted /\ Cached /\ InUse /\ Trees
  BY DEF IInv
<1>1. Variables(p) /\ Calls(p) /\ Live(p) /\ Stays(p) /\ Apart(p)
  BY <1>0 DEF Shape, InUse, Locks
<1>2. PICK r \in Requests :
      /\ r.name \in {"open", "create"} => fd[p] = NoInode
      /\ call' = [call EXCEPT ![p] = r]
      /\ icache' = Iget(icache, ROOTINO)
      /\ dp' = [dp EXCEPT ![p] = ROOTINO]
      /\ pc' = [pc EXCEPT ![p] = "namex"]
      /\ pc[p] = "user"
      /\ UNCHANGED <<disk, saved, lock, ip, put, then, fd>>
  BY DEF Begin, At, Put, PutIp, PutDp, Goto, Over, Continue, NoPut, data, inodes
<1>3. /\ put[p] = NoInode
      /\ then[p] = "user"
      /\ ip[p] = NoInode
      /\ dp[p] = NoInode
      /\ r \in Call /\ r.rest # <<>> /\ r # NoCall /\ r.name # "none"
      /\ Phase(p) = "user"
      /\ disk.type[ROOTINO] = "dir"
  <2>1. put[p] = NoInode /\ then[p] = "user" /\ ip[p] = NoInode /\ dp[p] = NoInode /\ Phase(p) = "user"
    BY <1>0, <1>1, <1>2, Consts DEF Types, Phase, Variables, Calls, Putting, WithIp, WithDp, Linking, Unlinking, Creating, Idle
  <2>2. r \in Call /\ r.rest # <<>> /\ r # NoCall /\ r.name # "none"
    BY InodeAssumption DEF InodeAssumption, Call, NoCall
  <2>3. disk.type[ROOTINO] = "dir"
    BY <1>0 DEF Trees, Tree
  <2> QED
    BY <2>1, <2>2, <2>3
<1>4. /\ pc'[p] = "namex"
      /\ then'[p] = then[p]
      /\ ip'[p] = ip[p]
      /\ dp'[p] = ROOTINO
      /\ put'[p] = put[p]
      /\ fd'[p] = fd[p]
      /\ call'[p] = r
      /\ Phase(p)' = "namex"
  <2>1. /\ pc'[p] = "namex"
        /\ then'[p] = then[p]
        /\ ip'[p] = ip[p]
        /\ dp'[p] = ROOTINO
        /\ put'[p] = put[p]
        /\ fd'[p] = fd[p]
        /\ call'[p] = r
    BY <1>0, <1>2, <1>3 DEF Types
  <2> QED
    BY <2>1, <1>3 DEF Phase, Putting
<1>5. OthersSame(p)
  BY <1>0, <1>2 DEF Types, OthersSame, Same
<1>6. /\ icache' \in Cache /\ True(icache', disk')
      /\ \A j \in Inum : icache'[j].ref = icache[j].ref + Is(ROOTINO, j)
      /\ \A j \in Inum : icache[j].valid /\ icache[j].ref > 0 => icache'[j].valid
  BY <1>0, <1>2, <1>3, Consts, IgetTrue DEF Types, Cached
<1>7. Types'
  BY <1>0, <1>2, <1>3, <1>4, <1>6, Consts DEF Types, Phases, Idle, Creating, Linking, Unlinking, Putting
<1>8. Variables(p)' /\ Calls(p)' /\ Apart(p)'
  <2>1. Variables(p)'
    BY <1>1, <1>3, <1>4, Consts DEF Variables, Calls, Putting, WithIp, WithDp, Linking, Unlinking, Creating, Idle
  <2>2. Calls(p)'
    BY <1>1, <1>2, <1>3, <1>4, Consts DEF Variables, Calls, Putting, WithIp, WithDp, Linking, Unlinking, Creating, Idle, NoCall
  <2>3. Apart(p)'
    BY <1>1, <1>2, <1>3, <1>4, Consts DEF Apart, Putting
  <2> QED
    BY <2>1, <2>2, <2>3
<1>9. Live(p)' /\ Stays(p)'
  <2>1. Live(p)'
    BY <1>1, <1>2, <1>3, <1>4, Consts DEF Live, Putting, WithDp, Creating, Linking, Unlinking
  <2>2. Stays(p)'
    BY <1>4 DEF Stays
  <2> QED
    BY <2>1, <2>2
<1>10. /\ \A i \in Inum : lock'[i] = p <=> Holds(p, i)'
       /\ \A i \in Inum, q \in Proc : q # p => (lock'[i] = q <=> lock[i] = q)
  <2>1. \A i \in Inum : lock[i] = p <=> Holds(p, i)
    BY <1>0 DEF Locks
  <2>2. \A i \in Inum : lock'[i] = p <=> Holds(p, i)'
    BY <1>0, <1>1, <1>2, <1>3, <1>4, <2>1, Consts DEF Holds, Apart, Putting, Types
  <2>3. \A i \in Inum, q \in Proc : q # p => (lock'[i] = q <=> lock[i] = q)
    BY <1>0, <1>2, <1>3, <2>1, Consts DEF Types, Holds, Putting
  <2> QED
    BY <2>2, <2>3
<1>11. \A i \in Inum : icache'[i].ref = icache[i].ref + Mine(p, i)' - Mine(p, i)
  <2> SUFFICES ASSUME NEW i \in Inum
               PROVE  icache'[i].ref = icache[i].ref + Mine(p, i)' - Mine(p, i)
    OBVIOUS
  <2>1. icache[i].ref \in Nat
    BY <1>0 DEF Types, Cache, CacheEntry
  <2>2. Is(NoInode, i) = 0 /\ \A x : Is(x, i) \in Nat
    BY Consts DEF Is
  <2>3. Mine(p, i)' = Is(ip'[p], i) + Is(dp'[p], i) + Is(put'[p], i) + Is(fd'[p], i)
    BY DEF Mine
  <2> QED
    BY <1>3, <1>4, <1>6, <2>1, <2>2, <2>3 DEF Mine
<1>12. /\ \A i \in Inum : lock'[i] # Nobody => lock[i] # Nobody \/ icache'[i].valid
       /\ \A i \in Inum : lock'[i] # Nobody /\ icache[i].valid /\ icache[i].ref > 0 => icache'[i].valid
  BY <1>0, <1>2, <1>3, <1>6, Consts DEF Types, Cached
<1>13. /\ \A q \in Proc, i \in Inum : q # p /\ Uses(q, i) /\ disk.type[i] # "free" => disk'.type[i] = disk.type[i]
       /\ \A q \in Proc, i \in Inum : q # p /\ lock[i] = q => disk'.dents[i] = disk.dents[i]
       /\ \A q \in Proc : q # p /\ pc[q] = "itrunc" => icache'[put[q]].ref = 1 /\ disk'.nlink[put[q]] = 0
  <2>1. ASSUME NEW q \in Proc, q # p, pc[q] = "itrunc"
        PROVE  icache'[put[q]].ref = 1 /\ disk'.nlink[put[q]] = 0
    <3>1. /\ put[q] \in Inum /\ put[q] # ROOTINO /\ ~Uses(p, put[q])
          /\ \A d \in Inum, n \in Name : disk.dents[d][n] # put[q]
          /\ icache[put[q]].ref = 1 /\ disk.nlink[put[q]] = 0
      BY <2>1, TruncatedAlone
    <3>2. ROOTINO # put[q]
      BY <3>1
    <3> QED
      BY <1>2, <1>6, <3>1, <3>2 DEF Is
  <2> QED
    BY <1>2, <2>1
<1>14. Trees'
  <2>1. Owed(p)' = Owed(p) \/ Owed(p)' = NoInode
    BY <1>1, <1>3, <1>4 DEF Owed, Putting, Owing
  <2> QED
    BY <1>0, <1>2, <1>5, <2>1, OthersOwe, TreesSame DEF Types
<1> QED
  BY <1>5, <1>6, <1>7, <1>8, <1>9, <1>10, <1>11, <1>12, <1>13, <1>14, StepKeeps

\* The last fileclose drops the inode of the file.
LEMMA CloseKeeps ==
  ASSUME IInv, NEW p \in Proc, Close(p)
  PROVE  IInv'
<1>0. Types /\ Shape /\ Locks /\ RefsCounted /\ Cached /\ InUse /\ Trees
  BY DEF IInv
<1>1. Variables(p) /\ Calls(p) /\ Live(p) /\ Stays(p) /\ Apart(p)
  BY <1>0 DEF Shape, InUse, Locks
<1>2. /\ pc[p] = "user" /\ fd[p] # NoInode
      /\ fd' = [fd EXCEPT ![p] = NoInode]
      /\ put' = [put EXCEPT ![p] = fd[p]]
      /\ then' = [then EXCEPT ![p] = "end"]
      /\ pc' = [pc EXCEPT ![p] = "iput"]
      /\ UNCHANGED <<disk, saved, lock, icache, call, ip, dp>>
  BY DEF Close, At, Put, PutIp, PutDp, Goto, Over, Continue, NoPut, data, inodes
<1>3. /\ put[p] = NoInode
      /\ then[p] = "user"
      /\ ip[p] = NoInode
      /\ dp[p] = NoInode
      /\ fd[p] \in Inum
      /\ call[p] = NoCall
      /\ Phase(p) = "user"
      /\ disk.type[fd[p]] # "free"
  <2>1. /\ put[p] = NoInode
        /\ then[p] = "user"
        /\ ip[p] = NoInode
        /\ dp[p] = NoInode
        /\ fd[p] \in Inum
        /\ call[p] = NoCall
        /\ Phase(p) = "user"
    BY <1>0, <1>1, <1>2, Consts DEF Types, Phase, Variables, Calls, Putting, WithIp, WithDp, Linking, Unlinking, Creating, Idle
  <2>2. /\ disk.type[fd[p]] # "free"
    BY <1>0, <1>1, <1>2, <2>1, Consts DEF Live, Trees, Tree, Disk, Types, WithDp
  <2> QED
    BY <2>1, <2>2
<1>4. /\ pc'[p] = "iput"
      /\ then'[p] = "end"
      /\ ip'[p] = ip[p]
      /\ dp'[p] = dp[p]
      /\ put'[p] = fd[p]
      /\ fd'[p] = NoInode
      /\ call'[p] = call[p]
      /\ Phase(p)' = "end"
  <2>1. /\ pc'[p] = "iput"
        /\ then'[p] = "end"
        /\ ip'[p] = ip[p]
        /\ dp'[p] = dp[p]
        /\ put'[p] = fd[p]
        /\ fd'[p] = NoInode
        /\ call'[p] = call[p]
    BY <1>0, <1>2, <1>3 DEF Types
  <2> QED
    BY <2>1, <1>3 DEF Phase, Putting
<1>5. OthersSame(p)
  BY <1>0, <1>2 DEF Types, OthersSame, Same
<1>6. icache' = icache /\ True(icache', disk')
  BY <1>0, <1>2 DEF Cached
<1>7. Types'
  BY <1>0, <1>2, <1>3, <1>4, <1>6, Consts DEF Types, Phases, Idle, Creating, Linking, Unlinking, Putting
<1>8. Variables(p)' /\ Calls(p)' /\ Apart(p)'
  <2>1. Variables(p)'
    BY <1>1, <1>3, <1>4, Consts DEF Variables, Calls, Putting, WithIp, WithDp, Linking, Unlinking, Creating, Idle
  <2>2. Calls(p)'
    BY <1>1, <1>2, <1>3, <1>4, Consts DEF Variables, Calls, Putting, WithIp, WithDp, Linking, Unlinking, Creating, Idle, NoCall
  <2>3. Apart(p)'
    BY <1>1, <1>2, <1>3, <1>4, Consts DEF Apart, Putting
  <2> QED
    BY <2>1, <2>2, <2>3
<1>9. Live(p)' /\ Stays(p)'
  <2>1. Live(p)'
    BY <1>1, <1>2, <1>3, <1>4, Consts DEF Live, Putting, WithDp, Creating, Linking, Unlinking
  <2>2. Stays(p)'
    BY <1>4 DEF Stays
  <2> QED
    BY <2>1, <2>2
<1>10. /\ \A i \in Inum : lock'[i] = p <=> Holds(p, i)'
       /\ \A i \in Inum, q \in Proc : q # p => (lock'[i] = q <=> lock[i] = q)
  <2>1. \A i \in Inum : lock[i] = p <=> Holds(p, i)
    BY <1>0 DEF Locks
  <2>2. \A i \in Inum : lock'[i] = p <=> Holds(p, i)'
    BY <1>0, <1>1, <1>2, <1>3, <1>4, <2>1, Consts DEF Holds, Apart, Putting, Types
  <2>3. \A i \in Inum, q \in Proc : q # p => (lock'[i] = q <=> lock[i] = q)
    BY <1>0, <1>2, <1>3, <2>1, Consts DEF Types, Holds, Putting
  <2> QED
    BY <2>2, <2>3
<1>11. \A i \in Inum : icache'[i].ref = icache[i].ref + Mine(p, i)' - Mine(p, i)
  <2> SUFFICES ASSUME NEW i \in Inum
               PROVE  icache'[i].ref = icache[i].ref + Mine(p, i)' - Mine(p, i)
    OBVIOUS
  <2>1. icache[i].ref \in Nat
    BY <1>0 DEF Types, Cache, CacheEntry
  <2>2. Is(NoInode, i) = 0 /\ \A x : Is(x, i) \in Nat
    BY Consts DEF Is
  <2>3. Mine(p, i)' = Is(ip'[p], i) + Is(dp'[p], i) + Is(put'[p], i) + Is(fd'[p], i)
    BY DEF Mine
  <2> QED
    BY <1>3, <1>4, <1>6, <2>1, <2>2, <2>3 DEF Mine
<1>12. /\ \A i \in Inum : lock'[i] # Nobody => lock[i] # Nobody \/ icache'[i].valid
       /\ \A i \in Inum : lock'[i] # Nobody /\ icache[i].valid /\ icache[i].ref > 0 => icache'[i].valid
  BY <1>0, <1>2, <1>3, <1>6, Consts DEF Types, Cached
<1>13. /\ \A q \in Proc, i \in Inum : q # p /\ Uses(q, i) /\ disk.type[i] # "free" => disk'.type[i] = disk.type[i]
       /\ \A q \in Proc, i \in Inum : q # p /\ lock[i] = q => disk'.dents[i] = disk.dents[i]
       /\ \A q \in Proc : q # p /\ pc[q] = "itrunc" => icache'[put[q]].ref = 1 /\ disk'.nlink[put[q]] = 0
  BY <1>2, <1>6, TruncatedAlone
<1>14. Trees'
  <2>1. Owed(p)' = Owed(p) \/ Owed(p)' = NoInode
    BY <1>1, <1>3, <1>4 DEF Owed, Putting, Owing
  <2> QED
    BY <1>0, <1>2, <1>5, <2>1, OthersOwe, TreesSame DEF Types
<1> QED
  BY <1>5, <1>6, <1>7, <1>8, <1>9, <1>10, <1>11, <1>12, <1>13, <1>14, StepKeeps

\* Reading and writing only fill the cache.
LEMMA FileIOKeeps ==
  ASSUME IInv, NEW p \in Proc, FileIO(p)
  PROVE  IInv'
<1>0. Types /\ Shape /\ Locks /\ RefsCounted /\ Cached /\ InUse /\ Trees
  BY DEF IInv
<1>1. Variables(p) /\ Calls(p) /\ Live(p) /\ Stays(p) /\ Apart(p)
  BY <1>0 DEF Shape, InUse, Locks
<1>2. /\ pc[p] = "user" /\ fd[p] # NoInode
      /\ icache' = Read(icache, fd[p])
      /\ UNCHANGED <<disk, saved, lock, pc, call, ip, dp, put, then, fd>>
  BY DEF FileIO, Ilock, At, Wanted, Put, PutIp, PutDp, Goto, Over, Continue, NoPut, data, inodes
<1>3. /\ fd[p] \in Inum
      /\ Phase(p) = "user"
      /\ disk.type[fd[p]] # "free"
  <2>1. /\ fd[p] \in Inum
        /\ Phase(p) = "user"
    BY <1>0, <1>1, <1>2, Consts DEF Types, Phase, Variables, Calls, Putting, WithIp, WithDp, Linking, Unlinking, Creating, Idle
  <2>2. /\ disk.type[fd[p]] # "free"
    BY <1>0, <1>1, <1>2, <2>1, Consts DEF Live, Trees, Tree, Disk, Types, WithDp
  <2> QED
    BY <2>1, <2>2
<1>4. /\ pc'[p] = pc[p]
      /\ then'[p] = then[p]
      /\ ip'[p] = ip[p]
      /\ dp'[p] = dp[p]
      /\ put'[p] = put[p]
      /\ fd'[p] = fd[p]
      /\ call'[p] = call[p]
      /\ Phase(p)' = "user"
  <2>1. /\ pc'[p] = pc[p]
        /\ then'[p] = then[p]
        /\ ip'[p] = ip[p]
        /\ dp'[p] = dp[p]
        /\ put'[p] = put[p]
        /\ fd'[p] = fd[p]
        /\ call'[p] = call[p]
    BY <1>0, <1>2, <1>3 DEF Types
  <2> QED
    BY <2>1, <1>3 DEF Phase, Putting
<1>5. OthersSame(p)
  BY <1>0, <1>2 DEF Types, OthersSame, Same
<1>6. /\ icache' \in Cache /\ True(icache', disk')
      /\ \A j \in Inum : icache'[j].ref = icache[j].ref
      /\ \A j \in Inum : icache[j].valid /\ icache[j].ref > 0 => icache'[j].valid
      /\ icache'[fd[p]].valid
  BY <1>0, <1>2, <1>3, ReadTrue DEF Types, Cached
<1>7. Types'
  BY <1>0, <1>2, <1>3, <1>4, <1>6, Consts DEF Types, Phases, Idle, Creating, Linking, Unlinking, Putting
<1>8. Variables(p)' /\ Calls(p)' /\ Apart(p)'
  <2>1. Variables(p)'
    BY <1>1, <1>3, <1>4, Consts DEF Variables, Calls, Putting, WithIp, WithDp, Linking, Unlinking, Creating, Idle
  <2>2. Calls(p)'
    BY <1>1, <1>2, <1>3, <1>4, Consts DEF Variables, Calls, Putting, WithIp, WithDp, Linking, Unlinking, Creating, Idle, NoCall
  <2>3. Apart(p)'
    BY <1>1, <1>2, <1>3, <1>4, Consts DEF Apart, Putting
  <2> QED
    BY <2>1, <2>2, <2>3
<1>9. Live(p)' /\ Stays(p)'
  <2>1. Live(p)'
    BY <1>1, <1>2, <1>3, <1>4, Consts DEF Live, Putting, WithDp, Creating, Linking, Unlinking
  <2>2. Stays(p)'
    BY <1>4 DEF Stays
  <2> QED
    BY <2>1, <2>2
<1>10. /\ \A i \in Inum : lock'[i] = p <=> Holds(p, i)'
       /\ \A i \in Inum, q \in Proc : q # p => (lock'[i] = q <=> lock[i] = q)
  <2>1. \A i \in Inum : lock[i] = p <=> Holds(p, i)
    BY <1>0 DEF Locks
  <2>2. \A i \in Inum : lock'[i] = p <=> Holds(p, i)'
    BY <1>0, <1>1, <1>2, <1>3, <1>4, <2>1, Consts DEF Holds, Apart, Putting, Types
  <2>3. \A i \in Inum, q \in Proc : q # p => (lock'[i] = q <=> lock[i] = q)
    BY <1>0, <1>2, <1>3, <2>1, Consts DEF Types, Holds, Putting
  <2> QED
    BY <2>2, <2>3
<1>11. \A i \in Inum : icache'[i].ref = icache[i].ref + Mine(p, i)' - Mine(p, i)
  <2>1. \A i \in Inum : icache[i].ref \in Nat
    BY <1>0 DEF Types, Cache, CacheEntry
  <2>2. \A i \in Inum : Mine(p, i)' = Mine(p, i) /\ Mine(p, i) \in Nat
    BY <1>4 DEF Mine, Is
  <2> QED
    BY <1>6, <2>1, <2>2
<1>12. /\ \A i \in Inum : lock'[i] # Nobody => lock[i] # Nobody \/ icache'[i].valid
       /\ \A i \in Inum : lock'[i] # Nobody /\ icache[i].valid /\ icache[i].ref > 0 => icache'[i].valid
  BY <1>0, <1>2, <1>3, <1>6, Consts DEF Types, Cached
<1>13. /\ \A q \in Proc, i \in Inum : q # p /\ Uses(q, i) /\ disk.type[i] # "free" => disk'.type[i] = disk.type[i]
       /\ \A q \in Proc, i \in Inum : q # p /\ lock[i] = q => disk'.dents[i] = disk.dents[i]
       /\ \A q \in Proc : q # p /\ pc[q] = "itrunc" => icache'[put[q]].ref = 1 /\ disk'.nlink[put[q]] = 0
  BY <1>2, <1>6, TruncatedAlone
<1>14. Trees'
  <2>1. Owed(p)' = Owed(p) \/ Owed(p)' = NoInode
    BY <1>1, <1>3, <1>4 DEF Owed, Putting, Owing
  <2> QED
    BY <1>0, <1>2, <1>5, <2>1, OthersOwe, TreesSame DEF Types
<1> QED
  BY <1>5, <1>6, <1>7, <1>8, <1>9, <1>10, <1>11, <1>12, <1>13, <1>14, StepKeeps

\* The end of a transaction.
LEMMA EndOpKeeps ==
  ASSUME IInv, NEW p \in Proc, EndOp(p)
  PROVE  IInv'
<1>0. Types /\ Shape /\ Locks /\ RefsCounted /\ Cached /\ InUse /\ Trees
  BY DEF IInv
<1>1. Variables(p) /\ Calls(p) /\ Live(p) /\ Stays(p) /\ Apart(p)
  BY <1>0 DEF Shape, InUse, Locks
<1>2. /\ pc[p] = "end"
      /\ saved' = saved \/ saved' = disk
      /\ pc' = [pc EXCEPT ![p] = "user"]
      /\ UNCHANGED <<disk, lock, icache, call, ip, dp, put, then, fd>>
  BY DEF EndOp, At, Put, PutIp, PutDp, Goto, Over, Continue, NoPut, data, inodes
<1>3. /\ put[p] = NoInode
      /\ then[p] = "user"
      /\ ip[p] = NoInode
      /\ dp[p] = NoInode
      /\ call[p] = NoCall
      /\ Phase(p) = "end"
  <2>1. /\ put[p] = NoInode
        /\ then[p] = "user"
        /\ ip[p] = NoInode
        /\ dp[p] = NoInode
        /\ call[p] = NoCall
        /\ Phase(p) = "end"
    BY <1>0, <1>1, <1>2, Consts DEF Types, Phase, Variables, Calls, Putting, WithIp, WithDp, Linking, Unlinking, Creating, Idle
  <2> QED
    BY <2>1
<1>4. /\ pc'[p] = "user"
      /\ then'[p] = then[p]
      /\ ip'[p] = ip[p]
      /\ dp'[p] = dp[p]
      /\ put'[p] = put[p]
      /\ fd'[p] = fd[p]
      /\ call'[p] = call[p]
      /\ Phase(p)' = "user"
  <2>1. /\ pc'[p] = "user"
        /\ then'[p] = then[p]
        /\ ip'[p] = ip[p]
        /\ dp'[p] = dp[p]
        /\ put'[p] = put[p]
        /\ fd'[p] = fd[p]
        /\ call'[p] = call[p]
    BY <1>0, <1>2, <1>3 DEF Types
  <2> QED
    BY <2>1, <1>3 DEF Phase, Putting
<1>5. OthersSame(p)
  BY <1>0, <1>2 DEF Types, OthersSame, Same
<1>6. icache' = icache /\ True(icache', disk')
  BY <1>0, <1>2 DEF Cached
<1>7. Types'
  BY <1>0, <1>2, <1>3, <1>4, <1>6, Consts DEF Types, Phases, Idle, Creating, Linking, Unlinking, Putting
<1>8. Variables(p)' /\ Calls(p)' /\ Apart(p)'
  <2>1. Variables(p)'
    BY <1>1, <1>3, <1>4, Consts DEF Variables, Calls, Putting, WithIp, WithDp, Linking, Unlinking, Creating, Idle
  <2>2. Calls(p)'
    BY <1>1, <1>2, <1>3, <1>4, Consts DEF Variables, Calls, Putting, WithIp, WithDp, Linking, Unlinking, Creating, Idle, NoCall
  <2>3. Apart(p)'
    BY <1>1, <1>2, <1>3, <1>4, Consts DEF Apart, Putting
  <2> QED
    BY <2>1, <2>2, <2>3
<1>9. Live(p)' /\ Stays(p)'
  <2>1. Live(p)'
    BY <1>1, <1>2, <1>3, <1>4, Consts DEF Live, Putting, WithDp, Creating, Linking, Unlinking
  <2>2. Stays(p)'
    BY <1>4 DEF Stays
  <2> QED
    BY <2>1, <2>2
<1>10. /\ \A i \in Inum : lock'[i] = p <=> Holds(p, i)'
       /\ \A i \in Inum, q \in Proc : q # p => (lock'[i] = q <=> lock[i] = q)
  <2>1. \A i \in Inum : lock[i] = p <=> Holds(p, i)
    BY <1>0 DEF Locks
  <2>2. \A i \in Inum : lock'[i] = p <=> Holds(p, i)'
    BY <1>0, <1>1, <1>2, <1>3, <1>4, <2>1, Consts DEF Holds, Apart, Putting, Types
  <2>3. \A i \in Inum, q \in Proc : q # p => (lock'[i] = q <=> lock[i] = q)
    BY <1>0, <1>2, <1>3, <2>1, Consts DEF Types, Holds, Putting
  <2> QED
    BY <2>2, <2>3
<1>11. \A i \in Inum : icache'[i].ref = icache[i].ref + Mine(p, i)' - Mine(p, i)
  <2>1. \A i \in Inum : icache[i].ref \in Nat
    BY <1>0 DEF Types, Cache, CacheEntry
  <2>2. \A i \in Inum : Mine(p, i)' = Mine(p, i) /\ Mine(p, i) \in Nat
    BY <1>4 DEF Mine, Is
  <2> QED
    BY <1>6, <2>1, <2>2
<1>12. /\ \A i \in Inum : lock'[i] # Nobody => lock[i] # Nobody \/ icache'[i].valid
       /\ \A i \in Inum : lock'[i] # Nobody /\ icache[i].valid /\ icache[i].ref > 0 => icache'[i].valid
  BY <1>0, <1>2, <1>3, <1>6, Consts DEF Types, Cached
<1>13. /\ \A q \in Proc, i \in Inum : q # p /\ Uses(q, i) /\ disk.type[i] # "free" => disk'.type[i] = disk.type[i]
       /\ \A q \in Proc, i \in Inum : q # p /\ lock[i] = q => disk'.dents[i] = disk.dents[i]
       /\ \A q \in Proc : q # p /\ pc[q] = "itrunc" => icache'[put[q]].ref = 1 /\ disk'.nlink[put[q]] = 0
  BY <1>2, <1>6, TruncatedAlone
<1>14. Trees'
  <2>1. Owed(p)' = Owed(p) \/ Owed(p)' = NoInode
    BY <1>1, <1>3, <1>4 DEF Owed, Putting, Owing
  <2> QED
    BY <1>0, <1>2, <1>5, <2>1, OthersOwe, TreesSame DEF Types
<1> QED
  BY <1>5, <1>6, <1>7, <1>8, <1>9, <1>10, <1>11, <1>12, <1>13, <1>14, StepKeeps

\* iput has the only reference to an inode without links ...
LEMMA IputFrees ==
  ASSUME IInv, NEW p \in Proc, IputTest(p),
         MustFree(put[p])
  PROVE  IInv'
<1>0. Types /\ Shape /\ Locks /\ RefsCounted /\ Cached /\ InUse /\ Trees
  BY DEF IInv
<1>1. Variables(p) /\ Calls(p) /\ Live(p) /\ Stays(p) /\ Apart(p)
  BY <1>0 DEF Shape, InUse, Locks
<1>2. /\ pc[p] = "iput" /\ lock[put[p]] = Nobody
      /\ icache[put[p]].valid /\ icache[put[p]].nlink = 0 /\ icache[put[p]].ref = 1
      /\ lock' = [lock EXCEPT ![put[p]] = p]
      /\ pc' = [pc EXCEPT ![p] = "itrunc"]
      /\ UNCHANGED <<disk, saved, icache, call, ip, dp, put, then, fd>>
  BY DEF IputTest, At, Free, MustFree, Take, Put, PutIp, PutDp, Goto, Over, Continue, NoPut, data, inodes
<1>3. /\ put[p] \in Inum
      /\ then[p] \in Phases
      /\ then[p] \notin Putting
      /\ Phase(p) = then[p]
      /\ disk.type[put[p]] # "free" /\ disk.nlink[put[p]] = 0
  <2>1. /\ put[p] \in Inum
        /\ then[p] \in Phases
        /\ then[p] \notin Putting
        /\ Phase(p) = then[p]
    BY <1>0, <1>1, <1>2, Consts DEF Types, Phase, Variables, Calls, Putting, WithIp, WithDp, Linking, Unlinking, Creating, Idle, Phases
  <2>2. /\ disk.type[put[p]] # "free" /\ disk.nlink[put[p]] = 0
    BY <1>0, <1>1, <1>2, <2>1 DEF Live, Cached, True
  <2> QED
    BY <2>1, <2>2
<1>4. /\ pc'[p] = "itrunc"
      /\ then'[p] = then[p]
      /\ ip'[p] = ip[p]
      /\ dp'[p] = dp[p]
      /\ put'[p] = put[p]
      /\ fd'[p] = fd[p]
      /\ call'[p] = call[p]
      /\ Phase(p)' = then[p]
  <2>1. /\ pc'[p] = "itrunc"
        /\ then'[p] = then[p]
        /\ ip'[p] = ip[p]
        /\ dp'[p] = dp[p]
        /\ put'[p] = put[p]
        /\ fd'[p] = fd[p]
        /\ call'[p] = call[p]
    BY <1>0, <1>2, <1>3 DEF Types
  <2> QED
    BY <2>1, <1>3 DEF Phase, Putting
<1>5. OthersSame(p)
  BY <1>0, <1>2 DEF Types, OthersSame, Same
<1>6. icache' = icache /\ True(icache', disk')
  BY <1>0, <1>2 DEF Cached
<1>7. Types'
  BY <1>0, <1>2, <1>3, <1>4, <1>6, Consts DEF Types, Phases, Idle, Creating, Linking, Unlinking, Putting
<1>8. Variables(p)' /\ Calls(p)' /\ Apart(p)'
  <2>1. Variables(p)'
    BY <1>1, <1>3, <1>4, Consts DEF Variables, Calls, Putting, WithIp, WithDp, Linking, Unlinking, Creating, Idle
  <2>2. Calls(p)'
    BY <1>1, <1>2, <1>3, <1>4, Consts DEF Variables, Calls, Putting, WithIp, WithDp, Linking, Unlinking, Creating, Idle, NoCall
  <2>3. Apart(p)'
    BY <1>1, <1>2, <1>3, <1>4, Consts DEF Apart, Putting
  <2> QED
    BY <2>1, <2>2, <2>3
<1>9. Live(p)' /\ Stays(p)'
  <2>1. Live(p)'
    BY <1>1, <1>2, <1>3, <1>4, Consts DEF Live, Putting, WithDp, Creating, Linking, Unlinking
  <2>2. Stays(p)'
    BY <1>1, <1>2, <1>3, <1>4 DEF Stays, Putting, Existing, Entry
  <2> QED
    BY <2>1, <2>2
<1>10. /\ \A i \in Inum : lock'[i] = p <=> Holds(p, i)'
       /\ \A i \in Inum, q \in Proc : q # p => (lock'[i] = q <=> lock[i] = q)
  <2>1. \A i \in Inum : lock[i] = p <=> Holds(p, i)
    BY <1>0 DEF Locks
  <2>2. \A i \in Inum : lock'[i] = p <=> Holds(p, i)'
    BY <1>0, <1>1, <1>2, <1>3, <1>4, <2>1, Consts DEF Holds, Apart, Putting, Types
  <2>3. \A i \in Inum, q \in Proc : q # p => (lock'[i] = q <=> lock[i] = q)
    BY <1>0, <1>2, <1>3, <2>1, Consts DEF Types, Holds, Putting
  <2> QED
    BY <2>2, <2>3
<1>11. \A i \in Inum : icache'[i].ref = icache[i].ref + Mine(p, i)' - Mine(p, i)
  <2>1. \A i \in Inum : icache[i].ref \in Nat
    BY <1>0 DEF Types, Cache, CacheEntry
  <2>2. \A i \in Inum : Mine(p, i)' = Mine(p, i) /\ Mine(p, i) \in Nat
    BY <1>4 DEF Mine, Is
  <2> QED
    BY <1>6, <2>1, <2>2
<1>12. /\ \A i \in Inum : lock'[i] # Nobody => lock[i] # Nobody \/ icache'[i].valid
       /\ \A i \in Inum : lock'[i] # Nobody /\ icache[i].valid /\ icache[i].ref > 0 => icache'[i].valid
  BY <1>0, <1>2, <1>3, <1>6, Consts DEF Types, Cached
<1>13. /\ \A q \in Proc, i \in Inum : q # p /\ Uses(q, i) /\ disk.type[i] # "free" => disk'.type[i] = disk.type[i]
       /\ \A q \in Proc, i \in Inum : q # p /\ lock[i] = q => disk'.dents[i] = disk.dents[i]
       /\ \A q \in Proc : q # p /\ pc[q] = "itrunc" => icache'[put[q]].ref = 1 /\ disk'.nlink[put[q]] = 0
  BY <1>2, <1>6, TruncatedAlone
<1>14. Trees'
  <2>1. Owed(p)' = Owed(p) \/ Owed(p)' = NoInode
    BY <1>1, <1>3, <1>4 DEF Owed, Putting, Owing
  <2> QED
    BY <1>0, <1>2, <1>5, <2>1, OthersOwe, TreesSame DEF Types
<1> QED
  BY <1>5, <1>6, <1>7, <1>8, <1>9, <1>10, <1>11, <1>12, <1>13, <1>14, StepKeeps

\* ... or it has not.
LEMMA IputLeaves ==
  ASSUME IInv, NEW p \in Proc, IputTest(p),
         ~MustFree(put[p])
  PROVE  IInv'
<1>0. Types /\ Shape /\ Locks /\ RefsCounted /\ Cached /\ InUse /\ Trees
  BY DEF IInv
<1>1. Variables(p) /\ Calls(p) /\ Live(p) /\ Stays(p) /\ Apart(p)
  BY <1>0 DEF Shape, InUse, Locks
<1>2. /\ pc[p] = "iput"
      /\ pc' = [pc EXCEPT ![p] = "drop"]
      /\ UNCHANGED <<disk, saved, lock, icache, call, ip, dp, put, then, fd>>
  BY DEF IputTest, At, Put, PutIp, PutDp, Goto, Over, Continue, NoPut, data, inodes
<1>3. /\ put[p] \in Inum
      /\ then[p] \in Phases
      /\ then[p] \notin Putting
      /\ Phase(p) = then[p]
  <2>1. /\ put[p] \in Inum
        /\ then[p] \in Phases
        /\ then[p] \notin Putting
        /\ Phase(p) = then[p]
    BY <1>0, <1>1, <1>2, Consts DEF Types, Phase, Variables, Calls, Putting, WithIp, WithDp, Linking, Unlinking, Creating, Idle, Phases
  <2> QED
    BY <2>1
<1>4. /\ pc'[p] = "drop"
      /\ then'[p] = then[p]
      /\ ip'[p] = ip[p]
      /\ dp'[p] = dp[p]
      /\ put'[p] = put[p]
      /\ fd'[p] = fd[p]
      /\ call'[p] = call[p]
      /\ Phase(p)' = then[p]
  <2>1. /\ pc'[p] = "drop"
        /\ then'[p] = then[p]
        /\ ip'[p] = ip[p]
        /\ dp'[p] = dp[p]
        /\ put'[p] = put[p]
        /\ fd'[p] = fd[p]
        /\ call'[p] = call[p]
    BY <1>0, <1>2, <1>3 DEF Types
  <2> QED
    BY <2>1, <1>3 DEF Phase, Putting
<1>5. OthersSame(p)
  BY <1>0, <1>2 DEF Types, OthersSame, Same
<1>6. icache' = icache /\ True(icache', disk')
  BY <1>0, <1>2 DEF Cached
<1>7. Types'
  BY <1>0, <1>2, <1>3, <1>4, <1>6, Consts DEF Types, Phases, Idle, Creating, Linking, Unlinking, Putting
<1>8. Variables(p)' /\ Calls(p)' /\ Apart(p)'
  <2>1. Variables(p)'
    BY <1>1, <1>3, <1>4, Consts DEF Variables, Calls, Putting, WithIp, WithDp, Linking, Unlinking, Creating, Idle
  <2>2. Calls(p)'
    BY <1>1, <1>2, <1>3, <1>4, Consts DEF Variables, Calls, Putting, WithIp, WithDp, Linking, Unlinking, Creating, Idle, NoCall
  <2>3. Apart(p)'
    BY <1>1, <1>2, <1>3, <1>4, Consts DEF Apart, Putting
  <2> QED
    BY <2>1, <2>2, <2>3
<1>9. Live(p)' /\ Stays(p)'
  <2>1. Live(p)'
    BY <1>1, <1>2, <1>3, <1>4, Consts DEF Live, Putting, WithDp, Creating, Linking, Unlinking
  <2>2. Stays(p)'
    BY <1>1, <1>2, <1>3, <1>4 DEF Stays, Putting, Existing, Entry
  <2> QED
    BY <2>1, <2>2
<1>10. /\ \A i \in Inum : lock'[i] = p <=> Holds(p, i)'
       /\ \A i \in Inum, q \in Proc : q # p => (lock'[i] = q <=> lock[i] = q)
  <2>1. \A i \in Inum : lock[i] = p <=> Holds(p, i)
    BY <1>0 DEF Locks
  <2>2. \A i \in Inum : lock'[i] = p <=> Holds(p, i)'
    BY <1>0, <1>1, <1>2, <1>3, <1>4, <2>1, Consts DEF Holds, Apart, Putting, Types
  <2>3. \A i \in Inum, q \in Proc : q # p => (lock'[i] = q <=> lock[i] = q)
    BY <1>0, <1>2, <1>3, <2>1, Consts DEF Types, Holds, Putting
  <2> QED
    BY <2>2, <2>3
<1>11. \A i \in Inum : icache'[i].ref = icache[i].ref + Mine(p, i)' - Mine(p, i)
  <2>1. \A i \in Inum : icache[i].ref \in Nat
    BY <1>0 DEF Types, Cache, CacheEntry
  <2>2. \A i \in Inum : Mine(p, i)' = Mine(p, i) /\ Mine(p, i) \in Nat
    BY <1>4 DEF Mine, Is
  <2> QED
    BY <1>6, <2>1, <2>2
<1>12. /\ \A i \in Inum : lock'[i] # Nobody => lock[i] # Nobody \/ icache'[i].valid
       /\ \A i \in Inum : lock'[i] # Nobody /\ icache[i].valid /\ icache[i].ref > 0 => icache'[i].valid
  BY <1>0, <1>2, <1>3, <1>6, Consts DEF Types, Cached
<1>13. /\ \A q \in Proc, i \in Inum : q # p /\ Uses(q, i) /\ disk.type[i] # "free" => disk'.type[i] = disk.type[i]
       /\ \A q \in Proc, i \in Inum : q # p /\ lock[i] = q => disk'.dents[i] = disk.dents[i]
       /\ \A q \in Proc : q # p /\ pc[q] = "itrunc" => icache'[put[q]].ref = 1 /\ disk'.nlink[put[q]] = 0
  BY <1>2, <1>6, TruncatedAlone
<1>14. Trees'
  <2>1. Owed(p)' = Owed(p) \/ Owed(p)' = NoInode
    BY <1>1, <1>3, <1>4 DEF Owed, Putting, Owing
  <2> QED
    BY <1>0, <1>2, <1>5, <2>1, OthersOwe, TreesSame DEF Types
<1> QED
  BY <1>5, <1>6, <1>7, <1>8, <1>9, <1>10, <1>11, <1>12, <1>13, <1>14, StepKeeps

\* Nothing on the disk leads to the inode that is freed.
LEMMA ItruncKeeps ==
  ASSUME IInv, NEW p \in Proc, Itrunc(p)
  PROVE  IInv'
<1>0. Types /\ Shape /\ Locks /\ RefsCounted /\ Cached /\ InUse /\ Trees
  BY DEF IInv
<1>1. Variables(p) /\ Calls(p) /\ Live(p) /\ Stays(p) /\ Apart(p)
  BY <1>0 DEF Shape, InUse, Locks
<1>2. /\ pc[p] = "itrunc"
      /\ icache' = Freed(icache, put[p])
      /\ disk' = [disk EXCEPT !.type[put[p]] = "free", !.dents[put[p]] = Empty]
      /\ lock' = [lock EXCEPT ![put[p]] = Nobody]
      /\ pc' = [pc EXCEPT ![p] = "drop"]
      /\ UNCHANGED <<saved, call, ip, dp, put, then, fd>>
  BY DEF Itrunc, At, Release, Put, PutIp, PutDp, Goto, Over, Continue, NoPut, data, inodes
<1>3. /\ put[p] \in Inum
      /\ then[p] \in Phases
      /\ then[p] \notin Putting
      /\ ip[p] # put[p] /\ dp[p] # put[p] /\ fd[p] # put[p]
      /\ lock[put[p]] = p
      /\ put[p] # ROOTINO
      /\ \A q \in Proc : q # p => ~Uses(q, put[p])
      /\ \A d \in Inum, n \in Name : disk.dents[d][n] # put[p]
      /\ disk' \in Disk /\ disk'.nlink = disk.nlink
      /\ disk'.type = [disk.type EXCEPT ![put[p]] = "free"]
      /\ disk'.dents = [disk.dents EXCEPT ![put[p]] = Empty]
      /\ Phase(p) = then[p]
  <2>1. put[p] \in Inum /\ then[p] \in Phases /\ then[p] \notin Putting /\ Phase(p) = then[p]
    BY <1>0, <1>1, <1>2 DEF Types, Variables, Phase, Variables, Calls, Putting, WithIp, WithDp, Linking, Unlinking, Creating, Idle, Phases
  <2>2. /\ ip[p] # put[p] /\ dp[p] # put[p] /\ fd[p] # put[p] /\ put[p] # ROOTINO
        /\ \A q \in Proc : q # p => ~Uses(q, put[p])
        /\ \A d \in Inum, n \in Name : disk.dents[d][n] # put[p]
    BY <1>2, TruncatedAlone
  <2>3. lock[put[p]] = p
    BY <1>0, <1>2, <2>1 DEF Locks, Holds
  <2>4. /\ disk' \in Disk /\ disk'.nlink = disk.nlink
        /\ disk'.type = [disk.type EXCEPT ![put[p]] = "free"]
        /\ disk'.dents = [disk.dents EXCEPT ![put[p]] = Empty]
    <3> DEFINE t == [disk.type EXCEPT ![put[p]] = "free"]
               e == [disk.dents EXCEPT ![put[p]] = Empty]
    <3>1. t \in [Inum -> FileType] /\ e \in [Inum -> [Name -> Inum \cup {NoInode}]]
      BY <1>0, <2>1 DEF Types, Disk, FileType, Empty
    <3>2. disk' = [disk EXCEPT !.type = t, !.dents = e]
      BY <1>0, <1>2 DEF Types, Disk
    <3> HIDE DEF t, e
    <3>3. disk' \in Disk /\ disk'.nlink = disk.nlink /\ disk'.type = t /\ disk'.dents = e
      BY <1>0, <3>1, <3>2 DEF Types, Disk
    <3> QED
      BY <3>3 DEF t, e
  <2> QED
    BY <2>1, <2>2, <2>3, <2>4
<1>4. /\ pc'[p] = "drop"
      /\ then'[p] = then[p]
      /\ ip'[p] = ip[p]
      /\ dp'[p] = dp[p]
      /\ put'[p] = put[p]
      /\ fd'[p] = fd[p]
      /\ call'[p] = call[p]
      /\ Phase(p)' = then[p]
  <2>1. /\ pc'[p] = "drop"
        /\ then'[p] = then[p]
        /\ ip'[p] = ip[p]
        /\ dp'[p] = dp[p]
        /\ put'[p] = put[p]
        /\ fd'[p] = fd[p]
        /\ call'[p] = call[p]
    BY <1>0, <1>2, <1>3 DEF Types
  <2> QED
    BY <2>1, <1>3 DEF Phase, Putting
<1>5. OthersSame(p)
  BY <1>0, <1>2 DEF Types, OthersSame, Same
<1>6. /\ icache' \in Cache /\ True(icache', disk')
      /\ \A j \in Inum : icache'[j].ref = icache[j].ref
      /\ \A j \in Inum : j # put[p] => icache'[j] = icache[j]
  <2> DEFINE e == [icache[put[p]] EXCEPT !.type = "free", !.valid = FALSE]
  <2>1. icache[put[p]] \in CacheEntry
    BY <1>0, <1>3 DEF Types, Cache
  <2>2. e \in CacheEntry /\ e.ref = icache[put[p]].ref /\ e.valid = FALSE
    BY <2>1 DEF CacheEntry, FileType
  <2>3. icache' = [icache EXCEPT ![put[p]] = e]
    BY <1>2 DEF Freed
  <2> HIDE DEF e
  <2>4. icache' \in Cache /\ icache'[put[p]] = e /\ \A j \in Inum : j # put[p] => icache'[j] = icache[j]
    BY <1>0, <1>3, <2>2, <2>3 DEF Types, Cache
  <2>5. \A j \in Inum : j # put[p] => disk'.type[j] = disk.type[j] /\ disk'.nlink[j] = disk.nlink[j]
    BY <1>0, <1>3 DEF Types, Disk
  <2>6. True(icache', disk')
    BY <1>0, <2>2, <2>4, <2>5 DEF Cached, True
  <2> QED
    BY <2>2, <2>4, <2>6
<1>7. Types'
  BY <1>0, <1>2, <1>3, <1>4, <1>6, Consts DEF Types, Phases, Idle, Creating, Linking, Unlinking, Putting
<1>8. Variables(p)' /\ Calls(p)' /\ Apart(p)'
  <2>1. Variables(p)'
    BY <1>1, <1>3, <1>4, Consts DEF Variables, Calls, Putting, WithIp, WithDp, Linking, Unlinking, Creating, Idle
  <2>2. Calls(p)'
    BY <1>1, <1>2, <1>3, <1>4, Consts DEF Variables, Calls, Putting, WithIp, WithDp, Linking, Unlinking, Creating, Idle, NoCall
  <2>3. Apart(p)'
    BY <1>1, <1>2, <1>3, <1>4, Consts DEF Apart, Putting
  <2> QED
    BY <2>1, <2>2, <2>3
<1>9. Live(p)' /\ Stays(p)'
  <2>1. Live(p)'
    <3>1. \A i \in Inum : i # put[p] => disk'.type[i] = disk.type[i]
      BY <1>0, <1>3 DEF Types, Disk
    <3>2. /\ ip[p] \in Inum \cup {NoInode} /\ dp[p] \in Inum \cup {NoInode} /\ fd[p] \in Inum \cup {NoInode}
          /\ Phase(p) \in WithDp => dp[p] # NoInode
      BY <1>0, <1>1 DEF Types, Variables
    <3>3. Phase(p)' = Phase(p)
      BY <1>3, <1>4
    <3> QED
      BY <1>1, <1>3, <1>4, <3>1, <3>2, <3>3 DEF Live
  <2>2. Stays(p)'
    <3>1. \A i \in Inum : i # put[p] => disk'.dents[i] = disk.dents[i]
      BY <1>0, <1>3 DEF Types, Disk
    <3>2. dp[p] \in Inum \cup {NoInode} /\ (Phase(p) \in {"unlink_ip", "create_new"} => dp[p] # NoInode)
      BY <1>0, <1>1 DEF Types, Variables, WithDp
    <3>3. Phase(p)' = Phase(p)
      BY <1>3, <1>4
    <3> QED
      BY <1>1, <1>3, <1>4, <3>1, <3>2, <3>3 DEF Stays, Existing, Entry
  <2> QED
    BY <2>1, <2>2
<1>10. /\ \A i \in Inum : lock'[i] = p <=> Holds(p, i)'
       /\ \A i \in Inum, q \in Proc : q # p => (lock'[i] = q <=> lock[i] = q)
  <2>1. \A i \in Inum : lock[i] = p <=> Holds(p, i)
    BY <1>0 DEF Locks
  <2>2. \A i \in Inum : lock'[i] = p <=> Holds(p, i)'
    BY <1>0, <1>1, <1>2, <1>3, <1>4, <2>1, Consts DEF Holds, Apart, Putting, Types
  <2>3. \A i \in Inum, q \in Proc : q # p => (lock'[i] = q <=> lock[i] = q)
    BY <1>0, <1>2, <1>3, <2>1, Consts DEF Types, Holds, Putting
  <2> QED
    BY <2>2, <2>3
<1>11. \A i \in Inum : icache'[i].ref = icache[i].ref + Mine(p, i)' - Mine(p, i)
  <2>1. \A i \in Inum : icache[i].ref \in Nat
    BY <1>0 DEF Types, Cache, CacheEntry
  <2>2. \A i \in Inum : Mine(p, i)' = Mine(p, i) /\ Mine(p, i) \in Nat
    BY <1>4 DEF Mine, Is
  <2> QED
    BY <1>6, <2>1, <2>2
<1>12. /\ \A i \in Inum : lock'[i] # Nobody => lock[i] # Nobody \/ icache'[i].valid
       /\ \A i \in Inum : lock'[i] # Nobody /\ icache[i].valid /\ icache[i].ref > 0 => icache'[i].valid
  BY <1>0, <1>2, <1>3, <1>6, Consts DEF Types, Cached
<1>13. /\ \A q \in Proc, i \in Inum : q # p /\ Uses(q, i) /\ disk.type[i] # "free" => disk'.type[i] = disk.type[i]
       /\ \A q \in Proc, i \in Inum : q # p /\ lock[i] = q => disk'.dents[i] = disk.dents[i]
       /\ \A q \in Proc : q # p /\ pc[q] = "itrunc" => icache'[put[q]].ref = 1 /\ disk'.nlink[put[q]] = 0
  <2>1. \A i \in Inum : i # put[p] => disk'.type[i] = disk.type[i] /\ disk'.dents[i] = disk.dents[i]
    BY <1>0, <1>3 DEF Types, Disk
  <2>2. ASSUME NEW q \in Proc, q # p, pc[q] = "itrunc"
        PROVE  icache'[put[q]].ref = 1 /\ disk'.nlink[put[q]] = 0
    <3>1. icache[put[q]].ref = 1 /\ disk.nlink[put[q]] = 0 /\ put[q] \in Inum
      BY <2>2, TruncatedAlone
    <3> QED
      BY <1>3, <1>6, <3>1
  <2> QED
    BY <1>3, <2>1, <2>2, Consts
<1>14. Trees'
  <2>1. /\ \A i \in Inum : disk'.type[i] = IF i = put[p] THEN "free" ELSE disk.type[i]
        /\ \A i \in Inum, n \in Name : disk'.dents[i][n] = IF i = put[p] THEN NoInode ELSE disk.dents[i][n]
    BY <1>0, <1>3 DEF Types, Disk, Empty
  <2>2. \A q \in Proc : Owed(q)' = Owed(q)
    BY <1>3, <1>4, <1>5, OthersOwe DEF Owed
  <2>3. CountedNow'
    <3> SUFFICES ASSUME NEW i \in Inum
                 PROVE  disk'.nlink[i] >= Entries(disk', i) + Cardinality(Kids(disk', i)) + Rooted(i) + Owes(i)'
      BY DEF CountedNow, Entries, Kids
    <3>1. disk.nlink[i] >= Entries(disk, i) + Cardinality(Kids(disk, i)) + Rooted(i) + Owes(i)
      BY <1>0 DEF Trees, CountedNow
    <3>2. Owes(i)' = Owes(i)
      BY <2>2, Consts DEF Owes
    <3>3. Entries(disk', i) <= Entries(disk, i)
      <4>1. \A e \in Slots : Entered(disk')[e] = i => Entered(disk)[e] = i
        BY <2>1, Consts DEF Slots, Entered
      <4> QED
        BY <4>1, SlotsFinite, CountShrinks, EntriesAre
    <3>4. Cardinality(Kids(disk', i)) <= Cardinality(Kids(disk, i))
      <4>1. \A n \in Name : Kid(disk', i)[n] = 1 => Kid(disk, i)[n] = 1
        BY <1>0, <1>3, <2>1 DEF Kid, Types, Disk
      <4> QED
        BY <4>1, Consts, CountShrinks, KidsAre
    <3>5. disk.nlink[i] \in Nat /\ disk'.nlink[i] = disk.nlink[i]
      BY <1>0, <1>3 DEF Types, Disk
    <3> QED
      BY <3>1, <3>2, <3>3, <3>4, <3>5, TreeCounts
  <2>4. Tree(disk')
    BY <1>0, <1>3, <2>1, Consts DEF Trees, Tree, Types, Disk
  <2>5. Tree(disk)' /\ Tree(saved)' /\ Counted(saved)'
    <3>1. Tree(saved') /\ Counted(saved')
      BY <1>0, <1>2 DEF Trees
    <3> QED
      BY <2>4, <3>1 DEF Tree, Counted, Entries, Kids
  <2> QED
    BY <2>3, <2>5 DEF Trees
<1> QED
  BY <1>5, <1>6, <1>7, <1>8, <1>9, <1>10, <1>11, <1>12, <1>13, <1>14, StepKeeps

\* A reference less.
LEMMA IputDropKeeps ==
  ASSUME IInv, NEW p \in Proc, IputDrop(p)
  PROVE  IInv'
<1>0. Types /\ Shape /\ Locks /\ RefsCounted /\ Cached /\ InUse /\ Trees
  BY DEF IInv
<1>1. Variables(p) /\ Calls(p) /\ Live(p) /\ Stays(p) /\ Apart(p)
  BY <1>0 DEF Shape, InUse, Locks
<1>2. /\ pc[p] = "drop"
      /\ icache' = [icache EXCEPT ![put[p]].ref = @ - 1]
      /\ put' = [put EXCEPT ![p] = NoInode]
      /\ then' = [then EXCEPT ![p] = "user"]
      /\ pc' = [pc EXCEPT ![p] = then[p]]
      /\ UNCHANGED <<disk, saved, lock, call, ip, dp, fd>>
  BY DEF IputDrop, At, Put, PutIp, PutDp, Goto, Over, Continue, NoPut, data, inodes
<1>3. /\ put[p] \in Inum
      /\ then[p] \in Phases
      /\ then[p] \notin Putting
      /\ Phase(p) = then[p]
  <2>1. /\ put[p] \in Inum
        /\ then[p] \in Phases
        /\ then[p] \notin Putting
        /\ Phase(p) = then[p]
    BY <1>0, <1>1, <1>2, Consts DEF Types, Phase, Variables, Calls, Putting, WithIp, WithDp, Linking, Unlinking, Creating, Idle, Phases
  <2> QED
    BY <2>1
<1>4. /\ pc'[p] = then[p]
      /\ then'[p] = "user"
      /\ ip'[p] = ip[p]
      /\ dp'[p] = dp[p]
      /\ put'[p] = NoInode
      /\ fd'[p] = fd[p]
      /\ call'[p] = call[p]
      /\ Phase(p)' = then[p]
  <2>1. /\ pc'[p] = then[p]
        /\ then'[p] = "user"
        /\ ip'[p] = ip[p]
        /\ dp'[p] = dp[p]
        /\ put'[p] = NoInode
        /\ fd'[p] = fd[p]
        /\ call'[p] = call[p]
    BY <1>0, <1>2, <1>3 DEF Types
  <2> QED
    BY <2>1, <1>3 DEF Phase, Putting
<1>5. OthersSame(p)
  BY <1>0, <1>2 DEF Types, OthersSame, Same
<1>6. /\ icache' \in Cache /\ True(icache', disk')
      /\ \A j \in Inum : icache'[j].ref = icache[j].ref - Is(put[p], j)
      /\ \A j \in Inum : icache'[j].valid = icache[j].valid
  <2> DEFINE e == [icache[put[p]] EXCEPT !.ref = @ - 1]
  <2>1. icache[put[p]] \in CacheEntry /\ icache[put[p]].ref >= 1
    BY <1>0, <1>3, UsedHasRef DEF Types, Cache, Uses
  <2>2. /\ e \in CacheEntry /\ e.ref = icache[put[p]].ref - 1 /\ e.valid = icache[put[p]].valid
        /\ e.type = icache[put[p]].type /\ e.nlink = icache[put[p]].nlink
    BY <2>1 DEF CacheEntry
  <2>3. icache' = [icache EXCEPT ![put[p]] = e]
    BY <1>2
  <2> HIDE DEF e
  <2>4. icache' \in Cache /\ icache'[put[p]] = e /\ \A j \in Inum : j # put[p] => icache'[j] = icache[j]
    BY <1>0, <1>3, <2>2, <2>3 DEF Types, Cache
  <2>5. \A j \in Inum : icache[j].ref \in Nat
    BY <1>0 DEF Types, Cache, CacheEntry
  <2>6. True(icache', disk')
    BY <1>0, <1>2, <2>1, <2>2, <2>4, <2>5 DEF Cached, True
  <2> QED
    BY <2>2, <2>4, <2>5, <2>6 DEF Is
<1>7. Types'
  BY <1>0, <1>2, <1>3, <1>4, <1>6, Consts DEF Types, Phases, Idle, Creating, Linking, Unlinking, Putting
<1>8. Variables(p)' /\ Calls(p)' /\ Apart(p)'
  <2>1. Variables(p)'
    BY <1>1, <1>3, <1>4, Consts DEF Variables, Calls, Putting, WithIp, WithDp, Linking, Unlinking, Creating, Idle
  <2>2. Calls(p)'
    BY <1>1, <1>2, <1>3, <1>4, Consts DEF Variables, Calls, Putting, WithIp, WithDp, Linking, Unlinking, Creating, Idle, NoCall
  <2>3. Apart(p)'
    BY <1>1, <1>2, <1>3, <1>4, Consts DEF Apart, Putting
  <2> QED
    BY <2>1, <2>2, <2>3
<1>9. Live(p)' /\ Stays(p)'
  <2>1. Live(p)'
    BY <1>1, <1>2, <1>3, <1>4, Consts DEF Live, Putting, WithDp, Creating, Linking, Unlinking
  <2>2. Stays(p)'
    BY <1>1, <1>2, <1>3, <1>4 DEF Stays, Putting, Existing, Entry
  <2> QED
    BY <2>1, <2>2
<1>10. /\ \A i \in Inum : lock'[i] = p <=> Holds(p, i)'
       /\ \A i \in Inum, q \in Proc : q # p => (lock'[i] = q <=> lock[i] = q)
  <2>1. \A i \in Inum : lock[i] = p <=> Holds(p, i)
    BY <1>0 DEF Locks
  <2>2. \A i \in Inum : lock'[i] = p <=> Holds(p, i)'
    BY <1>0, <1>1, <1>2, <1>3, <1>4, <2>1, Consts DEF Holds, Apart, Putting, Types
  <2>3. \A i \in Inum, q \in Proc : q # p => (lock'[i] = q <=> lock[i] = q)
    BY <1>0, <1>2, <1>3, <2>1, Consts DEF Types, Holds, Putting
  <2> QED
    BY <2>2, <2>3
<1>11. \A i \in Inum : icache'[i].ref = icache[i].ref + Mine(p, i)' - Mine(p, i)
  <2> SUFFICES ASSUME NEW i \in Inum
               PROVE  icache'[i].ref = icache[i].ref + Mine(p, i)' - Mine(p, i)
    OBVIOUS
  <2>1. icache[i].ref \in Nat
    BY <1>0 DEF Types, Cache, CacheEntry
  <2>2. Is(NoInode, i) = 0 /\ \A x : Is(x, i) \in Nat
    BY Consts DEF Is
  <2>3. Mine(p, i)' = Is(ip'[p], i) + Is(dp'[p], i) + Is(put'[p], i) + Is(fd'[p], i)
    BY DEF Mine
  <2> QED
    BY <1>3, <1>4, <1>6, <2>1, <2>2, <2>3 DEF Mine
<1>12. /\ \A i \in Inum : lock'[i] # Nobody => lock[i] # Nobody \/ icache'[i].valid
       /\ \A i \in Inum : lock'[i] # Nobody /\ icache[i].valid /\ icache[i].ref > 0 => icache'[i].valid
  BY <1>0, <1>2, <1>3, <1>6, Consts DEF Types, Cached
<1>13. /\ \A q \in Proc, i \in Inum : q # p /\ Uses(q, i) /\ disk.type[i] # "free" => disk'.type[i] = disk.type[i]
       /\ \A q \in Proc, i \in Inum : q # p /\ lock[i] = q => disk'.dents[i] = disk.dents[i]
       /\ \A q \in Proc : q # p /\ pc[q] = "itrunc" => icache'[put[q]].ref = 1 /\ disk'.nlink[put[q]] = 0
  <2>1. ASSUME NEW q \in Proc, q # p, pc[q] = "itrunc"
        PROVE  icache'[put[q]].ref = 1 /\ disk'.nlink[put[q]] = 0
    <3>1. put[q] \in Inum /\ ~Uses(p, put[q]) /\ icache[put[q]].ref = 1 /\ disk.nlink[put[q]] = 0
      BY <2>1, TruncatedAlone
    <3> QED
      BY <1>2, <1>6, <3>1 DEF Is, Uses
  <2> QED
    BY <1>2, <2>1
<1>14. Trees'
  <2>1. Owed(p)' = Owed(p) \/ Owed(p)' = NoInode
    BY <1>1, <1>3, <1>4 DEF Owed, Putting, Owing
  <2> QED
    BY <1>0, <1>2, <1>5, <2>1, OthersOwe, TreesSame DEF Types
<1> QED
  BY <1>5, <1>6, <1>7, <1>8, <1>9, <1>10, <1>11, <1>12, <1>13, <1>14, StepKeeps

\* namex ends at the parent of what is looked for ...
LEMMA NamexParent ==
  ASSUME IInv, NEW p \in Proc, Namex(p),
         AtParent(p)
  PROVE  IInv'
<1>0. Types /\ Shape /\ Locks /\ RefsCounted /\ Cached /\ InUse /\ Trees
  BY DEF IInv
<1>1. Variables(p) /\ Calls(p) /\ Live(p) /\ Stays(p) /\ Apart(p)
  BY <1>0 DEF Shape, InUse, Locks
<1>2. /\ pc[p] = "namex"
      /\ icache' = Read(icache, dp[p])
      /\ pc' = [pc EXCEPT ![p] = Found(p)]
      /\ UNCHANGED <<disk, saved, lock, call, ip, dp, put, then, fd>>
  BY DEF Namex, Ilock, At, AtParent, Put, PutIp, PutDp, Goto, Over, Continue, NoPut, data, inodes
<1>3. /\ put[p] = NoInode
      /\ then[p] = "user"
      /\ dp[p] \in Inum
      /\ Phase(p) = "namex"
      /\ disk.type[dp[p]] = "dir"
      /\ \/ Found(p) = "create" /\ call[p].name \in {"create", "mkdir"} /\ ip[p] = NoInode
         \/ Found(p) = "unlink" /\ call[p].name = "unlink" /\ ip[p] = NoInode
         \/ Found(p) = "link_new" /\ call[p].name = "link" /\ ip[p] \in Inum /\ disk.type[ip[p]] = "file"
  <2>1. /\ put[p] = NoInode
        /\ then[p] = "user"
        /\ dp[p] \in Inum
        /\ Phase(p) = "namex"
    BY <1>0, <1>1, <1>2, Consts DEF Types, Phase, Variables, Calls, Putting, WithIp, WithDp, Linking, Unlinking, Creating, Idle
  <2>2. /\ disk.type[dp[p]] = "dir"
    BY <1>0, <1>1, <1>2, <2>1, Consts, ReadHere DEF Live, Trees, Tree, Uses, Creating, Linking, Unlinking, WithDp, AtParent
  <2>3. \/ Found(p) = "create" /\ call[p].name \in {"create", "mkdir"} /\ ip[p] = NoInode
        \/ Found(p) = "unlink" /\ call[p].name = "unlink" /\ ip[p] = NoInode
        \/ Found(p) = "link_new" /\ call[p].name = "link" /\ ip[p] \in Inum /\ disk.type[ip[p]] = "file"
    BY <1>0, <1>1, <2>1, Consts DEF Types, Live, AtParent, Found, WantsParent, Second, Variables
  <2> QED
    BY <2>1, <2>2, <2>3
<1>4. /\ pc'[p] = Found(p)
      /\ then'[p] = then[p]
      /\ ip'[p] = ip[p]
      /\ dp'[p] = dp[p]
      /\ put'[p] = put[p]
      /\ fd'[p] = fd[p]
      /\ call'[p] = call[p]
      /\ Phase(p)' = Found(p)
  <2>1. /\ pc'[p] = Found(p)
        /\ then'[p] = then[p]
        /\ ip'[p] = ip[p]
        /\ dp'[p] = dp[p]
        /\ put'[p] = put[p]
        /\ fd'[p] = fd[p]
        /\ call'[p] = call[p]
    BY <1>0, <1>2, <1>3 DEF Types
  <2> QED
    BY <2>1, <1>3 DEF Phase, Putting
<1>5. OthersSame(p)
  BY <1>0, <1>2 DEF Types, OthersSame, Same
<1>6. /\ icache' \in Cache /\ True(icache', disk')
      /\ \A j \in Inum : icache'[j].ref = icache[j].ref
      /\ \A j \in Inum : icache[j].valid /\ icache[j].ref > 0 => icache'[j].valid
      /\ icache'[dp[p]].valid
  BY <1>0, <1>2, <1>3, ReadTrue DEF Types, Cached
<1>7. Types'
  BY <1>0, <1>2, <1>3, <1>4, <1>6, Consts DEF Types, Phases, Idle, Creating, Linking, Unlinking, Putting
<1>8. Variables(p)' /\ Calls(p)' /\ Apart(p)'
  <2>1. Variables(p)'
    BY <1>1, <1>3, <1>4, Consts DEF Variables, Calls, Putting, WithIp, WithDp, Linking, Unlinking, Creating, Idle
  <2>2. Calls(p)'
    BY <1>1, <1>2, <1>3, <1>4, Consts DEF Variables, Calls, Putting, WithIp, WithDp, Linking, Unlinking, Creating, Idle, NoCall
  <2>3. Apart(p)'
    BY <1>1, <1>2, <1>3, <1>4, Consts DEF Apart, Putting
  <2> QED
    BY <2>1, <2>2, <2>3
<1>9. Live(p)' /\ Stays(p)'
  <2>1. Live(p)'
    BY <1>1, <1>2, <1>3, <1>4, Consts DEF Live, Putting, WithDp, Creating, Linking, Unlinking
  <2>2. Stays(p)'
    BY <1>1, <1>2, <1>3, <1>4 DEF Stays, Putting, Existing, Entry
  <2> QED
    BY <2>1, <2>2
<1>10. /\ \A i \in Inum : lock'[i] = p <=> Holds(p, i)'
       /\ \A i \in Inum, q \in Proc : q # p => (lock'[i] = q <=> lock[i] = q)
  <2>1. \A i \in Inum : lock[i] = p <=> Holds(p, i)
    BY <1>0 DEF Locks
  <2>2. \A i \in Inum : lock'[i] = p <=> Holds(p, i)'
    BY <1>0, <1>1, <1>2, <1>3, <1>4, <2>1, Consts DEF Holds, Apart, Putting, Types
  <2>3. \A i \in Inum, q \in Proc : q # p => (lock'[i] = q <=> lock[i] = q)
    BY <1>0, <1>2, <1>3, <2>1, Consts DEF Types, Holds, Putting
  <2> QED
    BY <2>2, <2>3
<1>11. \A i \in Inum : icache'[i].ref = icache[i].ref + Mine(p, i)' - Mine(p, i)
  <2>1. \A i \in Inum : icache[i].ref \in Nat
    BY <1>0 DEF Types, Cache, CacheEntry
  <2>2. \A i \in Inum : Mine(p, i)' = Mine(p, i) /\ Mine(p, i) \in Nat
    BY <1>4 DEF Mine, Is
  <2> QED
    BY <1>6, <2>1, <2>2
<1>12. /\ \A i \in Inum : lock'[i] # Nobody => lock[i] # Nobody \/ icache'[i].valid
       /\ \A i \in Inum : lock'[i] # Nobody /\ icache[i].valid /\ icache[i].ref > 0 => icache'[i].valid
  BY <1>0, <1>2, <1>3, <1>6, Consts DEF Types, Cached
<1>13. /\ \A q \in Proc, i \in Inum : q # p /\ Uses(q, i) /\ disk.type[i] # "free" => disk'.type[i] = disk.type[i]
       /\ \A q \in Proc, i \in Inum : q # p /\ lock[i] = q => disk'.dents[i] = disk.dents[i]
       /\ \A q \in Proc : q # p /\ pc[q] = "itrunc" => icache'[put[q]].ref = 1 /\ disk'.nlink[put[q]] = 0
  BY <1>2, <1>6, TruncatedAlone
<1>14. Trees'
  <2>1. Owed(p)' = Owed(p) \/ Owed(p)' = NoInode
    BY <1>1, <1>3, <1>4 DEF Owed, Putting, Owing
  <2> QED
    BY <1>0, <1>2, <1>5, <2>1, OthersOwe, TreesSame DEF Types
<1> QED
  BY <1>5, <1>6, <1>7, <1>8, <1>9, <1>10, <1>11, <1>12, <1>13, <1>14, StepKeeps

\* ... or with a name missing, for link with a link to take back ...
LEMMA NamexLinkBad ==
  ASSUME IInv, NEW p \in Proc, Namex(p),
         Second(p), ~AtParent(p), NoWay(p)
  PROVE  IInv'
<1>0. Types /\ Shape /\ Locks /\ RefsCounted /\ Cached /\ InUse /\ Trees
  BY DEF IInv
<1>1. Variables(p) /\ Calls(p) /\ Live(p) /\ Stays(p) /\ Apart(p)
  BY <1>0 DEF Shape, InUse, Locks
<1>2. /\ pc[p] = "namex"
      /\ icache' = Read(icache, dp[p])
      /\ pc' = [pc EXCEPT ![p] = "iput"]
      /\ put' = [put EXCEPT ![p] = dp[p]]
      /\ then' = [then EXCEPT ![p] = "link_bad"]
      /\ dp' = [dp EXCEPT ![p] = NoInode]
      /\ UNCHANGED <<disk, saved, lock, call, ip, fd>>
  BY DEF Namex, Ilock, At, AtParent, NoWay, NotFound, Put, PutIp, PutDp, Goto, Over, Continue, NoPut, data, inodes
<1>3. /\ put[p] = NoInode
      /\ then[p] = "user"
      /\ dp[p] \in Inum
      /\ ip[p] \in Inum /\ call[p].name = "link"
      /\ Phase(p) = "namex"
      /\ disk.type[dp[p]] # "free"
      /\ disk.type[ip[p]] = "file"
  <2>1. /\ put[p] = NoInode
        /\ then[p] = "user"
        /\ dp[p] \in Inum
        /\ ip[p] \in Inum /\ call[p].name = "link"
        /\ Phase(p) = "namex"
    BY <1>0, <1>1, <1>2, Consts DEF Types, Phase, Variables, Calls, Putting, WithIp, WithDp, Linking, Unlinking, Creating, Idle, Second
  <2>2. /\ disk.type[dp[p]] # "free"
        /\ disk.type[ip[p]] = "file"
    BY <1>0, <1>1, <1>2, <2>1, Consts DEF Live, Trees, Tree, Disk, Types, WithDp
  <2> QED
    BY <2>1, <2>2
<1>4. /\ pc'[p] = "iput"
      /\ then'[p] = "link_bad"
      /\ ip'[p] = ip[p]
      /\ dp'[p] = NoInode
      /\ put'[p] = dp[p]
      /\ fd'[p] = fd[p]
      /\ call'[p] = call[p]
      /\ Phase(p)' = "link_bad"
  <2>1. /\ pc'[p] = "iput"
        /\ then'[p] = "link_bad"
        /\ ip'[p] = ip[p]
        /\ dp'[p] = NoInode
        /\ put'[p] = dp[p]
        /\ fd'[p] = fd[p]
        /\ call'[p] = call[p]
    BY <1>0, <1>2, <1>3 DEF Types
  <2> QED
    BY <2>1, <1>3 DEF Phase, Putting
<1>5. OthersSame(p)
  BY <1>0, <1>2 DEF Types, OthersSame, Same
<1>6. /\ icache' \in Cache /\ True(icache', disk')
      /\ \A j \in Inum : icache'[j].ref = icache[j].ref
      /\ \A j \in Inum : icache[j].valid /\ icache[j].ref > 0 => icache'[j].valid
      /\ icache'[dp[p]].valid
  BY <1>0, <1>2, <1>3, ReadTrue DEF Types, Cached
<1>7. Types'
  BY <1>0, <1>2, <1>3, <1>4, <1>6, Consts DEF Types, Phases, Idle, Creating, Linking, Unlinking, Putting
<1>8. Variables(p)' /\ Calls(p)' /\ Apart(p)'
  <2>1. Variables(p)'
    BY <1>1, <1>3, <1>4, Consts DEF Variables, Calls, Putting, WithIp, WithDp, Linking, Unlinking, Creating, Idle
  <2>2. Calls(p)'
    BY <1>1, <1>2, <1>3, <1>4, Consts DEF Variables, Calls, Putting, WithIp, WithDp, Linking, Unlinking, Creating, Idle, NoCall
  <2>3. Apart(p)'
    BY <1>1, <1>2, <1>3, <1>4, Consts DEF Apart, Putting
  <2> QED
    BY <2>1, <2>2, <2>3
<1>9. Live(p)' /\ Stays(p)'
  <2>1. Live(p)'
    BY <1>1, <1>2, <1>3, <1>4, Consts DEF Live, Putting, WithDp, Creating, Linking, Unlinking
  <2>2. Stays(p)'
    BY <1>4 DEF Stays
  <2> QED
    BY <2>1, <2>2
<1>10. /\ \A i \in Inum : lock'[i] = p <=> Holds(p, i)'
       /\ \A i \in Inum, q \in Proc : q # p => (lock'[i] = q <=> lock[i] = q)
  <2>1. \A i \in Inum : lock[i] = p <=> Holds(p, i)
    BY <1>0 DEF Locks
  <2>2. \A i \in Inum : lock'[i] = p <=> Holds(p, i)'
    BY <1>0, <1>1, <1>2, <1>3, <1>4, <2>1, Consts DEF Holds, Apart, Putting, Types
  <2>3. \A i \in Inum, q \in Proc : q # p => (lock'[i] = q <=> lock[i] = q)
    BY <1>0, <1>2, <1>3, <2>1, Consts DEF Types, Holds, Putting
  <2> QED
    BY <2>2, <2>3
<1>11. \A i \in Inum : icache'[i].ref = icache[i].ref + Mine(p, i)' - Mine(p, i)
  <2> SUFFICES ASSUME NEW i \in Inum
               PROVE  icache'[i].ref = icache[i].ref + Mine(p, i)' - Mine(p, i)
    OBVIOUS
  <2>1. icache[i].ref \in Nat
    BY <1>0 DEF Types, Cache, CacheEntry
  <2>2. Is(NoInode, i) = 0 /\ \A x : Is(x, i) \in Nat
    BY Consts DEF Is
  <2>3. Mine(p, i)' = Is(ip'[p], i) + Is(dp'[p], i) + Is(put'[p], i) + Is(fd'[p], i)
    BY DEF Mine
  <2> QED
    BY <1>3, <1>4, <1>6, <2>1, <2>2, <2>3 DEF Mine
<1>12. /\ \A i \in Inum : lock'[i] # Nobody => lock[i] # Nobody \/ icache'[i].valid
       /\ \A i \in Inum : lock'[i] # Nobody /\ icache[i].valid /\ icache[i].ref > 0 => icache'[i].valid
  BY <1>0, <1>2, <1>3, <1>6, Consts DEF Types, Cached
<1>13. /\ \A q \in Proc, i \in Inum : q # p /\ Uses(q, i) /\ disk.type[i] # "free" => disk'.type[i] = disk.type[i]
       /\ \A q \in Proc, i \in Inum : q # p /\ lock[i] = q => disk'.dents[i] = disk.dents[i]
       /\ \A q \in Proc : q # p /\ pc[q] = "itrunc" => icache'[put[q]].ref = 1 /\ disk'.nlink[put[q]] = 0
  BY <1>2, <1>6, TruncatedAlone
<1>14. Trees'
  <2>1. Owed(p)' = Owed(p) \/ Owed(p)' = NoInode
    BY <1>1, <1>3, <1>4 DEF Owed, Putting, Owing
  <2> QED
    BY <1>0, <1>2, <1>5, <2>1, OthersOwe, TreesSame DEF Types
<1> QED
  BY <1>5, <1>6, <1>7, <1>8, <1>9, <1>10, <1>11, <1>12, <1>13, <1>14, StepKeeps

\* ... and otherwise with nothing to do ...
LEMMA NamexEnds ==
  ASSUME IInv, NEW p \in Proc, Namex(p),
         ~Second(p), ~AtParent(p), NoWay(p)
  PROVE  IInv'
<1>0. Types /\ Shape /\ Locks /\ RefsCounted /\ Cached /\ InUse /\ Trees
  BY DEF IInv
<1>1. Variables(p) /\ Calls(p) /\ Live(p) /\ Stays(p) /\ Apart(p)
  BY <1>0 DEF Shape, InUse, Locks
<1>2. /\ pc[p] = "namex"
      /\ icache' = Read(icache, dp[p])
      /\ pc' = [pc EXCEPT ![p] = "iput"]
      /\ put' = [put EXCEPT ![p] = dp[p]]
      /\ then' = [then EXCEPT ![p] = "end"]
      /\ dp' = [dp EXCEPT ![p] = NoInode]
      /\ call' = [call EXCEPT ![p] = NoCall]
      /\ UNCHANGED <<disk, saved, lock, ip, fd>>
  BY DEF Namex, Ilock, At, AtParent, NoWay, NotFound, Put, PutIp, PutDp, Goto, Over, Continue, NoPut, data, inodes
<1>3. /\ put[p] = NoInode
      /\ then[p] = "user"
      /\ dp[p] \in Inum
      /\ ip[p] = NoInode
      /\ Phase(p) = "namex"
      /\ disk.type[dp[p]] # "free"
  <2>1. /\ put[p] = NoInode
        /\ then[p] = "user"
        /\ dp[p] \in Inum
        /\ ip[p] = NoInode
        /\ Phase(p) = "namex"
    BY <1>0, <1>1, <1>2, Consts DEF Types, Phase, Variables, Calls, Putting, WithIp, WithDp, Linking, Unlinking, Creating, Idle, Second
  <2>2. /\ disk.type[dp[p]] # "free"
    BY <1>0, <1>1, <1>2, <2>1, Consts DEF Live, Trees, Tree, Disk, Types, WithDp
  <2> QED
    BY <2>1, <2>2
<1>4. /\ pc'[p] = "iput"
      /\ then'[p] = "end"
      /\ ip'[p] = ip[p]
      /\ dp'[p] = NoInode
      /\ put'[p] = dp[p]
      /\ fd'[p] = fd[p]
      /\ call'[p] = NoCall
      /\ Phase(p)' = "end"
  <2>1. /\ pc'[p] = "iput"
        /\ then'[p] = "end"
        /\ ip'[p] = ip[p]
        /\ dp'[p] = NoInode
        /\ put'[p] = dp[p]
        /\ fd'[p] = fd[p]
        /\ call'[p] = NoCall
    BY <1>0, <1>2, <1>3 DEF Types
  <2> QED
    BY <2>1, <1>3 DEF Phase, Putting
<1>5. OthersSame(p)
  BY <1>0, <1>2 DEF Types, OthersSame, Same
<1>6. /\ icache' \in Cache /\ True(icache', disk')
      /\ \A j \in Inum : icache'[j].ref = icache[j].ref
      /\ \A j \in Inum : icache[j].valid /\ icache[j].ref > 0 => icache'[j].valid
      /\ icache'[dp[p]].valid
  BY <1>0, <1>2, <1>3, ReadTrue DEF Types, Cached
<1>7. Types'
  BY <1>0, <1>2, <1>3, <1>4, <1>6, Consts DEF Types, Phases, Idle, Creating, Linking, Unlinking, Putting
<1>8. Variables(p)' /\ Calls(p)' /\ Apart(p)'
  <2>1. Variables(p)'
    BY <1>1, <1>3, <1>4, Consts DEF Variables, Calls, Putting, WithIp, WithDp, Linking, Unlinking, Creating, Idle
  <2>2. Calls(p)'
    BY <1>1, <1>2, <1>3, <1>4, Consts DEF Variables, Calls, Putting, WithIp, WithDp, Linking, Unlinking, Creating, Idle, NoCall
  <2>3. Apart(p)'
    BY <1>1, <1>2, <1>3, <1>4, Consts DEF Apart, Putting
  <2> QED
    BY <2>1, <2>2, <2>3
<1>9. Live(p)' /\ Stays(p)'
  <2>1. Live(p)'
    BY <1>1, <1>2, <1>3, <1>4, Consts DEF Live, Putting, WithDp, Creating, Linking, Unlinking
  <2>2. Stays(p)'
    BY <1>4 DEF Stays
  <2> QED
    BY <2>1, <2>2
<1>10. /\ \A i \in Inum : lock'[i] = p <=> Holds(p, i)'
       /\ \A i \in Inum, q \in Proc : q # p => (lock'[i] = q <=> lock[i] = q)
  <2>1. \A i \in Inum : lock[i] = p <=> Holds(p, i)
    BY <1>0 DEF Locks
  <2>2. \A i \in Inum : lock'[i] = p <=> Holds(p, i)'
    BY <1>0, <1>1, <1>2, <1>3, <1>4, <2>1, Consts DEF Holds, Apart, Putting, Types
  <2>3. \A i \in Inum, q \in Proc : q # p => (lock'[i] = q <=> lock[i] = q)
    BY <1>0, <1>2, <1>3, <2>1, Consts DEF Types, Holds, Putting
  <2> QED
    BY <2>2, <2>3
<1>11. \A i \in Inum : icache'[i].ref = icache[i].ref + Mine(p, i)' - Mine(p, i)
  <2> SUFFICES ASSUME NEW i \in Inum
               PROVE  icache'[i].ref = icache[i].ref + Mine(p, i)' - Mine(p, i)
    OBVIOUS
  <2>1. icache[i].ref \in Nat
    BY <1>0 DEF Types, Cache, CacheEntry
  <2>2. Is(NoInode, i) = 0 /\ \A x : Is(x, i) \in Nat
    BY Consts DEF Is
  <2>3. Mine(p, i)' = Is(ip'[p], i) + Is(dp'[p], i) + Is(put'[p], i) + Is(fd'[p], i)
    BY DEF Mine
  <2> QED
    BY <1>3, <1>4, <1>6, <2>1, <2>2, <2>3 DEF Mine
<1>12. /\ \A i \in Inum : lock'[i] # Nobody => lock[i] # Nobody \/ icache'[i].valid
       /\ \A i \in Inum : lock'[i] # Nobody /\ icache[i].valid /\ icache[i].ref > 0 => icache'[i].valid
  BY <1>0, <1>2, <1>3, <1>6, Consts DEF Types, Cached
<1>13. /\ \A q \in Proc, i \in Inum : q # p /\ Uses(q, i) /\ disk.type[i] # "free" => disk'.type[i] = disk.type[i]
       /\ \A q \in Proc, i \in Inum : q # p /\ lock[i] = q => disk'.dents[i] = disk.dents[i]
       /\ \A q \in Proc : q # p /\ pc[q] = "itrunc" => icache'[put[q]].ref = 1 /\ disk'.nlink[put[q]] = 0
  BY <1>2, <1>6, TruncatedAlone
<1>14. Trees'
  <2>1. Owed(p)' = Owed(p) \/ Owed(p)' = NoInode
    BY <1>1, <1>3, <1>4 DEF Owed, Putting, Owing
  <2> QED
    BY <1>0, <1>2, <1>5, <2>1, OthersOwe, TreesSame DEF Types
<1> QED
  BY <1>5, <1>6, <1>7, <1>8, <1>9, <1>10, <1>11, <1>12, <1>13, <1>14, StepKeeps

\* ... or goes on in the next directory ...
LEMMA NamexGoesOn ==
  ASSUME IInv, NEW p \in Proc, Namex(p),
         ~AtParent(p), NEW next \in Inum, Leads(p, next), Longer(p)
  PROVE  IInv'
<1>0. Types /\ Shape /\ Locks /\ RefsCounted /\ Cached /\ InUse /\ Trees
  BY DEF IInv
<1>1. Variables(p) /\ Calls(p) /\ Live(p) /\ Stays(p) /\ Apart(p)
  BY <1>0 DEF Shape, InUse, Locks
<1>2. /\ pc[p] = "namex"
      /\ icache' = Iget(Read(icache, dp[p]), next)
      /\ pc' = [pc EXCEPT ![p] = "iput"]
      /\ put' = [put EXCEPT ![p] = dp[p]]
      /\ then' = [then EXCEPT ![p] = "namex"]
      /\ dp' = [dp EXCEPT ![p] = next]
      /\ call' = [call EXCEPT ![p] = Onward(call[p])]
      /\ UNCHANGED <<disk, saved, lock, ip, fd>>
  BY Consts DEF Onward, Namex, Ilock, At, AtParent, Leads, Longer, Put, PutIp, PutDp, Goto, Over, Continue, NoPut, data, inodes
<1>3. /\ put[p] = NoInode
      /\ then[p] = "user"
      /\ dp[p] \in Inum
      /\ call[p] # NoCall /\ call[p] \in Call /\ call[p].rest # <<>>
      /\ Phase(p) = "namex"
      /\ disk.type[dp[p]] = "dir"
      /\ disk.type[next] # "free"
      /\ \E d \in Inum, n \in Name : disk.dents[d][n] = next
      /\ Onward(call[p]) \in Call /\ Onward(call[p]) # NoCall /\ Onward(call[p]).name = call[p].name
      /\ Longer(p) => Onward(call[p]).rest # <<>>
  <2>1. /\ put[p] = NoInode
        /\ then[p] = "user"
        /\ dp[p] \in Inum
        /\ call[p] # NoCall /\ call[p] \in Call /\ call[p].rest # <<>>
        /\ Phase(p) = "namex"
    BY <1>0, <1>1, <1>2, Consts DEF Types, Phase, Variables, Calls, Putting, WithIp, WithDp, Linking, Unlinking, Creating, Idle
  <2>2. /\ disk.type[dp[p]] = "dir"
        /\ disk.type[next] # "free"
        /\ \E d \in Inum, n \in Name : disk.dents[d][n] = next
        /\ Onward(call[p]) \in Call /\ Onward(call[p]) # NoCall /\ Onward(call[p]).name = call[p].name
        /\ Longer(p) => Onward(call[p]).rest # <<>>
    BY <1>0, <1>1, <1>2, <2>1, Consts, ReadHere, OnwardIs DEF Live, Trees, Tree, Uses, Leads, Longer
  <2> QED
    BY <2>1, <2>2
<1>4. /\ pc'[p] = "iput"
      /\ then'[p] = "namex"
      /\ ip'[p] = ip[p]
      /\ dp'[p] = next
      /\ put'[p] = dp[p]
      /\ fd'[p] = fd[p]
      /\ call'[p] = Onward(call[p])
      /\ Phase(p)' = "namex"
  <2>1. /\ pc'[p] = "iput"
        /\ then'[p] = "namex"
        /\ ip'[p] = ip[p]
        /\ dp'[p] = next
        /\ put'[p] = dp[p]
        /\ fd'[p] = fd[p]
        /\ call'[p] = Onward(call[p])
    BY <1>0, <1>2, <1>3 DEF Types
  <2> QED
    BY <2>1, <1>3 DEF Phase, Putting
<1>5. OthersSame(p)
  BY <1>0, <1>2 DEF Types, OthersSame, Same
<1>6. /\ icache' \in Cache /\ True(icache', disk')
      /\ \A j \in Inum : icache'[j].ref = icache[j].ref + Is(next, j)
      /\ \A j \in Inum : icache[j].valid /\ icache[j].ref > 0 => icache'[j].valid
      /\ icache'[dp[p]].valid
  <2>1. \A j \in Inum : icache[j].ref \in Nat
    BY <1>0 DEF Types, Cache, CacheEntry
  <2> DEFINE c == Read(icache, dp[p])
  <2>2. /\ c \in Cache /\ True(c, disk) /\ c[dp[p]].valid
        /\ \A j \in Inum : c[j].ref = icache[j].ref /\ (icache[j].valid => c[j].valid)
    BY <1>0, <1>3, ReadTrue DEF Types, Cached
  <2> HIDE DEF c
  <2>3. /\ Iget(c, next) \in Cache /\ True(Iget(c, next), disk)
        /\ \A j \in Inum : /\ Iget(c, next)[j].ref = c[j].ref + Is(next, j)
                           /\ c[j].valid /\ c[j].ref > 0 => Iget(c, next)[j].valid
    BY <1>3, <2>2, Consts, IgetTrue
  <2>4. icache[dp[p]].ref > 0
    BY <1>0, <1>3, <2>1, UsedHasRef DEF Uses
  <2> QED
    BY <1>2, <1>3, <2>1, <2>2, <2>3, <2>4 DEF c
<1>7. Types'
  BY <1>0, <1>2, <1>3, <1>4, <1>6, Consts DEF Types, Phases, Idle, Creating, Linking, Unlinking, Putting
<1>8. Variables(p)' /\ Calls(p)' /\ Apart(p)'
  <2>1. Variables(p)'
    BY <1>1, <1>3, <1>4, Consts DEF Variables, Calls, Putting, WithIp, WithDp, Linking, Unlinking, Creating, Idle
  <2>2. Calls(p)'
    BY <1>1, <1>2, <1>3, <1>4, Consts DEF Variables, Calls, Putting, WithIp, WithDp, Linking, Unlinking, Creating, Idle, NoCall
  <2>3. Apart(p)'
    BY <1>1, <1>2, <1>3, <1>4, Consts DEF Apart, Putting
  <2> QED
    BY <2>1, <2>2, <2>3
<1>9. Live(p)' /\ Stays(p)'
  <2>1. Live(p)'
    BY <1>1, <1>2, <1>3, <1>4, Consts DEF Live, Putting, WithDp, Creating, Linking, Unlinking
  <2>2. Stays(p)'
    BY <1>4 DEF Stays
  <2> QED
    BY <2>1, <2>2
<1>10. /\ \A i \in Inum : lock'[i] = p <=> Holds(p, i)'
       /\ \A i \in Inum, q \in Proc : q # p => (lock'[i] = q <=> lock[i] = q)
  <2>1. \A i \in Inum : lock[i] = p <=> Holds(p, i)
    BY <1>0 DEF Locks
  <2>2. \A i \in Inum : lock'[i] = p <=> Holds(p, i)'
    BY <1>0, <1>1, <1>2, <1>3, <1>4, <2>1, Consts DEF Holds, Apart, Putting, Types
  <2>3. \A i \in Inum, q \in Proc : q # p => (lock'[i] = q <=> lock[i] = q)
    BY <1>0, <1>2, <1>3, <2>1, Consts DEF Types, Holds, Putting
  <2> QED
    BY <2>2, <2>3
<1>11. \A i \in Inum : icache'[i].ref = icache[i].ref + Mine(p, i)' - Mine(p, i)
  <2> SUFFICES ASSUME NEW i \in Inum
               PROVE  icache'[i].ref = icache[i].ref + Mine(p, i)' - Mine(p, i)
    OBVIOUS
  <2>1. icache[i].ref \in Nat
    BY <1>0 DEF Types, Cache, CacheEntry
  <2>2. Is(NoInode, i) = 0 /\ \A x : Is(x, i) \in Nat
    BY Consts DEF Is
  <2>3. Mine(p, i)' = Is(ip'[p], i) + Is(dp'[p], i) + Is(put'[p], i) + Is(fd'[p], i)
    BY DEF Mine
  <2> QED
    BY <1>3, <1>4, <1>6, <2>1, <2>2, <2>3 DEF Mine
<1>12. /\ \A i \in Inum : lock'[i] # Nobody => lock[i] # Nobody \/ icache'[i].valid
       /\ \A i \in Inum : lock'[i] # Nobody /\ icache[i].valid /\ icache[i].ref > 0 => icache'[i].valid
  BY <1>0, <1>2, <1>3, <1>6, Consts DEF Types, Cached
<1>13. /\ \A q \in Proc, i \in Inum : q # p /\ Uses(q, i) /\ disk.type[i] # "free" => disk'.type[i] = disk.type[i]
       /\ \A q \in Proc, i \in Inum : q # p /\ lock[i] = q => disk'.dents[i] = disk.dents[i]
       /\ \A q \in Proc : q # p /\ pc[q] = "itrunc" => icache'[put[q]].ref = 1 /\ disk'.nlink[put[q]] = 0
  <2>1. ASSUME NEW q \in Proc, q # p, pc[q] = "itrunc"
        PROVE  icache'[put[q]].ref = 1 /\ disk'.nlink[put[q]] = 0
    <3>1. /\ put[q] \in Inum /\ put[q] # ROOTINO /\ ~Uses(p, put[q])
          /\ \A d \in Inum, n \in Name : disk.dents[d][n] # put[q]
          /\ icache[put[q]].ref = 1 /\ disk.nlink[put[q]] = 0
      BY <2>1, TruncatedAlone
    <3>2. next # put[q]
      BY <1>3, <3>1
    <3> QED
      BY <1>2, <1>6, <3>1, <3>2 DEF Is
  <2> QED
    BY <1>2, <2>1
<1>14. Trees'
  <2>1. Owed(p)' = Owed(p) \/ Owed(p)' = NoInode
    BY <1>1, <1>3, <1>4 DEF Owed, Putting, Owing
  <2> QED
    BY <1>0, <1>2, <1>5, <2>1, OthersOwe, TreesSame DEF Types
<1> QED
  BY <1>5, <1>6, <1>7, <1>8, <1>9, <1>10, <1>11, <1>12, <1>13, <1>14, StepKeeps

\* ... or ends at the inode looked for.
LEMMA NamexFound ==
  ASSUME IInv, NEW p \in Proc, Namex(p),
         ~AtParent(p), NEW next \in Inum, Leads(p, next), ~Longer(p)
  PROVE  IInv'
<1>0. Types /\ Shape /\ Locks /\ RefsCounted /\ Cached /\ InUse /\ Trees
  BY DEF IInv
<1>1. Variables(p) /\ Calls(p) /\ Live(p) /\ Stays(p) /\ Apart(p)
  BY <1>0 DEF Shape, InUse, Locks
<1>2. /\ pc[p] = "namex"
      /\ icache' = Iget(Read(icache, dp[p]), next)
      /\ pc' = [pc EXCEPT ![p] = "iput"]
      /\ put' = [put EXCEPT ![p] = dp[p]]
      /\ then' = [then EXCEPT ![p] = Found(p)]
      /\ dp' = [dp EXCEPT ![p] = NoInode]
      /\ ip' = [ip EXCEPT ![p] = next]
      /\ call' = [call EXCEPT ![p] = Onward(call[p])]
      /\ UNCHANGED <<disk, saved, lock, fd>>
  BY Consts DEF Onward, Namex, Ilock, At, AtParent, Leads, Longer, Put, PutIp, PutDp, Goto, Over, Continue, NoPut, data, inodes
<1>3. /\ put[p] = NoInode
      /\ then[p] = "user"
      /\ dp[p] \in Inum
      /\ call[p] # NoCall /\ call[p] \in Call /\ call[p].rest # <<>>
      /\ Phase(p) = "namex"
      /\ disk.type[dp[p]] = "dir"
      /\ disk.type[next] # "free"
      /\ \E d \in Inum, n \in Name : disk.dents[d][n] = next
      /\ Onward(call[p]) \in Call /\ Onward(call[p]) # NoCall /\ Onward(call[p]).name = call[p].name
      /\ Longer(p) => Onward(call[p]).rest # <<>>
      /\ \/ Found(p) = "open" /\ call[p].name = "open"
         \/ Found(p) = "link_old" /\ call[p].name = "link"
      /\ ip[p] = NoInode
  <2>1. /\ put[p] = NoInode
        /\ then[p] = "user"
        /\ dp[p] \in Inum
        /\ call[p] # NoCall /\ call[p] \in Call /\ call[p].rest # <<>>
        /\ Phase(p) = "namex"
    BY <1>0, <1>1, <1>2, Consts DEF Types, Phase, Variables, Calls, Putting, WithIp, WithDp, Linking, Unlinking, Creating, Idle
  <2>2. /\ disk.type[dp[p]] = "dir"
        /\ disk.type[next] # "free"
        /\ \E d \in Inum, n \in Name : disk.dents[d][n] = next
        /\ Onward(call[p]) \in Call /\ Onward(call[p]) # NoCall /\ Onward(call[p]).name = call[p].name
        /\ Longer(p) => Onward(call[p]).rest # <<>>
    BY <1>0, <1>1, <1>2, <2>1, Consts, ReadHere, OnwardIs DEF Live, Trees, Tree, Uses, Leads, Longer
  <2>3. \/ Found(p) = "open" /\ call[p].name = "open"
        \/ Found(p) = "link_old" /\ call[p].name = "link"
    <3>1. ~WantsParent(p)
      BY <2>1, OnwardIs DEF AtParent, Leads, Longer
    <3>2. call[p].name \in {"open", "create", "mkdir", "unlink", "link"}
      BY <2>1 DEF Call
    <3> QED
      BY <1>1, <1>2, <2>1, <3>1, <3>2 DEF Found, WantsParent, Second, Variables
  <2>4. ip[p] = NoInode
    BY <1>1, <2>1, <2>3 DEF Variables, WantsParent, Second, AtParent, Found
  <2> QED
    BY <2>1, <2>2, <2>3, <2>4
<1>4. /\ pc'[p] = "iput"
      /\ then'[p] = Found(p)
      /\ ip'[p] = next
      /\ dp'[p] = NoInode
      /\ put'[p] = dp[p]
      /\ fd'[p] = fd[p]
      /\ call'[p] = Onward(call[p])
      /\ Phase(p)' = Found(p)
  <2>1. /\ pc'[p] = "iput"
        /\ then'[p] = Found(p)
        /\ ip'[p] = next
        /\ dp'[p] = NoInode
        /\ put'[p] = dp[p]
        /\ fd'[p] = fd[p]
        /\ call'[p] = Onward(call[p])
    BY <1>0, <1>2, <1>3 DEF Types
  <2> QED
    BY <2>1, <1>3 DEF Phase, Putting
<1>5. OthersSame(p)
  BY <1>0, <1>2 DEF Types, OthersSame, Same
<1>6. /\ icache' \in Cache /\ True(icache', disk')
      /\ \A j \in Inum : icache'[j].ref = icache[j].ref + Is(next, j)
      /\ \A j \in Inum : icache[j].valid /\ icache[j].ref > 0 => icache'[j].valid
      /\ icache'[dp[p]].valid
  <2>1. \A j \in Inum : icache[j].ref \in Nat
    BY <1>0 DEF Types, Cache, CacheEntry
  <2> DEFINE c == Read(icache, dp[p])
  <2>2. /\ c \in Cache /\ True(c, disk) /\ c[dp[p]].valid
        /\ \A j \in Inum : c[j].ref = icache[j].ref /\ (icache[j].valid => c[j].valid)
    BY <1>0, <1>3, ReadTrue DEF Types, Cached
  <2> HIDE DEF c
  <2>3. /\ Iget(c, next) \in Cache /\ True(Iget(c, next), disk)
        /\ \A j \in Inum : /\ Iget(c, next)[j].ref = c[j].ref + Is(next, j)
                           /\ c[j].valid /\ c[j].ref > 0 => Iget(c, next)[j].valid
    BY <1>3, <2>2, Consts, IgetTrue
  <2>4. icache[dp[p]].ref > 0
    BY <1>0, <1>3, <2>1, UsedHasRef DEF Uses
  <2> QED
    BY <1>2, <1>3, <2>1, <2>2, <2>3, <2>4 DEF c
<1>7. Types'
  BY <1>0, <1>2, <1>3, <1>4, <1>6, Consts DEF Types, Phases, Idle, Creating, Linking, Unlinking, Putting
<1>8. Variables(p)' /\ Calls(p)' /\ Apart(p)'
  <2>1. Variables(p)'
    BY <1>1, <1>3, <1>4, Consts DEF Variables, Calls, Putting, WithIp, WithDp, Linking, Unlinking, Creating, Idle
  <2>2. Calls(p)'
    BY <1>1, <1>2, <1>3, <1>4, Consts DEF Variables, Calls, Putting, WithIp, WithDp, Linking, Unlinking, Creating, Idle, NoCall
  <2>3. Apart(p)'
    BY <1>1, <1>2, <1>3, <1>4, Consts DEF Apart, Putting
  <2> QED
    BY <2>1, <2>2, <2>3
<1>9. Live(p)' /\ Stays(p)'
  <2>1. Live(p)'
    BY <1>1, <1>2, <1>3, <1>4, Consts DEF Live, Putting, WithDp, Creating, Linking, Unlinking
  <2>2. Stays(p)'
    BY <1>1, <1>2, <1>3, <1>4 DEF Stays, Putting, Existing, Entry
  <2> QED
    BY <2>1, <2>2
<1>10. /\ \A i \in Inum : lock'[i] = p <=> Holds(p, i)'
       /\ \A i \in Inum, q \in Proc : q # p => (lock'[i] = q <=> lock[i] = q)
  <2>1. \A i \in Inum : lock[i] = p <=> Holds(p, i)
    BY <1>0 DEF Locks
  <2>2. \A i \in Inum : lock'[i] = p <=> Holds(p, i)'
    BY <1>0, <1>1, <1>2, <1>3, <1>4, <2>1, Consts DEF Holds, Apart, Putting, Types
  <2>3. \A i \in Inum, q \in Proc : q # p => (lock'[i] = q <=> lock[i] = q)
    BY <1>0, <1>2, <1>3, <2>1, Consts DEF Types, Holds, Putting
  <2> QED
    BY <2>2, <2>3
<1>11. \A i \in Inum : icache'[i].ref = icache[i].ref + Mine(p, i)' - Mine(p, i)
  <2> SUFFICES ASSUME NEW i \in Inum
               PROVE  icache'[i].ref = icache[i].ref + Mine(p, i)' - Mine(p, i)
    OBVIOUS
  <2>1. icache[i].ref \in Nat
    BY <1>0 DEF Types, Cache, CacheEntry
  <2>2. Is(NoInode, i) = 0 /\ \A x : Is(x, i) \in Nat
    BY Consts DEF Is
  <2>3. Mine(p, i)' = Is(ip'[p], i) + Is(dp'[p], i) + Is(put'[p], i) + Is(fd'[p], i)
    BY DEF Mine
  <2> QED
    BY <1>3, <1>4, <1>6, <2>1, <2>2, <2>3 DEF Mine
<1>12. /\ \A i \in Inum : lock'[i] # Nobody => lock[i] # Nobody \/ icache'[i].valid
       /\ \A i \in Inum : lock'[i] # Nobody /\ icache[i].valid /\ icache[i].ref > 0 => icache'[i].valid
  BY <1>0, <1>2, <1>3, <1>6, Consts DEF Types, Cached
<1>13. /\ \A q \in Proc, i \in Inum : q # p /\ Uses(q, i) /\ disk.type[i] # "free" => disk'.type[i] = disk.type[i]
       /\ \A q \in Proc, i \in Inum : q # p /\ lock[i] = q => disk'.dents[i] = disk.dents[i]
       /\ \A q \in Proc : q # p /\ pc[q] = "itrunc" => icache'[put[q]].ref = 1 /\ disk'.nlink[put[q]] = 0
  <2>1. ASSUME NEW q \in Proc, q # p, pc[q] = "itrunc"
        PROVE  icache'[put[q]].ref = 1 /\ disk'.nlink[put[q]] = 0
    <3>1. /\ put[q] \in Inum /\ put[q] # ROOTINO /\ ~Uses(p, put[q])
          /\ \A d \in Inum, n \in Name : disk.dents[d][n] # put[q]
          /\ icache[put[q]].ref = 1 /\ disk.nlink[put[q]] = 0
      BY <2>1, TruncatedAlone
    <3>2. next # put[q]
      BY <1>3, <3>1
    <3> QED
      BY <1>2, <1>6, <3>1, <3>2 DEF Is
  <2> QED
    BY <1>2, <2>1
<1>14. Trees'
  <2>1. Owed(p)' = Owed(p) \/ Owed(p)' = NoInode
    BY <1>1, <1>3, <1>4 DEF Owed, Putting, Owing
  <2> QED
    BY <1>0, <1>2, <1>5, <2>1, OthersOwe, TreesSame DEF Types
<1> QED
  BY <1>5, <1>6, <1>7, <1>8, <1>9, <1>10, <1>11, <1>12, <1>13, <1>14, StepKeeps

\* create finds the name taken ...
LEMMA CreateExists ==
  ASSUME IInv, NEW p \in Proc, Create(p),
         NEW found \in Inum, found = Existing(p)
  PROVE  IInv'
<1>0. Types /\ Shape /\ Locks /\ RefsCounted /\ Cached /\ InUse /\ Trees
  BY DEF IInv
<1>1. Variables(p) /\ Calls(p) /\ Live(p) /\ Stays(p) /\ Apart(p)
  BY <1>0 DEF Shape, InUse, Locks
<1>2. /\ pc[p] = "create"
      /\ icache' = Iget(Read(icache, dp[p]), found)
      /\ pc' = [pc EXCEPT ![p] = "iput"]
      /\ put' = [put EXCEPT ![p] = dp[p]]
      /\ then' = [then EXCEPT ![p] = "create_found"]
      /\ dp' = [dp EXCEPT ![p] = NoInode]
      /\ ip' = [ip EXCEPT ![p] = found]
      /\ UNCHANGED <<disk, saved, lock, call, fd>>
  BY Consts DEF Create, Ilock, At, Put, PutIp, PutDp, Goto, Over, Continue, NoPut, data, inodes
<1>3. /\ put[p] = NoInode
      /\ then[p] = "user"
      /\ dp[p] \in Inum
      /\ ip[p] = NoInode
      /\ Phase(p) = "create"
      /\ disk.type[dp[p]] = "dir"
      /\ disk.type[found] # "free" /\ found # dp[p]
      /\ \E d \in Inum, n \in Name : disk.dents[d][n] = found
  <2>1. /\ put[p] = NoInode
        /\ then[p] = "user"
        /\ dp[p] \in Inum
        /\ ip[p] = NoInode
        /\ Phase(p) = "create"
    BY <1>0, <1>1, <1>2, Consts DEF Types, Phase, Variables, Calls, Putting, WithIp, WithDp, Linking, Unlinking, Creating, Idle
  <2>2. /\ disk.type[dp[p]] = "dir"
        /\ disk.type[found] # "free" /\ found # dp[p]
        /\ \E d \in Inum, n \in Name : disk.dents[d][n] = found
    BY <1>0, <1>1, <1>2, <2>1, Consts, EntryIs DEF Live, Uses, Creating, Linking, Unlinking, WithDp
  <2> QED
    BY <2>1, <2>2
<1>4. /\ pc'[p] = "iput"
      /\ then'[p] = "create_found"
      /\ ip'[p] = found
      /\ dp'[p] = NoInode
      /\ put'[p] = dp[p]
      /\ fd'[p] = fd[p]
      /\ call'[p] = call[p]
      /\ Phase(p)' = "create_found"
  <2>1. /\ pc'[p] = "iput"
        /\ then'[p] = "create_found"
        /\ ip'[p] = found
        /\ dp'[p] = NoInode
        /\ put'[p] = dp[p]
        /\ fd'[p] = fd[p]
        /\ call'[p] = call[p]
    BY <1>0, <1>2, <1>3 DEF Types
  <2> QED
    BY <2>1, <1>3 DEF Phase, Putting
<1>5. OthersSame(p)
  BY <1>0, <1>2 DEF Types, OthersSame, Same
<1>6. /\ icache' \in Cache /\ True(icache', disk')
      /\ \A j \in Inum : icache'[j].ref = icache[j].ref + Is(found, j)
      /\ \A j \in Inum : icache[j].valid /\ icache[j].ref > 0 => icache'[j].valid
      /\ icache'[dp[p]].valid
  <2>1. \A j \in Inum : icache[j].ref \in Nat
    BY <1>0 DEF Types, Cache, CacheEntry
  <2> DEFINE c == Read(icache, dp[p])
  <2>2. /\ c \in Cache /\ True(c, disk) /\ c[dp[p]].valid
        /\ \A j \in Inum : c[j].ref = icache[j].ref /\ (icache[j].valid => c[j].valid)
    BY <1>0, <1>3, ReadTrue DEF Types, Cached
  <2> HIDE DEF c
  <2>3. /\ Iget(c, found) \in Cache /\ True(Iget(c, found), disk)
        /\ \A j \in Inum : /\ Iget(c, found)[j].ref = c[j].ref + Is(found, j)
                           /\ c[j].valid /\ c[j].ref > 0 => Iget(c, found)[j].valid
    BY <1>3, <2>2, Consts, IgetTrue
  <2>4. icache[dp[p]].ref > 0
    BY <1>0, <1>3, <2>1, UsedHasRef DEF Uses
  <2> QED
    BY <1>2, <1>3, <2>1, <2>2, <2>3, <2>4 DEF c
<1>7. Types'
  BY <1>0, <1>2, <1>3, <1>4, <1>6, Consts DEF Types, Phases, Idle, Creating, Linking, Unlinking, Putting
<1>8. Variables(p)' /\ Calls(p)' /\ Apart(p)'
  <2>1. Variables(p)'
    BY <1>1, <1>3, <1>4, Consts DEF Variables, Calls, Putting, WithIp, WithDp, Linking, Unlinking, Creating, Idle
  <2>2. Calls(p)'
    BY <1>1, <1>2, <1>3, <1>4, Consts DEF Variables, Calls, Putting, WithIp, WithDp, Linking, Unlinking, Creating, Idle, NoCall
  <2>3. Apart(p)'
    BY <1>1, <1>2, <1>3, <1>4, Consts DEF Apart, Putting
  <2> QED
    BY <2>1, <2>2, <2>3
<1>9. Live(p)' /\ Stays(p)'
  <2>1. Live(p)'
    BY <1>1, <1>2, <1>3, <1>4, Consts DEF Live, Putting, WithDp, Creating, Linking, Unlinking
  <2>2. Stays(p)'
    BY <1>4 DEF Stays
  <2> QED
    BY <2>1, <2>2
<1>10. /\ \A i \in Inum : lock'[i] = p <=> Holds(p, i)'
       /\ \A i \in Inum, q \in Proc : q # p => (lock'[i] = q <=> lock[i] = q)
  <2>1. \A i \in Inum : lock[i] = p <=> Holds(p, i)
    BY <1>0 DEF Locks
  <2>2. \A i \in Inum : lock'[i] = p <=> Holds(p, i)'
    BY <1>0, <1>1, <1>2, <1>3, <1>4, <2>1, Consts DEF Holds, Apart, Putting, Types
  <2>3. \A i \in Inum, q \in Proc : q # p => (lock'[i] = q <=> lock[i] = q)
    BY <1>0, <1>2, <1>3, <2>1, Consts DEF Types, Holds, Putting
  <2> QED
    BY <2>2, <2>3
<1>11. \A i \in Inum : icache'[i].ref = icache[i].ref + Mine(p, i)' - Mine(p, i)
  <2> SUFFICES ASSUME NEW i \in Inum
               PROVE  icache'[i].ref = icache[i].ref + Mine(p, i)' - Mine(p, i)
    OBVIOUS
  <2>1. icache[i].ref \in Nat
    BY <1>0 DEF Types, Cache, CacheEntry
  <2>2. Is(NoInode, i) = 0 /\ \A x : Is(x, i) \in Nat
    BY Consts DEF Is
  <2>3. Mine(p, i)' = Is(ip'[p], i) + Is(dp'[p], i) + Is(put'[p], i) + Is(fd'[p], i)
    BY DEF Mine
  <2> QED
    BY <1>3, <1>4, <1>6, <2>1, <2>2, <2>3 DEF Mine
<1>12. /\ \A i \in Inum : lock'[i] # Nobody => lock[i] # Nobody \/ icache'[i].valid
       /\ \A i \in Inum : lock'[i] # Nobody /\ icache[i].valid /\ icache[i].ref > 0 => icache'[i].valid
  BY <1>0, <1>2, <1>3, <1>6, Consts DEF Types, Cached
<1>13. /\ \A q \in Proc, i \in Inum : q # p /\ Uses(q, i) /\ disk.type[i] # "free" => disk'.type[i] = disk.type[i]
       /\ \A q \in Proc, i \in Inum : q # p /\ lock[i] = q => disk'.dents[i] = disk.dents[i]
       /\ \A q \in Proc : q # p /\ pc[q] = "itrunc" => icache'[put[q]].ref = 1 /\ disk'.nlink[put[q]] = 0
  <2>1. ASSUME NEW q \in Proc, q # p, pc[q] = "itrunc"
        PROVE  icache'[put[q]].ref = 1 /\ disk'.nlink[put[q]] = 0
    <3>1. /\ put[q] \in Inum /\ put[q] # ROOTINO /\ ~Uses(p, put[q])
          /\ \A d \in Inum, n \in Name : disk.dents[d][n] # put[q]
          /\ icache[put[q]].ref = 1 /\ disk.nlink[put[q]] = 0
      BY <2>1, TruncatedAlone
    <3>2. found # put[q]
      BY <1>3, <3>1
    <3> QED
      BY <1>2, <1>6, <3>1, <3>2 DEF Is
  <2> QED
    BY <1>2, <2>1
<1>14. Trees'
  <2>1. Owed(p)' = Owed(p) \/ Owed(p)' = NoInode
    BY <1>1, <1>3, <1>4 DEF Owed, Putting, Owing
  <2> QED
    BY <1>0, <1>2, <1>5, <2>1, OthersOwe, TreesSame DEF Types
<1> QED
  BY <1>5, <1>6, <1>7, <1>8, <1>9, <1>10, <1>11, <1>12, <1>13, <1>14, StepKeeps

\* ... or marks an inode that nothing leads to ...
LEMMA CreateMakes ==
  ASSUME IInv, NEW p \in Proc, Create(p),
         Existing(p) = NoInode, FreeInodes # {}, NEW fresh \in Inum, fresh = Min(FreeInodes)
  PROVE  IInv'
<1>0. Types /\ Shape /\ Locks /\ RefsCounted /\ Cached /\ InUse /\ Trees
  BY DEF IInv
<1>1. Variables(p) /\ Calls(p) /\ Live(p) /\ Stays(p) /\ Apart(p)
  BY <1>0 DEF Shape, InUse, Locks
<1>2. /\ pc[p] = "create" /\ lock[dp[p]] = Nobody
      /\ pc' = [pc EXCEPT ![p] = "create_new"]
      /\ ip' = [ip EXCEPT ![p] = fresh]
      /\ lock' = [lock EXCEPT ![dp[p]] = p]
      /\ UNCHANGED <<saved, dp, put, then, call, fd>>
  BY Consts DEF Create, Ilock, At, Wanted, Free, Take, Put, PutIp, PutDp, Goto, Over, Continue, NoPut, data, inodes
<1>3. /\ put[p] = NoInode
      /\ then[p] = "user"
      /\ dp[p] \in Inum
      /\ ip[p] = NoInode
      /\ Phase(p) = "create"
      /\ disk.type[dp[p]] = "dir"
      /\ disk.type[fresh] = "free" /\ fresh # dp[p]
      /\ \A q \in Proc, i \in Inum : Uses(q, i) /\ disk.type[i] # "free" => i # fresh
      /\ Entry(p) \in Name
  <2>1. /\ put[p] = NoInode
        /\ then[p] = "user"
        /\ dp[p] \in Inum
        /\ ip[p] = NoInode
        /\ Phase(p) = "create"
    BY <1>0, <1>1, <1>2, Consts DEF Types, Phase, Variables, Calls, Putting, WithIp, WithDp, Linking, Unlinking, Creating, Idle
  <2>2. /\ disk.type[dp[p]] = "dir"
        /\ disk.type[fresh] = "free" /\ fresh # dp[p]
        /\ \A q \in Proc, i \in Inum : Uses(q, i) /\ disk.type[i] # "free" => i # fresh
        /\ Entry(p) \in Name
    BY <1>0, <1>1, <1>2, <2>1, Consts, EntryIs, FirstIsFree DEF Live, Creating, WithDp
  <2> QED
    BY <2>1, <2>2
<1>4. /\ pc'[p] = "create_new"
      /\ then'[p] = then[p]
      /\ ip'[p] = fresh
      /\ dp'[p] = dp[p]
      /\ put'[p] = put[p]
      /\ fd'[p] = fd[p]
      /\ call'[p] = call[p]
      /\ Phase(p)' = "create_new"
  <2>1. /\ pc'[p] = "create_new"
        /\ then'[p] = then[p]
        /\ ip'[p] = fresh
        /\ dp'[p] = dp[p]
        /\ put'[p] = put[p]
        /\ fd'[p] = fd[p]
        /\ call'[p] = call[p]
    BY <1>0, <1>2, <1>3 DEF Types
  <2> QED
    BY <2>1, <1>3 DEF Phase, Putting
<1>5. OthersSame(p)
  BY <1>0, <1>2 DEF Types, OthersSame, Same
<1>6. /\ icache' \in Cache /\ True(icache', disk')
      /\ \A j \in Inum : icache'[j].ref = icache[j].ref + Is(fresh, j)
      /\ \A j \in Inum : icache[j].valid /\ icache[j].ref > 0 => icache'[j].valid
      /\ disk' \in Disk /\ disk'.type[fresh] # "free" /\ disk'.dents = disk.dents
      /\ \A j \in Inum : j # fresh => disk'.type[j] = disk.type[j] /\ disk'.nlink[j] = disk.nlink[j]
      /\ icache'[dp[p]].valid
  <2>0. icache' = Iget(Read(icache, dp[p]), fresh)
    BY Consts DEF Create
  <2>1. disk' = [disk EXCEPT !.type[fresh] = NewType(p), !.nlink[fresh] = 0]
    BY Consts DEF Create
  <2> DEFINE t == [disk.type EXCEPT ![fresh] = NewType(p)]
             n == [disk.nlink EXCEPT ![fresh] = 0]
  <2>2. t \in [Inum -> FileType] /\ n \in [Inum -> Nat]
    BY <1>0 DEF Types, Disk, FileType, NewType
  <2>3. disk' = [disk EXCEPT !.type = t, !.nlink = n]
    BY <1>0, <2>1 DEF Types, Disk
  <2>4. /\ t[fresh] # "free" /\ n[fresh] = 0
        /\ \A j \in Inum : j # fresh => t[j] = disk.type[j] /\ n[j] = disk.nlink[j]
    BY <1>0 DEF Types, Disk, NewType
  <2> HIDE DEF t, n
  <2>5. disk' \in Disk /\ disk'.type = t /\ disk'.nlink = n /\ disk'.dents = disk.dents
    BY <1>0, <2>2, <2>3 DEF Types, Disk
  <2> DEFINE c == Read(icache, dp[p])
  <2>6. /\ c \in Cache /\ True(c, disk) /\ c[dp[p]].valid /\ c[dp[p]].ref > 0
        /\ \A j \in Inum : c[j].ref = icache[j].ref /\ (icache[j].valid => c[j].valid)
    BY <1>3, ReadHere DEF Uses
  <2> HIDE DEF c
  <2>7. ~(c[fresh].valid /\ c[fresh].ref > 0)
    BY <1>3, <2>6 DEF True
  <2>8. True(c, disk')
    BY <2>4, <2>5, <2>6, <2>7 DEF True
  <2>9. /\ Iget(c, fresh) \in Cache /\ True(Iget(c, fresh), disk')
        /\ \A j \in Inum : /\ Iget(c, fresh)[j].ref = c[j].ref + Is(fresh, j)
                           /\ c[j].valid /\ c[j].ref > 0 => Iget(c, fresh)[j].valid
    BY <2>6, <2>8, IgetTrue
  <2> QED
    BY <1>3, <2>0, <2>4, <2>5, <2>6, <2>9 DEF c
<1>7. Types'
  BY <1>0, <1>2, <1>3, <1>4, <1>6, Consts DEF Types, Phases, Idle, Creating, Linking, Unlinking, Putting
<1>8. Variables(p)' /\ Calls(p)' /\ Apart(p)'
  <2>1. Variables(p)'
    BY <1>1, <1>3, <1>4, Consts DEF Variables, Calls, Putting, WithIp, WithDp, Linking, Unlinking, Creating, Idle
  <2>2. Calls(p)'
    BY <1>1, <1>2, <1>3, <1>4, Consts DEF Variables, Calls, Putting, WithIp, WithDp, Linking, Unlinking, Creating, Idle, NoCall
  <2>3. Apart(p)'
    BY <1>1, <1>2, <1>3, <1>4, Consts DEF Apart, Putting
  <2> QED
    BY <2>1, <2>2, <2>3
<1>9. Live(p)' /\ Stays(p)'
  <2>1. Live(p)'
    <3>1. \A i \in Inum : Uses(p, i) /\ disk.type[i] # "free" => disk'.type[i] = disk.type[i]
      BY <1>3, <1>6
    <3>2. fd[p] # NoInode => fd[p] \in Inum /\ disk'.type[fd[p]] # "free"
      BY <1>0, <1>1, <3>1 DEF Types, Live, Uses
    <3>3. disk'.type[dp[p]] = "dir"
      BY <1>3, <1>6
    <3> QED
      BY <1>3, <1>4, <1>6, <3>2, <3>3 DEF Live, Putting
  <2>2. Stays(p)'
    BY <1>3, <1>4, <1>6 DEF Stays, Existing, Entry
  <2> QED
    BY <2>1, <2>2
<1>10. /\ \A i \in Inum : lock'[i] = p <=> Holds(p, i)'
       /\ \A i \in Inum, q \in Proc : q # p => (lock'[i] = q <=> lock[i] = q)
  <2>1. \A i \in Inum : lock[i] = p <=> Holds(p, i)
    BY <1>0 DEF Locks
  <2>2. \A i \in Inum : lock'[i] = p <=> Holds(p, i)'
    BY <1>0, <1>1, <1>2, <1>3, <1>4, <2>1, Consts DEF Holds, Apart, Putting, Types
  <2>3. \A i \in Inum, q \in Proc : q # p => (lock'[i] = q <=> lock[i] = q)
    BY <1>0, <1>2, <1>3, <2>1, Consts DEF Types, Holds, Putting
  <2> QED
    BY <2>2, <2>3
<1>11. \A i \in Inum : icache'[i].ref = icache[i].ref + Mine(p, i)' - Mine(p, i)
  <2> SUFFICES ASSUME NEW i \in Inum
               PROVE  icache'[i].ref = icache[i].ref + Mine(p, i)' - Mine(p, i)
    OBVIOUS
  <2>1. icache[i].ref \in Nat
    BY <1>0 DEF Types, Cache, CacheEntry
  <2>2. Is(NoInode, i) = 0 /\ \A x : Is(x, i) \in Nat
    BY Consts DEF Is
  <2>3. Mine(p, i)' = Is(ip'[p], i) + Is(dp'[p], i) + Is(put'[p], i) + Is(fd'[p], i)
    BY DEF Mine
  <2> QED
    BY <1>3, <1>4, <1>6, <2>1, <2>2, <2>3 DEF Mine
<1>12. /\ \A i \in Inum : lock'[i] # Nobody => lock[i] # Nobody \/ icache'[i].valid
       /\ \A i \in Inum : lock'[i] # Nobody /\ icache[i].valid /\ icache[i].ref > 0 => icache'[i].valid
  BY <1>0, <1>2, <1>3, <1>6, Consts DEF Types, Cached
<1>13. /\ \A q \in Proc, i \in Inum : q # p /\ Uses(q, i) /\ disk.type[i] # "free" => disk'.type[i] = disk.type[i]
       /\ \A q \in Proc, i \in Inum : q # p /\ lock[i] = q => disk'.dents[i] = disk.dents[i]
       /\ \A q \in Proc : q # p /\ pc[q] = "itrunc" => icache'[put[q]].ref = 1 /\ disk'.nlink[put[q]] = 0
  <2>1. ASSUME NEW q \in Proc, q # p, pc[q] = "itrunc"
        PROVE  icache'[put[q]].ref = 1 /\ disk'.nlink[put[q]] = 0
    <3>1. /\ put[q] \in Inum /\ disk.type[put[q]] # "free"
          /\ icache[put[q]].ref = 1 /\ disk.nlink[put[q]] = 0
      BY <2>1, TruncatedAlone
    <3>2. put[q] # fresh
      BY <1>3, <3>1
    <3> QED
      BY <1>6, <3>1, <3>2 DEF Is
  <2> QED
    BY <1>3, <1>6, <2>1
<1>14. Trees'
  <2>1. Tree(disk) /\ disk.type[ROOTINO] = "dir"
    BY <1>0 DEF Trees, Tree
  <2>2. \A i \in Inum, n \in Name : disk.dents[i][n] # fresh /\ disk.dents[fresh][n] = NoInode
    BY <1>3, <2>1, Consts DEF Tree
  <2>3. \A q \in Proc : Owed(q)' = Owed(q) /\ Owed(q) # fresh
    <3>1. \A q \in Proc : Owed(q)' = Owed(q)
      BY <1>3, <1>4, <1>5, OthersOwe DEF Owed, Owing
    <3>2. \A q \in Proc : Owed(q) # fresh
      BY <1>0, <1>3, Consts DEF Owed, InUse, Live
    <3> QED
      BY <3>1, <3>2
  <2>4. \A i \in Inum : Kids(disk', i) = Kids(disk, i) /\ Entries(disk', i) = Entries(disk, i) /\ Owes(i)' = Owes(i)
    <3> SUFFICES ASSUME NEW i \in Inum
                 PROVE  Kids(disk', i) = Kids(disk, i) /\ Entries(disk', i) = Entries(disk, i) /\ Owes(i)' = Owes(i)
      OBVIOUS
    <3>1. \A n \in Name : disk.dents[i][n] \in Inum \cup {NoInode}
      BY <1>0 DEF Types, Disk
    <3>2. Kids(disk', i) = Kids(disk, i)
      BY <1>6, <2>2, <3>1 DEF Kids
    <3>3. Entries(disk', i) = Entries(disk, i)
      BY <1>6 DEF Entries
    <3>4. Owes(i)' = Owes(i)
      BY <2>3 DEF Owes
    <3> QED
      BY <3>2, <3>3, <3>4
  <2>5. CountedNow'
    <3> SUFFICES ASSUME NEW i \in Inum
                 PROVE  disk'.nlink[i] >= Entries(disk', i) + Cardinality(Kids(disk', i)) + Rooted(i) + Owes(i)'
      BY DEF CountedNow, Entries, Kids
    <3>1. disk.nlink[i] >= Entries(disk, i) + Cardinality(Kids(disk, i)) + Rooted(i) + Owes(i)
      BY <1>0 DEF Trees, CountedNow
    <3>2. CASE i # fresh
      BY <1>6, <2>4, <3>1, <3>2
    <3>3. CASE i = fresh
      <4>1. Having(Slots, Entered(disk), i) = {}
        BY <2>2, <3>3 DEF Having, Slots, Entered
      <4>2. Kids(disk, i) = {}
        BY <2>2, <3>3 DEF Kids
      <4>3. {q \in Proc : Owed(q) = i} = {}
        BY <2>3, <3>3
      <4>4. Entries(disk, i) = 0 /\ Cardinality(Kids(disk, i)) = 0 /\ Owes(i) = 0
        BY <4>1, <4>2, <4>3, EntriesAre, FS_EmptySet DEF Owes
      <4>5. Rooted(i) = 0
        BY <1>3, <2>1, <3>3 DEF Rooted
      <4>6. disk'.nlink[i] \in Nat
        BY <1>6 DEF Disk
      <4> QED
        BY <2>4, <4>4, <4>5, <4>6
    <3> QED
      BY <3>2, <3>3
  <2>6. Tree(disk')
    <3>1. \A i \in Inum, n \in Name : disk.dents[i][n] \in Inum \cup {NoInode}
      BY <1>0 DEF Types, Disk
    <3> QED
      BY <1>3, <1>6, <2>1, <2>2, <3>1, Consts DEF Tree
  <2>7. Tree(disk)' /\ Tree(saved)' /\ Counted(saved)'
    <3>1. Tree(saved') /\ Counted(saved')
      BY <1>0, <1>2 DEF Trees
    <3> QED
      BY <2>6, <3>1 DEF Tree, Counted, Entries, Kids
  <2> QED
    BY <2>5, <2>7 DEF Trees
<1> QED
  BY <1>5, <1>6, <1>7, <1>8, <1>9, <1>10, <1>11, <1>12, <1>13, <1>14, StepKeeps

\* ... or there is none.
LEMMA CreatePanics ==
  ASSUME IInv, NEW p \in Proc, Create(p),
         Existing(p) = NoInode, FreeInodes = {}
  PROVE  IInv'
<1>0. Types /\ Shape /\ Locks /\ RefsCounted /\ Cached /\ InUse /\ Trees
  BY DEF IInv
<1>1. Variables(p) /\ Calls(p) /\ Live(p) /\ Stays(p) /\ Apart(p)
  BY <1>0 DEF Shape, InUse, Locks
<1>2. /\ pc[p] = "create"
      /\ pc' = [pc EXCEPT ![p] = "no_inodes"]
      /\ UNCHANGED <<disk, saved, lock, icache, call, ip, dp, put, then, fd>>
  BY DEF Create, Ilock, At, Put, PutIp, PutDp, Goto, Over, Continue, NoPut, data, inodes
<1>3. /\ put[p] = NoInode
      /\ then[p] = "user"
      /\ dp[p] \in Inum
      /\ ip[p] = NoInode
      /\ Phase(p) = "create"
      /\ disk.type[dp[p]] = "dir"
  <2>1. /\ put[p] = NoInode
        /\ then[p] = "user"
        /\ dp[p] \in Inum
        /\ ip[p] = NoInode
        /\ Phase(p) = "create"
    BY <1>0, <1>1, <1>2, Consts DEF Types, Phase, Variables, Calls, Putting, WithIp, WithDp, Linking, Unlinking, Creating, Idle
  <2>2. /\ disk.type[dp[p]] = "dir"
    BY <1>0, <1>1, <1>2, <2>1, Consts, EntryIs DEF Live, Uses, Creating, Linking, Unlinking, WithDp
  <2> QED
    BY <2>1, <2>2
<1>4. /\ pc'[p] = "no_inodes"
      /\ then'[p] = then[p]
      /\ ip'[p] = ip[p]
      /\ dp'[p] = dp[p]
      /\ put'[p] = put[p]
      /\ fd'[p] = fd[p]
      /\ call'[p] = call[p]
      /\ Phase(p)' = "no_inodes"
  <2>1. /\ pc'[p] = "no_inodes"
        /\ then'[p] = then[p]
        /\ ip'[p] = ip[p]
        /\ dp'[p] = dp[p]
        /\ put'[p] = put[p]
        /\ fd'[p] = fd[p]
        /\ call'[p] = call[p]
    BY <1>0, <1>2, <1>3 DEF Types
  <2> QED
    BY <2>1, <1>3 DEF Phase, Putting
<1>5. OthersSame(p)
  BY <1>0, <1>2 DEF Types, OthersSame, Same
<1>6. icache' = icache /\ True(icache', disk')
  BY <1>0, <1>2 DEF Cached
<1>7. Types'
  BY <1>0, <1>2, <1>3, <1>4, <1>6, Consts DEF Types, Phases, Idle, Creating, Linking, Unlinking, Putting
<1>8. Variables(p)' /\ Calls(p)' /\ Apart(p)'
  <2>1. Variables(p)'
    BY <1>1, <1>3, <1>4, Consts DEF Variables, Calls, Putting, WithIp, WithDp, Linking, Unlinking, Creating, Idle
  <2>2. Calls(p)'
    BY <1>1, <1>2, <1>3, <1>4, Consts DEF Variables, Calls, Putting, WithIp, WithDp, Linking, Unlinking, Creating, Idle, NoCall
  <2>3. Apart(p)'
    BY <1>1, <1>2, <1>3, <1>4, Consts DEF Apart, Putting
  <2> QED
    BY <2>1, <2>2, <2>3
<1>9. Live(p)' /\ Stays(p)'
  <2>1. Live(p)'
    BY <1>1, <1>2, <1>3, <1>4, Consts DEF Live, Putting, WithDp, Creating, Linking, Unlinking
  <2>2. Stays(p)'
    BY <1>4 DEF Stays
  <2> QED
    BY <2>1, <2>2
<1>10. /\ \A i \in Inum : lock'[i] = p <=> Holds(p, i)'
       /\ \A i \in Inum, q \in Proc : q # p => (lock'[i] = q <=> lock[i] = q)
  <2>1. \A i \in Inum : lock[i] = p <=> Holds(p, i)
    BY <1>0 DEF Locks
  <2>2. \A i \in Inum : lock'[i] = p <=> Holds(p, i)'
    BY <1>0, <1>1, <1>2, <1>3, <1>4, <2>1, Consts DEF Holds, Apart, Putting, Types
  <2>3. \A i \in Inum, q \in Proc : q # p => (lock'[i] = q <=> lock[i] = q)
    BY <1>0, <1>2, <1>3, <2>1, Consts DEF Types, Holds, Putting
  <2> QED
    BY <2>2, <2>3
<1>11. \A i \in Inum : icache'[i].ref = icache[i].ref + Mine(p, i)' - Mine(p, i)
  <2>1. \A i \in Inum : icache[i].ref \in Nat
    BY <1>0 DEF Types, Cache, CacheEntry
  <2>2. \A i \in Inum : Mine(p, i)' = Mine(p, i) /\ Mine(p, i) \in Nat
    BY <1>4 DEF Mine, Is
  <2> QED
    BY <1>6, <2>1, <2>2
<1>12. /\ \A i \in Inum : lock'[i] # Nobody => lock[i] # Nobody \/ icache'[i].valid
       /\ \A i \in Inum : lock'[i] # Nobody /\ icache[i].valid /\ icache[i].ref > 0 => icache'[i].valid
  BY <1>0, <1>2, <1>3, <1>6, Consts DEF Types, Cached
<1>13. /\ \A q \in Proc, i \in Inum : q # p /\ Uses(q, i) /\ disk.type[i] # "free" => disk'.type[i] = disk.type[i]
       /\ \A q \in Proc, i \in Inum : q # p /\ lock[i] = q => disk'.dents[i] = disk.dents[i]
       /\ \A q \in Proc : q # p /\ pc[q] = "itrunc" => icache'[put[q]].ref = 1 /\ disk'.nlink[put[q]] = 0
  BY <1>2, <1>6, TruncatedAlone
<1>14. Trees'
  <2>1. Owed(p)' = Owed(p) \/ Owed(p)' = NoInode
    BY <1>1, <1>3, <1>4 DEF Owed, Putting, Owing
  <2> QED
    BY <1>0, <1>2, <1>5, <2>1, OthersOwe, TreesSame DEF Types
<1> QED
  BY <1>5, <1>6, <1>7, <1>8, <1>9, <1>10, <1>11, <1>12, <1>13, <1>14, StepKeeps

\* The file that was there is opened ...
LEMMA CreateFoundOpens ==
  ASSUME IInv, NEW p \in Proc, CreateFound(p),
         call[p].name = "create" /\ Read(icache, ip[p])[ip[p]].type = "file"
  PROVE  IInv'
<1>0. Types /\ Shape /\ Locks /\ RefsCounted /\ Cached /\ InUse /\ Trees
  BY DEF IInv
<1>1. Variables(p) /\ Calls(p) /\ Live(p) /\ Stays(p) /\ Apart(p)
  BY <1>0 DEF Shape, InUse, Locks
<1>2. /\ pc[p] = "create_found" /\ lock[ip[p]] = Nobody
      /\ icache' = Read(icache, ip[p])
      /\ pc' = [pc EXCEPT ![p] = "opened"]
      /\ lock' = [lock EXCEPT ![ip[p]] = p]
      /\ UNCHANGED <<disk, saved, call, ip, dp, put, then, fd>>
  BY DEF CreateFound, Ilock, At, Wanted, Free, Take, Put, PutIp, PutDp, Goto, Over, Continue, NoPut, data, inodes
<1>3. /\ put[p] = NoInode
      /\ then[p] = "user"
      /\ ip[p] \in Inum
      /\ dp[p] = NoInode
      /\ Phase(p) = "create_found"
      /\ disk.type[ip[p]] # "free"
  <2>1. /\ put[p] = NoInode
        /\ then[p] = "user"
        /\ ip[p] \in Inum
        /\ dp[p] = NoInode
        /\ Phase(p) = "create_found"
    BY <1>0, <1>1, <1>2, Consts DEF Types, Phase, Variables, Calls, Putting, WithIp, WithDp, Linking, Unlinking, Creating, Idle
  <2>2. /\ disk.type[ip[p]] # "free"
    BY <1>0, <1>1, <1>2, <2>1, Consts DEF Live, Trees, Tree, Disk, Types, WithDp
  <2> QED
    BY <2>1, <2>2
<1>4. /\ pc'[p] = "opened"
      /\ then'[p] = then[p]
      /\ ip'[p] = ip[p]
      /\ dp'[p] = dp[p]
      /\ put'[p] = put[p]
      /\ fd'[p] = fd[p]
      /\ call'[p] = call[p]
      /\ Phase(p)' = "opened"
  <2>1. /\ pc'[p] = "opened"
        /\ then'[p] = then[p]
        /\ ip'[p] = ip[p]
        /\ dp'[p] = dp[p]
        /\ put'[p] = put[p]
        /\ fd'[p] = fd[p]
        /\ call'[p] = call[p]
    BY <1>0, <1>2, <1>3 DEF Types
  <2> QED
    BY <2>1, <1>3 DEF Phase, Putting
<1>5. OthersSame(p)
  BY <1>0, <1>2 DEF Types, OthersSame, Same
<1>6. /\ icache' \in Cache /\ True(icache', disk')
      /\ \A j \in Inum : icache'[j].ref = icache[j].ref
      /\ \A j \in Inum : icache[j].valid /\ icache[j].ref > 0 => icache'[j].valid
      /\ icache'[ip[p]].valid
  BY <1>0, <1>2, <1>3, ReadTrue DEF Types, Cached
<1>7. Types'
  BY <1>0, <1>2, <1>3, <1>4, <1>6, Consts DEF Types, Phases, Idle, Creating, Linking, Unlinking, Putting
<1>8. Variables(p)' /\ Calls(p)' /\ Apart(p)'
  <2>1. Variables(p)'
    BY <1>1, <1>3, <1>4, Consts DEF Variables, Calls, Putting, WithIp, WithDp, Linking, Unlinking, Creating, Idle
  <2>2. Calls(p)'
    BY <1>1, <1>2, <1>3, <1>4, Consts DEF Variables, Calls, Putting, WithIp, WithDp, Linking, Unlinking, Creating, Idle, NoCall
  <2>3. Apart(p)'
    BY <1>1, <1>2, <1>3, <1>4, Consts DEF Apart, Putting
  <2> QED
    BY <2>1, <2>2, <2>3
<1>9. Live(p)' /\ Stays(p)'
  <2>1. Live(p)'
    BY <1>1, <1>2, <1>3, <1>4, Consts DEF Live, Putting, WithDp, Creating, Linking, Unlinking
  <2>2. Stays(p)'
    BY <1>4 DEF Stays
  <2> QED
    BY <2>1, <2>2
<1>10. /\ \A i \in Inum : lock'[i] = p <=> Holds(p, i)'
       /\ \A i \in Inum, q \in Proc : q # p => (lock'[i] = q <=> lock[i] = q)
  <2>1. \A i \in Inum : lock[i] = p <=> Holds(p, i)
    BY <1>0 DEF Locks
  <2>2. \A i \in Inum : lock'[i] = p <=> Holds(p, i)'
    BY <1>0, <1>1, <1>2, <1>3, <1>4, <2>1, Consts DEF Holds, Apart, Putting, Types
  <2>3. \A i \in Inum, q \in Proc : q # p => (lock'[i] = q <=> lock[i] = q)
    BY <1>0, <1>2, <1>3, <2>1, Consts DEF Types, Holds, Putting
  <2> QED
    BY <2>2, <2>3
<1>11. \A i \in Inum : icache'[i].ref = icache[i].ref + Mine(p, i)' - Mine(p, i)
  <2>1. \A i \in Inum : icache[i].ref \in Nat
    BY <1>0 DEF Types, Cache, CacheEntry
  <2>2. \A i \in Inum : Mine(p, i)' = Mine(p, i) /\ Mine(p, i) \in Nat
    BY <1>4 DEF Mine, Is
  <2> QED
    BY <1>6, <2>1, <2>2
<1>12. /\ \A i \in Inum : lock'[i] # Nobody => lock[i] # Nobody \/ icache'[i].valid
       /\ \A i \in Inum : lock'[i] # Nobody /\ icache[i].valid /\ icache[i].ref > 0 => icache'[i].valid
  BY <1>0, <1>2, <1>3, <1>6, Consts DEF Types, Cached
<1>13. /\ \A q \in Proc, i \in Inum : q # p /\ Uses(q, i) /\ disk.type[i] # "free" => disk'.type[i] = disk.type[i]
       /\ \A q \in Proc, i \in Inum : q # p /\ lock[i] = q => disk'.dents[i] = disk.dents[i]
       /\ \A q \in Proc : q # p /\ pc[q] = "itrunc" => icache'[put[q]].ref = 1 /\ disk'.nlink[put[q]] = 0
  BY <1>2, <1>6, TruncatedAlone
<1>14. Trees'
  <2>1. Owed(p)' = Owed(p) \/ Owed(p)' = NoInode
    BY <1>1, <1>3, <1>4 DEF Owed, Putting, Owing
  <2> QED
    BY <1>0, <1>2, <1>5, <2>1, OthersOwe, TreesSame DEF Types
<1> QED
  BY <1>5, <1>6, <1>7, <1>8, <1>9, <1>10, <1>11, <1>12, <1>13, <1>14, StepKeeps

\* ... or not.
LEMMA CreateFoundEnds ==
  ASSUME IInv, NEW p \in Proc, CreateFound(p),
         ~(call[p].name = "create" /\ Read(icache, ip[p])[ip[p]].type = "file")
  PROVE  IInv'
<1>0. Types /\ Shape /\ Locks /\ RefsCounted /\ Cached /\ InUse /\ Trees
  BY DEF IInv
<1>1. Variables(p) /\ Calls(p) /\ Live(p) /\ Stays(p) /\ Apart(p)
  BY <1>0 DEF Shape, InUse, Locks
<1>2. /\ pc[p] = "create_found"
      /\ icache' = Read(icache, ip[p])
      /\ pc' = [pc EXCEPT ![p] = "iput"]
      /\ put' = [put EXCEPT ![p] = ip[p]]
      /\ then' = [then EXCEPT ![p] = "end"]
      /\ ip' = [ip EXCEPT ![p] = NoInode]
      /\ call' = [call EXCEPT ![p] = NoCall]
      /\ UNCHANGED <<disk, saved, lock, dp, fd>>
  BY DEF CreateFound, Ilock, At, Put, PutIp, PutDp, Goto, Over, Continue, NoPut, data, inodes
<1>3. /\ put[p] = NoInode
      /\ then[p] = "user"
      /\ ip[p] \in Inum
      /\ dp[p] = NoInode
      /\ Phase(p) = "create_found"
      /\ disk.type[ip[p]] # "free"
  <2>1. /\ put[p] = NoInode
        /\ then[p] = "user"
        /\ ip[p] \in Inum
        /\ dp[p] = NoInode
        /\ Phase(p) = "create_found"
    BY <1>0, <1>1, <1>2, Consts DEF Types, Phase, Variables, Calls, Putting, WithIp, WithDp, Linking, Unlinking, Creating, Idle
  <2>2. /\ disk.type[ip[p]] # "free"
    BY <1>0, <1>1, <1>2, <2>1, Consts DEF Live, Trees, Tree, Disk, Types, WithDp
  <2> QED
    BY <2>1, <2>2
<1>4. /\ pc'[p] = "iput"
      /\ then'[p] = "end"
      /\ ip'[p] = NoInode
      /\ dp'[p] = dp[p]
      /\ put'[p] = ip[p]
      /\ fd'[p] = fd[p]
      /\ call'[p] = NoCall
      /\ Phase(p)' = "end"
  <2>1. /\ pc'[p] = "iput"
        /\ then'[p] = "end"
        /\ ip'[p] = NoInode
        /\ dp'[p] = dp[p]
        /\ put'[p] = ip[p]
        /\ fd'[p] = fd[p]
        /\ call'[p] = NoCall
    BY <1>0, <1>2, <1>3 DEF Types
  <2> QED
    BY <2>1, <1>3 DEF Phase, Putting
<1>5. OthersSame(p)
  BY <1>0, <1>2 DEF Types, OthersSame, Same
<1>6. /\ icache' \in Cache /\ True(icache', disk')
      /\ \A j \in Inum : icache'[j].ref = icache[j].ref
      /\ \A j \in Inum : icache[j].valid /\ icache[j].ref > 0 => icache'[j].valid
      /\ icache'[ip[p]].valid
  BY <1>0, <1>2, <1>3, ReadTrue DEF Types, Cached
<1>7. Types'
  BY <1>0, <1>2, <1>3, <1>4, <1>6, Consts DEF Types, Phases, Idle, Creating, Linking, Unlinking, Putting
<1>8. Variables(p)' /\ Calls(p)' /\ Apart(p)'
  <2>1. Variables(p)'
    BY <1>1, <1>3, <1>4, Consts DEF Variables, Calls, Putting, WithIp, WithDp, Linking, Unlinking, Creating, Idle
  <2>2. Calls(p)'
    BY <1>1, <1>2, <1>3, <1>4, Consts DEF Variables, Calls, Putting, WithIp, WithDp, Linking, Unlinking, Creating, Idle, NoCall
  <2>3. Apart(p)'
    BY <1>1, <1>2, <1>3, <1>4, Consts DEF Apart, Putting
  <2> QED
    BY <2>1, <2>2, <2>3
<1>9. Live(p)' /\ Stays(p)'
  <2>1. Live(p)'
    BY <1>1, <1>2, <1>3, <1>4, Consts DEF Live, Putting, WithDp, Creating, Linking, Unlinking
  <2>2. Stays(p)'
    BY <1>4 DEF Stays
  <2> QED
    BY <2>1, <2>2
<1>10. /\ \A i \in Inum : lock'[i] = p <=> Holds(p, i)'
       /\ \A i \in Inum, q \in Proc : q # p => (lock'[i] = q <=> lock[i] = q)
  <2>1. \A i \in Inum : lock[i] = p <=> Holds(p, i)
    BY <1>0 DEF Locks
  <2>2. \A i \in Inum : lock'[i] = p <=> Holds(p, i)'
    BY <1>0, <1>1, <1>2, <1>3, <1>4, <2>1, Consts DEF Holds, Apart, Putting, Types
  <2>3. \A i \in Inum, q \in Proc : q # p => (lock'[i] = q <=> lock[i] = q)
    BY <1>0, <1>2, <1>3, <2>1, Consts DEF Types, Holds, Putting
  <2> QED
    BY <2>2, <2>3
<1>11. \A i \in Inum : icache'[i].ref = icache[i].ref + Mine(p, i)' - Mine(p, i)
  <2> SUFFICES ASSUME NEW i \in Inum
               PROVE  icache'[i].ref = icache[i].ref + Mine(p, i)' - Mine(p, i)
    OBVIOUS
  <2>1. icache[i].ref \in Nat
    BY <1>0 DEF Types, Cache, CacheEntry
  <2>2. Is(NoInode, i) = 0 /\ \A x : Is(x, i) \in Nat
    BY Consts DEF Is
  <2>3. Mine(p, i)' = Is(ip'[p], i) + Is(dp'[p], i) + Is(put'[p], i) + Is(fd'[p], i)
    BY DEF Mine
  <2> QED
    BY <1>3, <1>4, <1>6, <2>1, <2>2, <2>3 DEF Mine
<1>12. /\ \A i \in Inum : lock'[i] # Nobody => lock[i] # Nobody \/ icache'[i].valid
       /\ \A i \in Inum : lock'[i] # Nobody /\ icache[i].valid /\ icache[i].ref > 0 => icache'[i].valid
  BY <1>0, <1>2, <1>3, <1>6, Consts DEF Types, Cached
<1>13. /\ \A q \in Proc, i \in Inum : q # p /\ Uses(q, i) /\ disk.type[i] # "free" => disk'.type[i] = disk.type[i]
       /\ \A q \in Proc, i \in Inum : q # p /\ lock[i] = q => disk'.dents[i] = disk.dents[i]
       /\ \A q \in Proc : q # p /\ pc[q] = "itrunc" => icache'[put[q]].ref = 1 /\ disk'.nlink[put[q]] = 0
  BY <1>2, <1>6, TruncatedAlone
<1>14. Trees'
  <2>1. Owed(p)' = Owed(p) \/ Owed(p)' = NoInode
    BY <1>1, <1>3, <1>4 DEF Owed, Putting, Owing
  <2> QED
    BY <1>0, <1>2, <1>5, <2>1, OthersOwe, TreesSame DEF Types
<1> QED
  BY <1>5, <1>6, <1>7, <1>8, <1>9, <1>10, <1>11, <1>12, <1>13, <1>14, StepKeeps

\* open takes the lock of what it has found.
LEMMA OpenFoundKeeps ==
  ASSUME IInv, NEW p \in Proc, OpenFound(p)
  PROVE  IInv'
<1>0. Types /\ Shape /\ Locks /\ RefsCounted /\ Cached /\ InUse /\ Trees
  BY DEF IInv
<1>1. Variables(p) /\ Calls(p) /\ Live(p) /\ Stays(p) /\ Apart(p)
  BY <1>0 DEF Shape, InUse, Locks
<1>2. /\ pc[p] = "open" /\ lock[ip[p]] = Nobody
      /\ icache' = Read(icache, ip[p])
      /\ pc' = [pc EXCEPT ![p] = "opened"]
      /\ lock' = [lock EXCEPT ![ip[p]] = p]
      /\ UNCHANGED <<disk, saved, call, ip, dp, put, then, fd>>
  BY DEF OpenFound, Ilock, At, Wanted, Free, Take, Put, PutIp, PutDp, Goto, Over, Continue, NoPut, data, inodes
<1>3. /\ put[p] = NoInode
      /\ then[p] = "user"
      /\ ip[p] \in Inum
      /\ dp[p] = NoInode
      /\ Phase(p) = "open"
      /\ disk.type[ip[p]] # "free"
  <2>1. /\ put[p] = NoInode
        /\ then[p] = "user"
        /\ ip[p] \in Inum
        /\ dp[p] = NoInode
        /\ Phase(p) = "open"
    BY <1>0, <1>1, <1>2, Consts DEF Types, Phase, Variables, Calls, Putting, WithIp, WithDp, Linking, Unlinking, Creating, Idle
  <2>2. /\ disk.type[ip[p]] # "free"
    BY <1>0, <1>1, <1>2, <2>1, Consts DEF Live, Trees, Tree, Disk, Types, WithDp
  <2> QED
    BY <2>1, <2>2
<1>4. /\ pc'[p] = "opened"
      /\ then'[p] = then[p]
      /\ ip'[p] = ip[p]
      /\ dp'[p] = dp[p]
      /\ put'[p] = put[p]
      /\ fd'[p] = fd[p]
      /\ call'[p] = call[p]
      /\ Phase(p)' = "opened"
  <2>1. /\ pc'[p] = "opened"
        /\ then'[p] = then[p]
        /\ ip'[p] = ip[p]
        /\ dp'[p] = dp[p]
        /\ put'[p] = put[p]
        /\ fd'[p] = fd[p]
        /\ call'[p] = call[p]
    BY <1>0, <1>2, <1>3 DEF Types
  <2> QED
    BY <2>1, <1>3 DEF Phase, Putting
<1>5. OthersSame(p)
  BY <1>0, <1>2 DEF Types, OthersSame, Same
<1>6. /\ icache' \in Cache /\ True(icache', disk')
      /\ \A j \in Inum : icache'[j].ref = icache[j].ref
      /\ \A j \in Inum : icache[j].valid /\ icache[j].ref > 0 => icache'[j].valid
      /\ icache'[ip[p]].valid
  BY <1>0, <1>2, <1>3, ReadTrue DEF Types, Cached
<1>7. Types'
  BY <1>0, <1>2, <1>3, <1>4, <1>6, Consts DEF Types, Phases, Idle, Creating, Linking, Unlinking, Putting
<1>8. Variables(p)' /\ Calls(p)' /\ Apart(p)'
  <2>1. Variables(p)'
    BY <1>1, <1>3, <1>4, Consts DEF Variables, Calls, Putting, WithIp, WithDp, Linking, Unlinking, Creating, Idle
  <2>2. Calls(p)'
    BY <1>1, <1>2, <1>3, <1>4, Consts DEF Variables, Calls, Putting, WithIp, WithDp, Linking, Unlinking, Creating, Idle, NoCall
  <2>3. Apart(p)'
    BY <1>1, <1>2, <1>3, <1>4, Consts DEF Apart, Putting
  <2> QED
    BY <2>1, <2>2, <2>3
<1>9. Live(p)' /\ Stays(p)'
  <2>1. Live(p)'
    BY <1>1, <1>2, <1>3, <1>4, Consts DEF Live, Putting, WithDp, Creating, Linking, Unlinking
  <2>2. Stays(p)'
    BY <1>4 DEF Stays
  <2> QED
    BY <2>1, <2>2
<1>10. /\ \A i \in Inum : lock'[i] = p <=> Holds(p, i)'
       /\ \A i \in Inum, q \in Proc : q # p => (lock'[i] = q <=> lock[i] = q)
  <2>1. \A i \in Inum : lock[i] = p <=> Holds(p, i)
    BY <1>0 DEF Locks
  <2>2. \A i \in Inum : lock'[i] = p <=> Holds(p, i)'
    BY <1>0, <1>1, <1>2, <1>3, <1>4, <2>1, Consts DEF Holds, Apart, Putting, Types
  <2>3. \A i \in Inum, q \in Proc : q # p => (lock'[i] = q <=> lock[i] = q)
    BY <1>0, <1>2, <1>3, <2>1, Consts DEF Types, Holds, Putting
  <2> QED
    BY <2>2, <2>3
<1>11. \A i \in Inum : icache'[i].ref = icache[i].ref + Mine(p, i)' - Mine(p, i)
  <2>1. \A i \in Inum : icache[i].ref \in Nat
    BY <1>0 DEF Types, Cache, CacheEntry
  <2>2. \A i \in Inum : Mine(p, i)' = Mine(p, i) /\ Mine(p, i) \in Nat
    BY <1>4 DEF Mine, Is
  <2> QED
    BY <1>6, <2>1, <2>2
<1>12. /\ \A i \in Inum : lock'[i] # Nobody => lock[i] # Nobody \/ icache'[i].valid
       /\ \A i \in Inum : lock'[i] # Nobody /\ icache[i].valid /\ icache[i].ref > 0 => icache'[i].valid
  BY <1>0, <1>2, <1>3, <1>6, Consts DEF Types, Cached
<1>13. /\ \A q \in Proc, i \in Inum : q # p /\ Uses(q, i) /\ disk.type[i] # "free" => disk'.type[i] = disk.type[i]
       /\ \A q \in Proc, i \in Inum : q # p /\ lock[i] = q => disk'.dents[i] = disk.dents[i]
       /\ \A q \in Proc : q # p /\ pc[q] = "itrunc" => icache'[put[q]].ref = 1 /\ disk'.nlink[put[q]] = 0
  BY <1>2, <1>6, TruncatedAlone
<1>14. Trees'
  <2>1. Owed(p)' = Owed(p) \/ Owed(p)' = NoInode
    BY <1>1, <1>3, <1>4 DEF Owed, Putting, Owing
  <2> QED
    BY <1>0, <1>2, <1>5, <2>1, OthersOwe, TreesSame DEF Types
<1> QED
  BY <1>5, <1>6, <1>7, <1>8, <1>9, <1>10, <1>11, <1>12, <1>13, <1>14, StepKeeps

\* The reference goes to the file ...
LEMMA OpenedOpens ==
  ASSUME IInv, NEW p \in Proc, Opened(p),
         call[p].name # "mkdir", fd' = [fd EXCEPT ![p] = ip[p]], ip' = [ip EXCEPT ![p] = NoInode],
         Goto(p, "end"), Over(p), NoPut, UNCHANGED dp
  PROVE  IInv'
<1>0. Types /\ Shape /\ Locks /\ RefsCounted /\ Cached /\ InUse /\ Trees
  BY DEF IInv
<1>1. Variables(p) /\ Calls(p) /\ Live(p) /\ Stays(p) /\ Apart(p)
  BY <1>0 DEF Shape, InUse, Locks
<1>2. /\ pc[p] = "opened"
      /\ pc' = [pc EXCEPT ![p] = "end"]
      /\ fd' = [fd EXCEPT ![p] = ip[p]]
      /\ ip' = [ip EXCEPT ![p] = NoInode]
      /\ call' = [call EXCEPT ![p] = NoCall]
      /\ lock' = [lock EXCEPT ![ip[p]] = Nobody]
      /\ UNCHANGED <<disk, saved, icache, dp, put, then>>
  BY DEF Opened, At, Release, Put, PutIp, PutDp, Goto, Over, Continue, NoPut, data, inodes
<1>3. /\ put[p] = NoInode
      /\ then[p] = "user"
      /\ ip[p] \in Inum
      /\ dp[p] = NoInode
      /\ fd[p] = NoInode
      /\ Phase(p) = "opened"
      /\ disk.type[ip[p]] # "free"
  <2>1. /\ put[p] = NoInode
        /\ then[p] = "user"
        /\ ip[p] \in Inum
        /\ dp[p] = NoInode
        /\ fd[p] = NoInode
        /\ Phase(p) = "opened"
    BY <1>0, <1>1, <1>2, Consts DEF Types, Phase, Variables, Calls, Putting, WithIp, WithDp, Linking, Unlinking, Creating, Idle
  <2>2. /\ disk.type[ip[p]] # "free"
    BY <1>0, <1>1, <1>2, <2>1, Consts DEF Live, Trees, Tree, Disk, Types, WithDp
  <2> QED
    BY <2>1, <2>2
<1>4. /\ pc'[p] = "end"
      /\ then'[p] = then[p]
      /\ ip'[p] = NoInode
      /\ dp'[p] = dp[p]
      /\ put'[p] = put[p]
      /\ fd'[p] = ip[p]
      /\ call'[p] = NoCall
      /\ Phase(p)' = "end"
  <2>1. /\ pc'[p] = "end"
        /\ then'[p] = then[p]
        /\ ip'[p] = NoInode
        /\ dp'[p] = dp[p]
        /\ put'[p] = put[p]
        /\ fd'[p] = ip[p]
        /\ call'[p] = NoCall
    BY <1>0, <1>2, <1>3 DEF Types
  <2> QED
    BY <2>1, <1>3 DEF Phase, Putting
<1>5. OthersSame(p)
  BY <1>0, <1>2 DEF Types, OthersSame, Same
<1>6. icache' = icache /\ True(icache', disk')
  BY <1>0, <1>2 DEF Cached
<1>7. Types'
  BY <1>0, <1>2, <1>3, <1>4, <1>6, Consts DEF Types, Phases, Idle, Creating, Linking, Unlinking, Putting
<1>8. Variables(p)' /\ Calls(p)' /\ Apart(p)'
  <2>1. Variables(p)'
    BY <1>1, <1>3, <1>4, Consts DEF Variables, Calls, Putting, WithIp, WithDp, Linking, Unlinking, Creating, Idle
  <2>2. Calls(p)'
    BY <1>1, <1>2, <1>3, <1>4, Consts DEF Variables, Calls, Putting, WithIp, WithDp, Linking, Unlinking, Creating, Idle, NoCall
  <2>3. Apart(p)'
    BY <1>1, <1>2, <1>3, <1>4, Consts DEF Apart, Putting
  <2> QED
    BY <2>1, <2>2, <2>3
<1>9. Live(p)' /\ Stays(p)'
  <2>1. Live(p)'
    BY <1>1, <1>2, <1>3, <1>4, Consts DEF Live, Putting, WithDp, Creating, Linking, Unlinking
  <2>2. Stays(p)'
    BY <1>4 DEF Stays
  <2> QED
    BY <2>1, <2>2
<1>10. /\ \A i \in Inum : lock'[i] = p <=> Holds(p, i)'
       /\ \A i \in Inum, q \in Proc : q # p => (lock'[i] = q <=> lock[i] = q)
  <2>1. \A i \in Inum : lock[i] = p <=> Holds(p, i)
    BY <1>0 DEF Locks
  <2>2. \A i \in Inum : lock'[i] = p <=> Holds(p, i)'
    BY <1>0, <1>1, <1>2, <1>3, <1>4, <2>1, Consts DEF Holds, Apart, Putting, Types
  <2>3. \A i \in Inum, q \in Proc : q # p => (lock'[i] = q <=> lock[i] = q)
    BY <1>0, <1>2, <1>3, <2>1, Consts DEF Types, Holds, Putting
  <2> QED
    BY <2>2, <2>3
<1>11. \A i \in Inum : icache'[i].ref = icache[i].ref + Mine(p, i)' - Mine(p, i)
  <2>1. \A i \in Inum : icache[i].ref \in Nat
    BY <1>0 DEF Types, Cache, CacheEntry
  <2> QED
    BY <1>3, <1>4, <1>6, <2>1, Consts DEF Mine, Is
<1>12. /\ \A i \in Inum : lock'[i] # Nobody => lock[i] # Nobody \/ icache'[i].valid
       /\ \A i \in Inum : lock'[i] # Nobody /\ icache[i].valid /\ icache[i].ref > 0 => icache'[i].valid
  BY <1>0, <1>2, <1>3, <1>6, Consts DEF Types, Cached
<1>13. /\ \A q \in Proc, i \in Inum : q # p /\ Uses(q, i) /\ disk.type[i] # "free" => disk'.type[i] = disk.type[i]
       /\ \A q \in Proc, i \in Inum : q # p /\ lock[i] = q => disk'.dents[i] = disk.dents[i]
       /\ \A q \in Proc : q # p /\ pc[q] = "itrunc" => icache'[put[q]].ref = 1 /\ disk'.nlink[put[q]] = 0
  BY <1>2, <1>6, TruncatedAlone
<1>14. Trees'
  <2>1. Owed(p)' = Owed(p) \/ Owed(p)' = NoInode
    BY <1>1, <1>3, <1>4 DEF Owed, Putting, Owing
  <2> QED
    BY <1>0, <1>2, <1>5, <2>1, OthersOwe, TreesSame DEF Types
<1> QED
  BY <1>5, <1>6, <1>7, <1>8, <1>9, <1>10, <1>11, <1>12, <1>13, <1>14, StepKeeps

\* ... or is dropped.
LEMMA OpenedEnds ==
  ASSUME IInv, NEW p \in Proc, Opened(p),
         PutIp(p, "end"), UNCHANGED fd
  PROVE  IInv'
<1>0. Types /\ Shape /\ Locks /\ RefsCounted /\ Cached /\ InUse /\ Trees
  BY DEF IInv
<1>1. Variables(p) /\ Calls(p) /\ Live(p) /\ Stays(p) /\ Apart(p)
  BY <1>0 DEF Shape, InUse, Locks
<1>2. /\ pc[p] = "opened"
      /\ pc' = [pc EXCEPT ![p] = "iput"]
      /\ put' = [put EXCEPT ![p] = ip[p]]
      /\ then' = [then EXCEPT ![p] = "end"]
      /\ ip' = [ip EXCEPT ![p] = NoInode]
      /\ call' = [call EXCEPT ![p] = NoCall]
      /\ lock' = [lock EXCEPT ![ip[p]] = Nobody]
      /\ UNCHANGED <<disk, saved, icache, dp, fd>>
  BY DEF Opened, At, Release, Put, PutIp, PutDp, Goto, Over, Continue, NoPut, data, inodes
<1>3. /\ put[p] = NoInode
      /\ then[p] = "user"
      /\ ip[p] \in Inum
      /\ dp[p] = NoInode
      /\ Phase(p) = "opened"
      /\ disk.type[ip[p]] # "free"
  <2>1. /\ put[p] = NoInode
        /\ then[p] = "user"
        /\ ip[p] \in Inum
        /\ dp[p] = NoInode
        /\ Phase(p) = "opened"
    BY <1>0, <1>1, <1>2, Consts DEF Types, Phase, Variables, Calls, Putting, WithIp, WithDp, Linking, Unlinking, Creating, Idle
  <2>2. /\ disk.type[ip[p]] # "free"
    BY <1>0, <1>1, <1>2, <2>1, Consts DEF Live, Trees, Tree, Disk, Types, WithDp
  <2> QED
    BY <2>1, <2>2
<1>4. /\ pc'[p] = "iput"
      /\ then'[p] = "end"
      /\ ip'[p] = NoInode
      /\ dp'[p] = dp[p]
      /\ put'[p] = ip[p]
      /\ fd'[p] = fd[p]
      /\ call'[p] = NoCall
      /\ Phase(p)' = "end"
  <2>1. /\ pc'[p] = "iput"
        /\ then'[p] = "end"
        /\ ip'[p] = NoInode
        /\ dp'[p] = dp[p]
        /\ put'[p] = ip[p]
        /\ fd'[p] = fd[p]
        /\ call'[p] = NoCall
    BY <1>0, <1>2, <1>3 DEF Types
  <2> QED
    BY <2>1, <1>3 DEF Phase, Putting
<1>5. OthersSame(p)
  BY <1>0, <1>2 DEF Types, OthersSame, Same
<1>6. icache' = icache /\ True(icache', disk')
  BY <1>0, <1>2 DEF Cached
<1>7. Types'
  BY <1>0, <1>2, <1>3, <1>4, <1>6, Consts DEF Types, Phases, Idle, Creating, Linking, Unlinking, Putting
<1>8. Variables(p)' /\ Calls(p)' /\ Apart(p)'
  <2>1. Variables(p)'
    BY <1>1, <1>3, <1>4, Consts DEF Variables, Calls, Putting, WithIp, WithDp, Linking, Unlinking, Creating, Idle
  <2>2. Calls(p)'
    BY <1>1, <1>2, <1>3, <1>4, Consts DEF Variables, Calls, Putting, WithIp, WithDp, Linking, Unlinking, Creating, Idle, NoCall
  <2>3. Apart(p)'
    BY <1>1, <1>2, <1>3, <1>4, Consts DEF Apart, Putting
  <2> QED
    BY <2>1, <2>2, <2>3
<1>9. Live(p)' /\ Stays(p)'
  <2>1. Live(p)'
    BY <1>1, <1>2, <1>3, <1>4, Consts DEF Live, Putting, WithDp, Creating, Linking, Unlinking
  <2>2. Stays(p)'
    BY <1>4 DEF Stays
  <2> QED
    BY <2>1, <2>2
<1>10. /\ \A i \in Inum : lock'[i] = p <=> Holds(p, i)'
       /\ \A i \in Inum, q \in Proc : q # p => (lock'[i] = q <=> lock[i] = q)
  <2>1. \A i \in Inum : lock[i] = p <=> Holds(p, i)
    BY <1>0 DEF Locks
  <2>2. \A i \in Inum : lock'[i] = p <=> Holds(p, i)'
    BY <1>0, <1>1, <1>2, <1>3, <1>4, <2>1, Consts DEF Holds, Apart, Putting, Types
  <2>3. \A i \in Inum, q \in Proc : q # p => (lock'[i] = q <=> lock[i] = q)
    BY <1>0, <1>2, <1>3, <2>1, Consts DEF Types, Holds, Putting
  <2> QED
    BY <2>2, <2>3
<1>11. \A i \in Inum : icache'[i].ref = icache[i].ref + Mine(p, i)' - Mine(p, i)
  <2> SUFFICES ASSUME NEW i \in Inum
               PROVE  icache'[i].ref = icache[i].ref + Mine(p, i)' - Mine(p, i)
    OBVIOUS
  <2>1. icache[i].ref \in Nat
    BY <1>0 DEF Types, Cache, CacheEntry
  <2>2. Is(NoInode, i) = 0 /\ \A x : Is(x, i) \in Nat
    BY Consts DEF Is
  <2>3. Mine(p, i)' = Is(ip'[p], i) + Is(dp'[p], i) + Is(put'[p], i) + Is(fd'[p], i)
    BY DEF Mine
  <2> QED
    BY <1>3, <1>4, <1>6, <2>1, <2>2, <2>3 DEF Mine
<1>12. /\ \A i \in Inum : lock'[i] # Nobody => lock[i] # Nobody \/ icache'[i].valid
       /\ \A i \in Inum : lock'[i] # Nobody /\ icache[i].valid /\ icache[i].ref > 0 => icache'[i].valid
  BY <1>0, <1>2, <1>3, <1>6, Consts DEF Types, Cached
<1>13. /\ \A q \in Proc, i \in Inum : q # p /\ Uses(q, i) /\ disk.type[i] # "free" => disk'.type[i] = disk.type[i]
       /\ \A q \in Proc, i \in Inum : q # p /\ lock[i] = q => disk'.dents[i] = disk.dents[i]
       /\ \A q \in Proc : q # p /\ pc[q] = "itrunc" => icache'[put[q]].ref = 1 /\ disk'.nlink[put[q]] = 0
  BY <1>2, <1>6, TruncatedAlone
<1>14. Trees'
  <2>1. Owed(p)' = Owed(p) \/ Owed(p)' = NoInode
    BY <1>1, <1>3, <1>4 DEF Owed, Putting, Owing
  <2> QED
    BY <1>0, <1>2, <1>5, <2>1, OthersOwe, TreesSame DEF Types
<1> QED
  BY <1>5, <1>6, <1>7, <1>8, <1>9, <1>10, <1>11, <1>12, <1>13, <1>14, StepKeeps

\* The new inode gets its name, and the parent the link for "..".
LEMMA CreateNewKeeps ==
  ASSUME IInv, NEW p \in Proc, CreateNew(p)
  PROVE  IInv'
<1>0. Types /\ Shape /\ Locks /\ RefsCounted /\ Cached /\ InUse /\ Trees
  BY DEF IInv
<1>1. Variables(p) /\ Calls(p) /\ Live(p) /\ Stays(p) /\ Apart(p)
  BY <1>0 DEF Shape, InUse, Locks
<1>2. /\ pc[p] = "create_new" /\ lock[ip[p]] = Nobody
      /\ lock' = [lock EXCEPT ![dp[p]] = Nobody, ![ip[p]] = p]
      /\ pc' = [pc EXCEPT ![p] = "iput"]
      /\ put' = [put EXCEPT ![p] = dp[p]]
      /\ then' = [then EXCEPT ![p] = "opened"]
      /\ dp' = [dp EXCEPT ![p] = NoInode]
      /\ UNCHANGED <<saved, call, ip, fd>>
  <2>1. Ilock(p, "create_new") /\ Pass(p, dp[p], ip[p]) /\ PutDp(p, "opened") /\ UNCHANGED <<saved, fd>>
    BY Zenon DEF CreateNew
  <2> QED
    BY <2>1 DEF Ilock, At, Wanted, Free, Pass, Put, PutIp, PutDp, Goto, Over, Continue, NoPut, data, inodes
<1>3. /\ put[p] = NoInode
      /\ then[p] = "user"
      /\ dp[p] \in Inum
      /\ ip[p] \in Inum /\ ip[p] # dp[p]
      /\ Phase(p) = "create_new"
      /\ disk.type[dp[p]] = "dir"
      /\ disk.type[ip[p]] # "free"
      /\ Entry(p) \in Name /\ Existing(p) = NoInode
      /\ lock[dp[p]] = p
  <2>1. /\ put[p] = NoInode
        /\ then[p] = "user"
        /\ dp[p] \in Inum
        /\ ip[p] \in Inum /\ ip[p] # dp[p]
        /\ Phase(p) = "create_new"
    BY <1>0, <1>1, <1>2, Consts DEF Types, Phase, Variables, Calls, Putting, WithIp, WithDp, Linking, Unlinking, Creating, Idle
  <2>2. /\ disk.type[dp[p]] = "dir"
        /\ disk.type[ip[p]] # "free"
    BY <1>0, <1>1, <1>2, <2>1, Consts DEF Live, Trees, Tree, Disk, Types, WithDp
  <2>3. Entry(p) \in Name /\ Existing(p) = NoInode
    BY <1>0, <1>1, <1>2, <2>1, EntryIs DEF Stays, WithDp
  <2>4. lock[dp[p]] = p
    BY <1>0, <1>2, <2>1 DEF Locks, Holds
  <2> QED
    BY <2>1, <2>2, <2>3, <2>4
<1>4. /\ pc'[p] = "iput"
      /\ then'[p] = "opened"
      /\ ip'[p] = ip[p]
      /\ dp'[p] = NoInode
      /\ put'[p] = dp[p]
      /\ fd'[p] = fd[p]
      /\ call'[p] = call[p]
      /\ Phase(p)' = "opened"
  <2>1. /\ pc'[p] = "iput"
        /\ then'[p] = "opened"
        /\ ip'[p] = ip[p]
        /\ dp'[p] = NoInode
        /\ put'[p] = dp[p]
        /\ fd'[p] = fd[p]
        /\ call'[p] = call[p]
    BY <1>0, <1>2, <1>3 DEF Types
  <2> QED
    BY <2>1, <1>3 DEF Phase, Putting
<1>5. OthersSame(p)
  BY <1>0, <1>2 DEF Types, OthersSame, Same
<1>6. /\ icache' \in Cache /\ True(icache', disk')
      /\ \A j \in Inum : icache'[j].ref = icache[j].ref
      /\ \A j \in Inum : icache[j].valid /\ icache[j].ref > 0 => icache'[j].valid
      /\ disk' \in Disk /\ disk'.type = disk.type
      /\ disk'.dents = [disk.dents EXCEPT ![dp[p]][Entry(p)] = ip[p]]
      /\ \A j \in Inum : j # dp[p] => disk'.nlink[j] = disk.nlink[j] + Is(ip[p], j)
      /\ disk'.nlink[dp[p]] = disk.nlink[dp[p]] + DirLink(disk, ip[p])
      /\ icache'[ip[p]].valid
  <2> DEFINE r == Read(icache, ip[p])
             a == AddLinks(r, ip[p], 1)
             f == Iupdate(disk, a, ip[p])
             c == IF a[ip[p]].type = "dir" THEN AddLinks(a, dp[p], 1) ELSE a
  <2>1. /\ icache' = c
        /\ disk' = [Iupdate(Iupdate(disk, c, ip[p]), c, dp[p]) EXCEPT !.dents[dp[p]][Entry(p)] = ip[p]]
    BY Zenon DEF CreateNew
  <2>2. /\ r \in Cache /\ True(r, disk) /\ r[ip[p]].valid /\ r[ip[p]].ref > 0 /\ r[ip[p]].type = disk.type[ip[p]]
        /\ \A j \in Inum : r[j].ref = icache[j].ref /\ (icache[j].valid => r[j].valid)
    BY <1>3, ReadHere DEF Uses
  <2>3. r[dp[p]].valid /\ r[dp[p]].ref > 0
    <3>1. icache[dp[p]].ref >= 1 /\ icache[dp[p]].valid
      BY <1>3, Consts, LockedHasRef
    <3>2. icache[dp[p]].ref \in Nat
      BY <1>0, <1>3 DEF Types, Cache, CacheEntry
    <3> QED
      BY <1>3, <2>2, <3>1, <3>2
  <2> HIDE DEF r
  <2>4. disk.nlink[ip[p]] \in Nat /\ disk.nlink[dp[p]] \in Nat /\ disk \in Disk
    BY <1>0, <1>3 DEF Types, Disk
  <2>5. /\ a \in Cache /\ f \in Disk /\ True(a, f) /\ f.type = disk.type /\ f.dents = disk.dents
        /\ f.nlink = [disk.nlink EXCEPT ![ip[p]] = @ + 1]
        /\ \A j \in Inum : a[j].ref = r[j].ref /\ (a[j].valid <=> r[j].valid) /\ a[j].type = r[j].type
    BY <1>3, <2>2, <2>4, LinksMove DEF LinksMoved
  <2>6. \A j \in Inum : f.nlink[j] = disk.nlink[j] + Is(ip[p], j)
    BY <1>0, <1>3, <2>5 DEF Types, Disk, Is
  <2>14. IF disk.type[ip[p]] = "dir" THEN c = AddLinks(a, dp[p], 1) ELSE c = a
    BY <1>3, <2>2, <2>5
  <2>15. f = Iupdate(disk, a, ip[p])
    OBVIOUS
  <2> HIDE DEF a, c, f
  <2>7. PICK g \in Disk :
          /\ disk' = [g EXCEPT !.dents[dp[p]][Entry(p)] = ip[p]]
          /\ c \in Cache /\ True(c, g) /\ g.type = disk.type /\ g.dents = disk.dents
          /\ \A j \in Inum : c[j].ref = a[j].ref /\ (c[j].valid <=> a[j].valid)
          /\ \A j \in Inum : j # dp[p] => g.nlink[j] = f.nlink[j]
          /\ g.nlink[dp[p]] = f.nlink[dp[p]] + DirLink(disk, ip[p])
    <3>1. CASE disk.type[ip[p]] = "dir"
      <4>1. c = AddLinks(a, dp[p], 1) /\ DirLink(disk, ip[p]) = 1
        BY <1>3, <2>14, <3>1, Consts DEF DirLink
      <4>2. f.nlink[dp[p]] \in Nat
        BY <1>3, <2>5 DEF Disk
      <4>3. f.nlink[dp[p]] + 1 >= 0
        BY <4>2
      <4> DEFINE g == Iupdate(f, c, dp[p])
      <4>4. /\ c \in Cache /\ True(c, g) /\ g \in Disk /\ g.type = f.type /\ g.dents = f.dents
            /\ g.nlink = [f.nlink EXCEPT ![dp[p]] = @ + 1]
            /\ \A j \in Inum : c[j].ref = a[j].ref /\ (c[j].valid <=> a[j].valid) /\ (j # dp[p] => c[j] = a[j])
        <5>1. a \in Cache /\ f \in Disk /\ True(a, f) /\ a[dp[p]].valid /\ a[dp[p]].ref > 0 /\ dp[p] \in Inum
          BY <1>3, <2>3, <2>5
        <5>2. LinksMoved(a, f, dp[p], 1, AddLinks(a, dp[p], 1), Iupdate(f, AddLinks(a, dp[p], 1), dp[p]))
          BY <4>3, <5>1, LinksMove
        <5>3. LinksMoved(a, f, dp[p], 1, c, g)
          BY <4>1, <5>2
        <5> QED
          BY <5>3 DEF LinksMoved
      <4>5. Iupdate(disk, c, ip[p]) = f
        BY <1>3, <2>15, <4>4 DEF Iupdate
      <4>6. disk' = [g EXCEPT !.dents[dp[p]][Entry(p)] = ip[p]]
        BY <2>1, <4>5
      <4> HIDE DEF g
      <4>7. /\ \A j \in Inum : j # dp[p] => g.nlink[j] = f.nlink[j]
            /\ g.nlink[dp[p]] = f.nlink[dp[p]] + 1
        BY <1>3, <2>5, <4>4 DEF Disk
      <4> QED
        BY <2>5, <4>1, <4>4, <4>6, <4>7
    <3>2. CASE disk.type[ip[p]] # "dir"
      <4>1. c = a /\ DirLink(disk, ip[p]) = 0
        BY <1>3, <2>14, <3>2, Consts DEF DirLink
      <4> DEFINE g == Iupdate(f, a, dp[p])
      <4>2. g \in Disk /\ g.type = f.type /\ g.nlink = f.nlink /\ g.dents = f.dents
        BY <1>3, <2>3, <2>5, WriteSame
      <4>3. disk' = [g EXCEPT !.dents[dp[p]][Entry(p)] = ip[p]]
        BY <2>1, <2>15, <4>1
      <4> HIDE DEF g
      <4>4. True(c, g)
        BY <2>5, <4>1, <4>2 DEF True
      <4>5. g.nlink[dp[p]] = f.nlink[dp[p]] + 0
        BY <1>3, <2>5, <4>2 DEF Disk
      <4> QED
        BY <2>5, <4>1, <4>2, <4>3, <4>4, <4>5
    <3> QED
      BY <3>1, <3>2
  <2>8. /\ disk' \in Disk /\ disk'.type = g.type /\ disk'.nlink = g.nlink
        /\ disk'.dents = [g.dents EXCEPT ![dp[p]][Entry(p)] = ip[p]]
    BY <1>3, <2>7, EntryWritten
  <2>9. True(icache', disk')
    BY <2>1, <2>7, <2>8 DEF True
  <2>10. \A j \in Inum : /\ icache'[j].ref = icache[j].ref /\ (icache[j].valid => icache'[j].valid)
                         /\ (j = ip[p] => icache'[j].valid)
    BY <2>1, <2>2, <2>5, <2>7
  <2>11. Is(ip[p], dp[p]) = 0
    BY <1>3 DEF Is
  <2>12. disk'.nlink[dp[p]] = disk.nlink[dp[p]] + DirLink(disk, ip[p])
    BY <1>3, <2>4, <2>6, <2>7, <2>8, <2>11
  <2>13. \A j \in Inum : j # dp[p] => disk'.nlink[j] = disk.nlink[j] + Is(ip[p], j)
    BY <2>6, <2>7, <2>8
  <2> QED
    BY <1>3, <2>1, <2>7, <2>8, <2>9, <2>10, <2>12, <2>13
<1>7. Types'
  BY <1>0, <1>2, <1>3, <1>4, <1>6, Consts DEF Types, Phases, Idle, Creating, Linking, Unlinking, Putting
<1>8. Variables(p)' /\ Calls(p)' /\ Apart(p)'
  <2>1. Variables(p)'
    BY <1>1, <1>3, <1>4, Consts DEF Variables, Calls, Putting, WithIp, WithDp, Linking, Unlinking, Creating, Idle
  <2>2. Calls(p)'
    BY <1>1, <1>2, <1>3, <1>4, Consts DEF Variables, Calls, Putting, WithIp, WithDp, Linking, Unlinking, Creating, Idle, NoCall
  <2>3. Apart(p)'
    BY <1>1, <1>2, <1>3, <1>4, Consts DEF Apart, Putting
  <2> QED
    BY <2>1, <2>2, <2>3
<1>9. Live(p)' /\ Stays(p)'
  <2>1. Live(p)'
    <3>1. fd[p] # NoInode => disk.type[fd[p]] # "free"
      BY <1>1 DEF Live
    <3> QED
      BY <1>2, <1>3, <1>4, <1>6, <3>1 DEF Live, Putting, WithDp, Creating, Linking, Unlinking
  <2>2. Stays(p)'
    BY <1>4 DEF Stays
  <2> QED
    BY <2>1, <2>2
<1>10. /\ \A i \in Inum : lock'[i] = p <=> Holds(p, i)'
       /\ \A i \in Inum, q \in Proc : q # p => (lock'[i] = q <=> lock[i] = q)
  <2>1. \A i \in Inum : lock[i] = p <=> Holds(p, i)
    BY <1>0 DEF Locks
  <2>2. \A i \in Inum : lock'[i] = p <=> Holds(p, i)'
    BY <1>0, <1>1, <1>2, <1>3, <1>4, <2>1, Consts DEF Holds, Apart, Putting, Types
  <2>3. \A i \in Inum, q \in Proc : q # p => (lock'[i] = q <=> lock[i] = q)
    BY <1>0, <1>2, <1>3, <2>1, Consts DEF Types, Holds, Putting
  <2> QED
    BY <2>2, <2>3
<1>11. \A i \in Inum : icache'[i].ref = icache[i].ref + Mine(p, i)' - Mine(p, i)
  <2> SUFFICES ASSUME NEW i \in Inum
               PROVE  icache'[i].ref = icache[i].ref + Mine(p, i)' - Mine(p, i)
    OBVIOUS
  <2>1. icache[i].ref \in Nat
    BY <1>0 DEF Types, Cache, CacheEntry
  <2>2. Is(NoInode, i) = 0 /\ \A x : Is(x, i) \in Nat
    BY Consts DEF Is
  <2>3. Mine(p, i)' = Is(ip'[p], i) + Is(dp'[p], i) + Is(put'[p], i) + Is(fd'[p], i)
    BY DEF Mine
  <2> QED
    BY <1>3, <1>4, <1>6, <2>1, <2>2, <2>3 DEF Mine
<1>12. /\ \A i \in Inum : lock'[i] # Nobody => lock[i] # Nobody \/ icache'[i].valid
       /\ \A i \in Inum : lock'[i] # Nobody /\ icache[i].valid /\ icache[i].ref > 0 => icache'[i].valid
  BY <1>0, <1>2, <1>3, <1>6, Consts DEF Types, Cached
<1>13. /\ \A q \in Proc, i \in Inum : q # p /\ Uses(q, i) /\ disk.type[i] # "free" => disk'.type[i] = disk.type[i]
       /\ \A q \in Proc, i \in Inum : q # p /\ lock[i] = q => disk'.dents[i] = disk.dents[i]
       /\ \A q \in Proc : q # p /\ pc[q] = "itrunc" => icache'[put[q]].ref = 1 /\ disk'.nlink[put[q]] = 0
  <2>1. ASSUME NEW q \in Proc, q # p, pc[q] = "itrunc"
        PROVE  icache'[put[q]].ref = 1 /\ disk'.nlink[put[q]] = 0
    <3>1. /\ put[q] \in Inum /\ put[q] # ROOTINO /\ ~Uses(p, put[q])
          /\ \A d \in Inum, n \in Name : disk.dents[d][n] # put[q]
          /\ icache[put[q]].ref = 1 /\ disk.nlink[put[q]] = 0
      BY <2>1, TruncatedAlone
    <3>2. ip[p] # put[q] /\ dp[p] # put[q]
      BY <3>1 DEF Uses
    <3> QED
      BY <1>6, <3>1, <3>2 DEF Is
  <2>2. ASSUME NEW q \in Proc, NEW i \in Inum, q # p, lock[i] = q
        PROVE  disk'.dents[i] = disk.dents[i]
    <3>1. i # dp[p]
      BY <1>2, <1>3, <2>2, Consts
    <3> QED
      BY <1>0, <1>3, <1>6, <3>1 DEF Types, Disk
  <2> QED
    BY <1>6, <2>1, <2>2
<1>14. Trees'
  <2>1. Owed(p)' = NoInode /\ Owed(p) = NoInode
    BY <1>3, <1>4 DEF Owed, Owing
  <2>2. Is(ip[p], dp[p]) = 0
    BY <1>3, Consts DEF Is, DirLink
  <2>3. disk.nlink[dp[p]] \in Nat /\ \A i \in Inum : disk.nlink[i] \in Nat
    BY <1>0, <1>3 DEF Types, Disk
  <2>4. PICK x, n, v, old : x \in Inum /\ n \in Name /\ v \in Inum \cup {NoInode} /\ x = dp[p] /\ n = Entry(p) /\ v = ip[p] /\ old = Existing(p)
    BY <1>3
  <2>5. old = disk.dents[x][n] /\ disk'.dents = [disk.dents EXCEPT ![x][n] = v]
    BY <1>6, <2>4 DEF Existing
  <2>6. v # NoInode => v # x /\ disk.type[x] = "dir" /\ disk.type[v] # "free"
    BY <1>3, <2>4
  <2>7. \A i \in Inum : i # x => disk'.nlink[i] >= disk.nlink[i] + Is(v, i) - Is(old, i) + Is(Owed(p)', i) - Is(Owed(p), i)
    BY <1>3, <1>6, <2>1, <2>3, <2>4, Consts DEF Is
  <2>8. disk'.nlink[x] >= disk.nlink[x] + DirLink(disk, v) - DirLink(disk, old) + Is(Owed(p)', x) - Is(Owed(p), x)
    BY <1>3, <1>6, <2>1, <2>2, <2>3, <2>4, Consts DEF Is, DirLink
  <2>9. disk \in Disk /\ disk' \in Disk /\ disk'.type = disk.type /\ saved' = saved /\ Trees /\ OthersSame(p)
    BY <1>0, <1>2, <1>5, <1>6 DEF Types
  <2>10. x \in Inum /\ n \in Name /\ v \in Inum \cup {NoInode}
    BY <2>4
  <2> QED
    BY <2>5, <2>6, <2>7, <2>8, <2>9, <2>10, TreesEntry
<1> QED
  BY <1>5, <1>6, <1>7, <1>8, <1>9, <1>10, <1>11, <1>12, <1>13, <1>14, StepKeeps

\* Directories get no second name.
LEMMA LinkOldEnds ==
  ASSUME IInv, NEW p \in Proc, LinkOld(p),
         Read(icache, ip[p])[ip[p]].type = "dir"
  PROVE  IInv'
<1>0. Types /\ Shape /\ Locks /\ RefsCounted /\ Cached /\ InUse /\ Trees
  BY DEF IInv
<1>1. Variables(p) /\ Calls(p) /\ Live(p) /\ Stays(p) /\ Apart(p)
  BY <1>0 DEF Shape, InUse, Locks
<1>2. /\ pc[p] = "link_old"
      /\ icache' = Read(icache, ip[p])
      /\ pc' = [pc EXCEPT ![p] = "iput"]
      /\ put' = [put EXCEPT ![p] = ip[p]]
      /\ then' = [then EXCEPT ![p] = "end"]
      /\ ip' = [ip EXCEPT ![p] = NoInode]
      /\ call' = [call EXCEPT ![p] = NoCall]
      /\ UNCHANGED <<disk, saved, lock, dp, fd>>
  BY DEF LinkOld, Ilock, At, Put, PutIp, PutDp, Goto, Over, Continue, NoPut, data, inodes
<1>3. /\ put[p] = NoInode
      /\ then[p] = "user"
      /\ ip[p] \in Inum
      /\ dp[p] = NoInode
      /\ Phase(p) = "link_old"
      /\ disk.type[ip[p]] # "free"
  <2>1. /\ put[p] = NoInode
        /\ then[p] = "user"
        /\ ip[p] \in Inum
        /\ dp[p] = NoInode
        /\ Phase(p) = "link_old"
    BY <1>0, <1>1, <1>2, Consts DEF Types, Phase, Variables, Calls, Putting, WithIp, WithDp, Linking, Unlinking, Creating, Idle
  <2>2. /\ disk.type[ip[p]] # "free"
    BY <1>0, <1>1, <1>2, <2>1, Consts DEF Live, Trees, Tree, Disk, Types, WithDp
  <2> QED
    BY <2>1, <2>2
<1>4. /\ pc'[p] = "iput"
      /\ then'[p] = "end"
      /\ ip'[p] = NoInode
      /\ dp'[p] = dp[p]
      /\ put'[p] = ip[p]
      /\ fd'[p] = fd[p]
      /\ call'[p] = NoCall
      /\ Phase(p)' = "end"
  <2>1. /\ pc'[p] = "iput"
        /\ then'[p] = "end"
        /\ ip'[p] = NoInode
        /\ dp'[p] = dp[p]
        /\ put'[p] = ip[p]
        /\ fd'[p] = fd[p]
        /\ call'[p] = NoCall
    BY <1>0, <1>2, <1>3 DEF Types
  <2> QED
    BY <2>1, <1>3 DEF Phase, Putting
<1>5. OthersSame(p)
  BY <1>0, <1>2 DEF Types, OthersSame, Same
<1>6. /\ icache' \in Cache /\ True(icache', disk')
      /\ \A j \in Inum : icache'[j].ref = icache[j].ref
      /\ \A j \in Inum : icache[j].valid /\ icache[j].ref > 0 => icache'[j].valid
      /\ icache'[ip[p]].valid
  BY <1>0, <1>2, <1>3, ReadTrue DEF Types, Cached
<1>7. Types'
  BY <1>0, <1>2, <1>3, <1>4, <1>6, Consts DEF Types, Phases, Idle, Creating, Linking, Unlinking, Putting
<1>8. Variables(p)' /\ Calls(p)' /\ Apart(p)'
  <2>1. Variables(p)'
    BY <1>1, <1>3, <1>4, Consts DEF Variables, Calls, Putting, WithIp, WithDp, Linking, Unlinking, Creating, Idle
  <2>2. Calls(p)'
    BY <1>1, <1>2, <1>3, <1>4, Consts DEF Variables, Calls, Putting, WithIp, WithDp, Linking, Unlinking, Creating, Idle, NoCall
  <2>3. Apart(p)'
    BY <1>1, <1>2, <1>3, <1>4, Consts DEF Apart, Putting
  <2> QED
    BY <2>1, <2>2, <2>3
<1>9. Live(p)' /\ Stays(p)'
  <2>1. Live(p)'
    BY <1>1, <1>2, <1>3, <1>4, Consts DEF Live, Putting, WithDp, Creating, Linking, Unlinking
  <2>2. Stays(p)'
    BY <1>4 DEF Stays
  <2> QED
    BY <2>1, <2>2
<1>10. /\ \A i \in Inum : lock'[i] = p <=> Holds(p, i)'
       /\ \A i \in Inum, q \in Proc : q # p => (lock'[i] = q <=> lock[i] = q)
  <2>1. \A i \in Inum : lock[i] = p <=> Holds(p, i)
    BY <1>0 DEF Locks
  <2>2. \A i \in Inum : lock'[i] = p <=> Holds(p, i)'
    BY <1>0, <1>1, <1>2, <1>3, <1>4, <2>1, Consts DEF Holds, Apart, Putting, Types
  <2>3. \A i \in Inum, q \in Proc : q # p => (lock'[i] = q <=> lock[i] = q)
    BY <1>0, <1>2, <1>3, <2>1, Consts DEF Types, Holds, Putting
  <2> QED
    BY <2>2, <2>3
<1>11. \A i \in Inum : icache'[i].ref = icache[i].ref + Mine(p, i)' - Mine(p, i)
  <2> SUFFICES ASSUME NEW i \in Inum
               PROVE  icache'[i].ref = icache[i].ref + Mine(p, i)' - Mine(p, i)
    OBVIOUS
  <2>1. icache[i].ref \in Nat
    BY <1>0 DEF Types, Cache, CacheEntry
  <2>2. Is(NoInode, i) = 0 /\ \A x : Is(x, i) \in Nat
    BY Consts DEF Is
  <2>3. Mine(p, i)' = Is(ip'[p], i) + Is(dp'[p], i) + Is(put'[p], i) + Is(fd'[p], i)
    BY DEF Mine
  <2> QED
    BY <1>3, <1>4, <1>6, <2>1, <2>2, <2>3 DEF Mine
<1>12. /\ \A i \in Inum : lock'[i] # Nobody => lock[i] # Nobody \/ icache'[i].valid
       /\ \A i \in Inum : lock'[i] # Nobody /\ icache[i].valid /\ icache[i].ref > 0 => icache'[i].valid
  BY <1>0, <1>2, <1>3, <1>6, Consts DEF Types, Cached
<1>13. /\ \A q \in Proc, i \in Inum : q # p /\ Uses(q, i) /\ disk.type[i] # "free" => disk'.type[i] = disk.type[i]
       /\ \A q \in Proc, i \in Inum : q # p /\ lock[i] = q => disk'.dents[i] = disk.dents[i]
       /\ \A q \in Proc : q # p /\ pc[q] = "itrunc" => icache'[put[q]].ref = 1 /\ disk'.nlink[put[q]] = 0
  BY <1>2, <1>6, TruncatedAlone
<1>14. Trees'
  <2>1. Owed(p)' = Owed(p) \/ Owed(p)' = NoInode
    BY <1>1, <1>3, <1>4 DEF Owed, Putting, Owing
  <2> QED
    BY <1>0, <1>2, <1>5, <2>1, OthersOwe, TreesSame DEF Types
<1> QED
  BY <1>5, <1>6, <1>7, <1>8, <1>9, <1>10, <1>11, <1>12, <1>13, <1>14, StepKeeps

\* The link that is going to be made is counted.
LEMMA LinkOldCounts ==
  ASSUME IInv, NEW p \in Proc, LinkOld(p),
         Read(icache, ip[p])[ip[p]].type # "dir"
  PROVE  IInv'
<1>0. Types /\ Shape /\ Locks /\ RefsCounted /\ Cached /\ InUse /\ Trees
  BY DEF IInv
<1>1. Variables(p) /\ Calls(p) /\ Live(p) /\ Stays(p) /\ Apart(p)
  BY <1>0 DEF Shape, InUse, Locks
<1>2. /\ pc[p] = "link_old"
      /\ pc' = [pc EXCEPT ![p] = "namex"]
      /\ dp' = [dp EXCEPT ![p] = ROOTINO]
      /\ call' = [call EXCEPT ![p] = Anew(call[p])]
      /\ UNCHANGED <<saved, lock, ip, put, then, fd>>
  <2>1. /\ Ilock(p, "link_old") /\ dp' = [dp EXCEPT ![p] = ROOTINO] /\ call' = [call EXCEPT ![p].rest = call[p].new]
        /\ Goto(p, "namex") /\ NoPut /\ UNCHANGED ip /\ UNCHANGED <<saved, lock, fd>>
    BY Zenon DEF LinkOld
  <2> QED
    BY <2>1 DEF Anew, Ilock, At, Put, PutIp, PutDp, Goto, Over, Continue, NoPut, data, inodes
<1>3. /\ put[p] = NoInode
      /\ then[p] = "user"
      /\ ip[p] \in Inum
      /\ dp[p] = NoInode
      /\ call[p] # NoCall /\ call[p] \in Call /\ call[p].name = "link"
      /\ Phase(p) = "link_old"
      /\ disk.type[ip[p]] = "file"
      /\ Anew(call[p]) \in Call /\ Anew(call[p]) # NoCall /\ Anew(call[p]).name = "link" /\ Anew(call[p]).rest # <<>>
      /\ disk.type[ROOTINO] = "dir"
  <2>1. /\ put[p] = NoInode
        /\ then[p] = "user"
        /\ ip[p] \in Inum
        /\ dp[p] = NoInode
        /\ call[p] # NoCall /\ call[p] \in Call /\ call[p].name = "link"
        /\ Phase(p) = "link_old"
    BY <1>0, <1>1, <1>2, Consts DEF Types, Phase, Variables, Calls, Putting, WithIp, WithDp, Linking, Unlinking, Creating, Idle
  <2>3. disk.type[ip[p]] = "file"
    <3>1. disk.type[ip[p]] # "free"
      BY <1>1, <2>1, Consts DEF Live
    <3>2. Read(icache, ip[p])[ip[p]].type = disk.type[ip[p]]
      BY <2>1, <3>1, ReadHere DEF Uses
    <3> QED
      BY <1>0, <2>1, <3>1, <3>2 DEF Types, Disk, FileType
  <2>4. Anew(call[p]) \in Call /\ Anew(call[p]) # NoCall /\ Anew(call[p]).name = "link" /\ Anew(call[p]).rest # <<>>
    BY <2>1, AnewIs
  <2>5. disk.type[ROOTINO] = "dir"
    BY <1>0 DEF Trees, Tree
  <2> QED
    BY <2>1, <2>3, <2>4, <2>5
<1>4. /\ pc'[p] = "namex"
      /\ then'[p] = then[p]
      /\ ip'[p] = ip[p]
      /\ dp'[p] = ROOTINO
      /\ put'[p] = put[p]
      /\ fd'[p] = fd[p]
      /\ call'[p] = Anew(call[p])
      /\ Phase(p)' = "namex"
  <2>1. /\ pc'[p] = "namex"
        /\ then'[p] = then[p]
        /\ ip'[p] = ip[p]
        /\ dp'[p] = ROOTINO
        /\ put'[p] = put[p]
        /\ fd'[p] = fd[p]
        /\ call'[p] = Anew(call[p])
    BY <1>0, <1>2, <1>3 DEF Types
  <2> QED
    BY <2>1, <1>3 DEF Phase, Putting
<1>5. OthersSame(p)
  BY <1>0, <1>2 DEF Types, OthersSame, Same
<1>6. /\ icache' \in Cache /\ True(icache', disk')
      /\ \A j \in Inum : icache'[j].ref = icache[j].ref + Is(ROOTINO, j)
      /\ \A j \in Inum : icache[j].valid /\ icache[j].ref > 0 => icache'[j].valid
      /\ disk' \in Disk /\ disk'.type = disk.type /\ disk'.dents = disk.dents
      /\ \A j \in Inum : disk'.nlink[j] = disk.nlink[j] + Is(ip[p], j)
      /\ icache'[ip[p]].valid
  <2> DEFINE r == Read(icache, ip[p])
             a == AddLinks(r, ip[p], 1)
  <2>1. icache' = Iget(a, ROOTINO) /\ disk' = Iupdate(disk, a, ip[p])
    BY Zenon DEF LinkOld
  <2>2. /\ r \in Cache /\ True(r, disk) /\ r[ip[p]].valid /\ r[ip[p]].ref > 0
        /\ \A j \in Inum : r[j].ref = icache[j].ref /\ (icache[j].valid => r[j].valid)
    BY <1>3, ReadHere DEF Uses
  <2> HIDE DEF r
  <2>3. disk \in Disk /\ disk.nlink[ip[p]] + 1 >= 0
    BY <1>0, <1>3 DEF Types, Disk
  <2>4. LinksMoved(r, disk, ip[p], 1, a, disk')
    BY <1>3, <2>1, <2>2, <2>3, LinksMove
  <2> HIDE DEF a
  <2>5. /\ a \in Cache /\ True(a, disk')
        /\ \A j \in Inum : a[j].ref = r[j].ref /\ (a[j].valid <=> r[j].valid)
    BY <2>4 DEF LinksMoved
  <2>6. /\ Iget(a, ROOTINO) \in Cache /\ True(Iget(a, ROOTINO), disk')
        /\ \A j \in Inum : /\ Iget(a, ROOTINO)[j].ref = a[j].ref + Is(ROOTINO, j)
                           /\ a[j].valid /\ a[j].ref > 0 => Iget(a, ROOTINO)[j].valid
    BY <2>5, Consts, IgetTrue
  <2>7. disk' \in Disk /\ disk'.type = disk.type /\ disk'.dents = disk.dents
        /\ disk'.nlink = [disk.nlink EXCEPT ![ip[p]] = @ + 1]
    BY <2>4 DEF LinksMoved
  <2>8. \A j \in Inum : disk'.nlink[j] = disk.nlink[j] + Is(ip[p], j)
    BY <1>3, <2>3, <2>7 DEF Disk, Is
  <2> QED
    BY <1>3, <2>1, <2>2, <2>5, <2>6, <2>7, <2>8
<1>7. Types'
  BY <1>0, <1>2, <1>3, <1>4, <1>6, Consts DEF Types, Phases, Idle, Creating, Linking, Unlinking, Putting
<1>8. Variables(p)' /\ Calls(p)' /\ Apart(p)'
  <2>1. Variables(p)'
    BY <1>1, <1>3, <1>4, Consts DEF Variables, Calls, Putting, WithIp, WithDp, Linking, Unlinking, Creating, Idle
  <2>2. Calls(p)'
    BY <1>1, <1>2, <1>3, <1>4, Consts DEF Variables, Calls, Putting, WithIp, WithDp, Linking, Unlinking, Creating, Idle, NoCall
  <2>3. Apart(p)'
    BY <1>1, <1>2, <1>3, <1>4, Consts DEF Apart, Putting
  <2> QED
    BY <2>1, <2>2, <2>3
<1>9. Live(p)' /\ Stays(p)'
  <2>1. Live(p)'
    <3>1. fd[p] # NoInode => disk.type[fd[p]] # "free"
      BY <1>1 DEF Live
    <3> QED
      BY <1>2, <1>3, <1>4, <1>6, <3>1 DEF Live, Putting, WithDp, Creating, Linking, Unlinking
  <2>2. Stays(p)'
    BY <1>4 DEF Stays
  <2> QED
    BY <2>1, <2>2
<1>10. /\ \A i \in Inum : lock'[i] = p <=> Holds(p, i)'
       /\ \A i \in Inum, q \in Proc : q # p => (lock'[i] = q <=> lock[i] = q)
  <2>1. \A i \in Inum : lock[i] = p <=> Holds(p, i)
    BY <1>0 DEF Locks
  <2>2. \A i \in Inum : lock'[i] = p <=> Holds(p, i)'
    BY <1>0, <1>1, <1>2, <1>3, <1>4, <2>1, Consts DEF Holds, Apart, Putting, Types
  <2>3. \A i \in Inum, q \in Proc : q # p => (lock'[i] = q <=> lock[i] = q)
    BY <1>0, <1>2, <1>3, <2>1, Consts DEF Types, Holds, Putting
  <2> QED
    BY <2>2, <2>3
<1>11. \A i \in Inum : icache'[i].ref = icache[i].ref + Mine(p, i)' - Mine(p, i)
  <2> SUFFICES ASSUME NEW i \in Inum
               PROVE  icache'[i].ref = icache[i].ref + Mine(p, i)' - Mine(p, i)
    OBVIOUS
  <2>1. icache[i].ref \in Nat
    BY <1>0 DEF Types, Cache, CacheEntry
  <2>2. Is(NoInode, i) = 0 /\ \A x : Is(x, i) \in Nat
    BY Consts DEF Is
  <2>3. Mine(p, i)' = Is(ip'[p], i) + Is(dp'[p], i) + Is(put'[p], i) + Is(fd'[p], i)
    BY DEF Mine
  <2> QED
    BY <1>3, <1>4, <1>6, <2>1, <2>2, <2>3 DEF Mine
<1>12. /\ \A i \in Inum : lock'[i] # Nobody => lock[i] # Nobody \/ icache'[i].valid
       /\ \A i \in Inum : lock'[i] # Nobody /\ icache[i].valid /\ icache[i].ref > 0 => icache'[i].valid
  BY <1>0, <1>2, <1>3, <1>6, Consts DEF Types, Cached
<1>13. /\ \A q \in Proc, i \in Inum : q # p /\ Uses(q, i) /\ disk.type[i] # "free" => disk'.type[i] = disk.type[i]
       /\ \A q \in Proc, i \in Inum : q # p /\ lock[i] = q => disk'.dents[i] = disk.dents[i]
       /\ \A q \in Proc : q # p /\ pc[q] = "itrunc" => icache'[put[q]].ref = 1 /\ disk'.nlink[put[q]] = 0
  <2>1. ASSUME NEW q \in Proc, q # p, pc[q] = "itrunc"
        PROVE  icache'[put[q]].ref = 1 /\ disk'.nlink[put[q]] = 0
    <3>1. /\ put[q] \in Inum /\ put[q] # ROOTINO /\ ~Uses(p, put[q])
          /\ \A d \in Inum, n \in Name : disk.dents[d][n] # put[q]
          /\ icache[put[q]].ref = 1 /\ disk.nlink[put[q]] = 0
      BY <2>1, TruncatedAlone
    <3>2. ip[p] # put[q] /\ ROOTINO # put[q]
      BY <3>1 DEF Uses
    <3> QED
      BY <1>6, <3>1, <3>2 DEF Is
  <2> QED
    BY <1>6, <2>1
<1>14. Trees'
  <2>1. Owed(p)' = ip[p] /\ Owed(p) = NoInode
    BY <1>3, <1>4, Consts DEF Owed, Owing
  <2>2. disk \in Disk /\ saved' = saved /\ Trees
    BY <1>0, <1>2 DEF Types
  <2>3. \A i \in Inum : disk.nlink[i] \in Nat
    BY <2>2 DEF Disk
  <2>4. \A i \in Inum : disk'.nlink[i] >= disk.nlink[i] + Is(Owed(p)', i) - Is(Owed(p), i)
    <3> SUFFICES ASSUME NEW i \in Inum
                 PROVE  disk'.nlink[i] >= disk.nlink[i] + Is(Owed(p)', i) - Is(Owed(p), i)
      OBVIOUS
    <3>1. Is(NoInode, i) = 0 /\ Is(ip[p], i) \in Nat
      BY Consts DEF Is
    <3> QED
      BY <1>6, <2>1, <2>3, <3>1
  <2> QED
    BY <1>5, <1>6, <2>2, <2>4, TreesLinks
<1> QED
  BY <1>5, <1>6, <1>7, <1>8, <1>9, <1>10, <1>11, <1>12, <1>13, <1>14, StepKeeps

\* The link is made ...
LEMMA LinkNewMakes ==
  ASSUME IInv, NEW p \in Proc, LinkNew(p),
         Existing(p) = NoInode
  PROVE  IInv'
<1>0. Types /\ Shape /\ Locks /\ RefsCounted /\ Cached /\ InUse /\ Trees
  BY DEF IInv
<1>1. Variables(p) /\ Calls(p) /\ Live(p) /\ Stays(p) /\ Apart(p)
  BY <1>0 DEF Shape, InUse, Locks
<1>2. /\ pc[p] = "link_new" /\ lock[dp[p]] = Nobody
      /\ pc' = [pc EXCEPT ![p] = "iput"]
      /\ put' = [put EXCEPT ![p] = dp[p]]
      /\ then' = [then EXCEPT ![p] = "linked"]
      /\ dp' = [dp EXCEPT ![p] = NoInode]
      /\ UNCHANGED <<saved, lock, call, ip, fd>>
  <2>1. Ilock(p, "link_new") /\ PutDp(p, "linked") /\ UNCHANGED lock /\ UNCHANGED <<saved, fd>>
    BY Zenon DEF LinkNew
  <2> QED
    BY <2>1 DEF Ilock, At, Wanted, Free, Put, PutIp, PutDp, Goto, Over, Continue, NoPut, data, inodes
<1>3. /\ put[p] = NoInode
      /\ then[p] = "user"
      /\ dp[p] \in Inum
      /\ ip[p] \in Inum
      /\ call[p].name = "link"
      /\ Phase(p) = "link_new"
      /\ disk.type[dp[p]] = "dir"
      /\ disk.type[ip[p]] = "file"
      /\ ip[p] # dp[p]
      /\ Entry(p) \in Name /\ Existing(p) = NoInode
  <2>1. /\ put[p] = NoInode
        /\ then[p] = "user"
        /\ dp[p] \in Inum
        /\ ip[p] \in Inum
        /\ call[p].name = "link"
        /\ Phase(p) = "link_new"
    BY <1>0, <1>1, <1>2, Consts DEF Types, Phase, Variables, Calls, Putting, WithIp, WithDp, Linking, Unlinking, Creating, Idle
  <2>2. /\ disk.type[dp[p]] = "dir"
        /\ disk.type[ip[p]] = "file"
        /\ ip[p] # dp[p]
    BY <1>0, <1>1, <1>2, <2>1, Consts DEF Live, WithDp, Linking
  <2>3. Entry(p) \in Name /\ Existing(p) = NoInode
    BY <1>0, <1>1, <1>2, <2>1, EntryIs DEF Stays, WithDp
  <2> QED
    BY <2>1, <2>2, <2>3
<1>4. /\ pc'[p] = "iput"
      /\ then'[p] = "linked"
      /\ ip'[p] = ip[p]
      /\ dp'[p] = NoInode
      /\ put'[p] = dp[p]
      /\ fd'[p] = fd[p]
      /\ call'[p] = call[p]
      /\ Phase(p)' = "linked"
  <2>1. /\ pc'[p] = "iput"
        /\ then'[p] = "linked"
        /\ ip'[p] = ip[p]
        /\ dp'[p] = NoInode
        /\ put'[p] = dp[p]
        /\ fd'[p] = fd[p]
        /\ call'[p] = call[p]
    BY <1>0, <1>2, <1>3 DEF Types
  <2> QED
    BY <2>1, <1>3 DEF Phase, Putting
<1>5. OthersSame(p)
  BY <1>0, <1>2 DEF Types, OthersSame, Same
<1>6. /\ icache' \in Cache /\ True(icache', disk')
      /\ \A j \in Inum : icache'[j].ref = icache[j].ref
      /\ \A j \in Inum : icache[j].valid /\ icache[j].ref > 0 => icache'[j].valid
      /\ disk' \in Disk /\ disk'.type = disk.type /\ disk'.nlink = disk.nlink
      /\ disk'.dents = [disk.dents EXCEPT ![dp[p]][Entry(p)] = ip[p]]
      /\ icache'[dp[p]].valid
  <2>1. icache' = Read(icache, dp[p]) /\ disk' = [disk EXCEPT !.dents[dp[p]][Entry(p)] = ip[p]]
    BY Zenon DEF LinkNew
  <2>2. disk \in Disk
    BY <1>0 DEF Types
  <2>3. /\ disk' \in Disk /\ disk'.type = disk.type /\ disk'.nlink = disk.nlink
        /\ disk'.dents = [disk.dents EXCEPT ![dp[p]][Entry(p)] = ip[p]]
    BY <1>3, <2>1, <2>2, EntryWritten
  <2> DEFINE r == Read(icache, dp[p])
  <2>4. /\ r \in Cache /\ True(r, disk) /\ r[dp[p]].valid
        /\ \A j \in Inum : r[j].ref = icache[j].ref /\ (icache[j].valid => r[j].valid)
    BY <1>3, ReadHere DEF Uses
  <2> HIDE DEF r
  <2>5. True(r, disk')
    BY <2>3, <2>4 DEF True
  <2>6. icache' = r
    BY <2>1 DEF r
  <2> QED
    BY <2>3, <2>4, <2>5, <2>6
<1>7. Types'
  BY <1>0, <1>2, <1>3, <1>4, <1>6, Consts DEF Types, Phases, Idle, Creating, Linking, Unlinking, Putting
<1>8. Variables(p)' /\ Calls(p)' /\ Apart(p)'
  <2>1. Variables(p)'
    BY <1>1, <1>3, <1>4, Consts DEF Variables, Calls, Putting, WithIp, WithDp, Linking, Unlinking, Creating, Idle
  <2>2. Calls(p)'
    BY <1>1, <1>2, <1>3, <1>4, Consts DEF Variables, Calls, Putting, WithIp, WithDp, Linking, Unlinking, Creating, Idle, NoCall
  <2>3. Apart(p)'
    BY <1>1, <1>2, <1>3, <1>4, Consts DEF Apart, Putting
  <2> QED
    BY <2>1, <2>2, <2>3
<1>9. Live(p)' /\ Stays(p)'
  <2>1. Live(p)'
    <3>1. fd[p] # NoInode => disk.type[fd[p]] # "free"
      BY <1>1 DEF Live
    <3> QED
      BY <1>2, <1>3, <1>4, <1>6, <3>1 DEF Live, Putting, WithDp, Creating, Linking, Unlinking
  <2>2. Stays(p)'
    BY <1>4 DEF Stays
  <2> QED
    BY <2>1, <2>2
<1>10. /\ \A i \in Inum : lock'[i] = p <=> Holds(p, i)'
       /\ \A i \in Inum, q \in Proc : q # p => (lock'[i] = q <=> lock[i] = q)
  <2>1. \A i \in Inum : lock[i] = p <=> Holds(p, i)
    BY <1>0 DEF Locks
  <2>2. \A i \in Inum : lock'[i] = p <=> Holds(p, i)'
    BY <1>0, <1>1, <1>2, <1>3, <1>4, <2>1, Consts DEF Holds, Apart, Putting, Types
  <2>3. \A i \in Inum, q \in Proc : q # p => (lock'[i] = q <=> lock[i] = q)
    BY <1>0, <1>2, <1>3, <2>1, Consts DEF Types, Holds, Putting
  <2> QED
    BY <2>2, <2>3
<1>11. \A i \in Inum : icache'[i].ref = icache[i].ref + Mine(p, i)' - Mine(p, i)
  <2> SUFFICES ASSUME NEW i \in Inum
               PROVE  icache'[i].ref = icache[i].ref + Mine(p, i)' - Mine(p, i)
    OBVIOUS
  <2>1. icache[i].ref \in Nat
    BY <1>0 DEF Types, Cache, CacheEntry
  <2>2. Is(NoInode, i) = 0 /\ \A x : Is(x, i) \in Nat
    BY Consts DEF Is
  <2>3. Mine(p, i)' = Is(ip'[p], i) + Is(dp'[p], i) + Is(put'[p], i) + Is(fd'[p], i)
    BY DEF Mine
  <2> QED
    BY <1>3, <1>4, <1>6, <2>1, <2>2, <2>3 DEF Mine
<1>12. /\ \A i \in Inum : lock'[i] # Nobody => lock[i] # Nobody \/ icache'[i].valid
       /\ \A i \in Inum : lock'[i] # Nobody /\ icache[i].valid /\ icache[i].ref > 0 => icache'[i].valid
  BY <1>0, <1>2, <1>3, <1>6, Consts DEF Types, Cached
<1>13. /\ \A q \in Proc, i \in Inum : q # p /\ Uses(q, i) /\ disk.type[i] # "free" => disk'.type[i] = disk.type[i]
       /\ \A q \in Proc, i \in Inum : q # p /\ lock[i] = q => disk'.dents[i] = disk.dents[i]
       /\ \A q \in Proc : q # p /\ pc[q] = "itrunc" => icache'[put[q]].ref = 1 /\ disk'.nlink[put[q]] = 0
  <2>1. ASSUME NEW q \in Proc, q # p, pc[q] = "itrunc"
        PROVE  icache'[put[q]].ref = 1 /\ disk'.nlink[put[q]] = 0
    <3>1. /\ put[q] \in Inum /\ put[q] # ROOTINO /\ ~Uses(p, put[q])
          /\ \A d \in Inum, n \in Name : disk.dents[d][n] # put[q]
          /\ icache[put[q]].ref = 1 /\ disk.nlink[put[q]] = 0
      BY <2>1, TruncatedAlone
    <3>2. ip[p] # put[q] /\ dp[p] # put[q]
      BY <3>1 DEF Uses
    <3> QED
      BY <1>6, <3>1, <3>2 DEF Is
  <2>2. ASSUME NEW q \in Proc, NEW i \in Inum, q # p, lock[i] = q
        PROVE  disk'.dents[i] = disk.dents[i]
    <3>1. i # dp[p]
      BY <1>2, <1>3, <2>2, Consts
    <3> QED
      BY <1>0, <1>3, <1>6, <3>1 DEF Types, Disk
  <2> QED
    BY <1>6, <2>1, <2>2
<1>14. Trees'
  <2>1. Owed(p)' = NoInode /\ Owed(p) = ip[p]
    BY <1>3, <1>4 DEF Owed, Owing
  <2>2. Is(ip[p], dp[p]) = 0
    BY <1>3, Consts DEF Is, DirLink
  <2>3. disk.nlink[dp[p]] \in Nat /\ \A i \in Inum : disk.nlink[i] \in Nat
    BY <1>0, <1>3 DEF Types, Disk
  <2>4. PICK x, n, v, old : x \in Inum /\ n \in Name /\ v \in Inum \cup {NoInode} /\ x = dp[p] /\ n = Entry(p) /\ v = ip[p] /\ old = Existing(p)
    BY <1>3
  <2>5. old = disk.dents[x][n] /\ disk'.dents = [disk.dents EXCEPT ![x][n] = v]
    BY <1>6, <2>4 DEF Existing
  <2>6. v # NoInode => v # x /\ disk.type[x] = "dir" /\ disk.type[v] # "free"
    BY <1>3, <2>4
  <2>7. \A i \in Inum : i # x => disk'.nlink[i] >= disk.nlink[i] + Is(v, i) - Is(old, i) + Is(Owed(p)', i) - Is(Owed(p), i)
    BY <1>3, <1>6, <2>1, <2>3, <2>4, Consts DEF Is
  <2>8. disk'.nlink[x] >= disk.nlink[x] + DirLink(disk, v) - DirLink(disk, old) + Is(Owed(p)', x) - Is(Owed(p), x)
    BY <1>3, <1>6, <2>1, <2>2, <2>3, <2>4, Consts DEF Is, DirLink
  <2>9. disk \in Disk /\ disk' \in Disk /\ disk'.type = disk.type /\ saved' = saved /\ Trees /\ OthersSame(p)
    BY <1>0, <1>2, <1>5, <1>6 DEF Types
  <2>10. x \in Inum /\ n \in Name /\ v \in Inum \cup {NoInode}
    BY <2>4
  <2> QED
    BY <2>5, <2>6, <2>7, <2>8, <2>9, <2>10, TreesEntry
<1> QED
  BY <1>5, <1>6, <1>7, <1>8, <1>9, <1>10, <1>11, <1>12, <1>13, <1>14, StepKeeps

\* ... or the name is taken, and what it stands for is dropped.
LEMMA LinkNewExists ==
  ASSUME IInv, NEW p \in Proc, LinkNew(p),
         NEW found \in Inum, found = Existing(p)
  PROVE  IInv'
<1>0. Types /\ Shape /\ Locks /\ RefsCounted /\ Cached /\ InUse /\ Trees
  BY DEF IInv
<1>1. Variables(p) /\ Calls(p) /\ Live(p) /\ Stays(p) /\ Apart(p)
  BY <1>0 DEF Shape, InUse, Locks
<1>2. /\ pc[p] = "link_new" /\ lock[dp[p]] = Nobody
      /\ icache' = Iget(Read(icache, dp[p]), found)
      /\ pc' = [pc EXCEPT ![p] = "iput"]
      /\ put' = [put EXCEPT ![p] = found]
      /\ then' = [then EXCEPT ![p] = "link_exists"]
      /\ lock' = [lock EXCEPT ![dp[p]] = p]
      /\ UNCHANGED <<disk, saved, call, ip, dp, fd>>
  BY Consts DEF LinkNew, Ilock, At, Wanted, Free, Take, Put, PutIp, PutDp, Goto, Over, Continue, NoPut, data, inodes
<1>3. /\ put[p] = NoInode
      /\ then[p] = "user"
      /\ dp[p] \in Inum
      /\ ip[p] \in Inum
      /\ call[p].name = "link"
      /\ Phase(p) = "link_new"
      /\ disk.type[dp[p]] = "dir"
      /\ disk.type[ip[p]] = "file"
      /\ disk.type[found] # "free" /\ found # dp[p]
      /\ \E d \in Inum, n \in Name : disk.dents[d][n] = found
  <2>1. /\ put[p] = NoInode
        /\ then[p] = "user"
        /\ dp[p] \in Inum
        /\ ip[p] \in Inum
        /\ call[p].name = "link"
        /\ Phase(p) = "link_new"
    BY <1>0, <1>1, <1>2, Consts DEF Types, Phase, Variables, Calls, Putting, WithIp, WithDp, Linking, Unlinking, Creating, Idle
  <2>2. /\ disk.type[dp[p]] = "dir"
        /\ disk.type[ip[p]] = "file"
        /\ disk.type[found] # "free" /\ found # dp[p]
        /\ \E d \in Inum, n \in Name : disk.dents[d][n] = found
    BY <1>0, <1>1, <1>2, <2>1, Consts, EntryIs DEF Live, Uses, Creating, Linking, Unlinking, WithDp
  <2> QED
    BY <2>1, <2>2
<1>4. /\ pc'[p] = "iput"
      /\ then'[p] = "link_exists"
      /\ ip'[p] = ip[p]
      /\ dp'[p] = dp[p]
      /\ put'[p] = found
      /\ fd'[p] = fd[p]
      /\ call'[p] = call[p]
      /\ Phase(p)' = "link_exists"
  <2>1. /\ pc'[p] = "iput"
        /\ then'[p] = "link_exists"
        /\ ip'[p] = ip[p]
        /\ dp'[p] = dp[p]
        /\ put'[p] = found
        /\ fd'[p] = fd[p]
        /\ call'[p] = call[p]
    BY <1>0, <1>2, <1>3 DEF Types
  <2> QED
    BY <2>1, <1>3 DEF Phase, Putting
<1>5. OthersSame(p)
  BY <1>0, <1>2 DEF Types, OthersSame, Same
<1>6. /\ icache' \in Cache /\ True(icache', disk')
      /\ \A j \in Inum : icache'[j].ref = icache[j].ref + Is(found, j)
      /\ \A j \in Inum : icache[j].valid /\ icache[j].ref > 0 => icache'[j].valid
      /\ icache'[dp[p]].valid
  <2>1. \A j \in Inum : icache[j].ref \in Nat
    BY <1>0 DEF Types, Cache, CacheEntry
  <2> DEFINE c == Read(icache, dp[p])
  <2>2. /\ c \in Cache /\ True(c, disk) /\ c[dp[p]].valid
        /\ \A j \in Inum : c[j].ref = icache[j].ref /\ (icache[j].valid => c[j].valid)
    BY <1>0, <1>3, ReadTrue DEF Types, Cached
  <2> HIDE DEF c
  <2>3. /\ Iget(c, found) \in Cache /\ True(Iget(c, found), disk)
        /\ \A j \in Inum : /\ Iget(c, found)[j].ref = c[j].ref + Is(found, j)
                           /\ c[j].valid /\ c[j].ref > 0 => Iget(c, found)[j].valid
    BY <1>3, <2>2, Consts, IgetTrue
  <2>4. icache[dp[p]].ref > 0
    BY <1>0, <1>3, <2>1, UsedHasRef DEF Uses
  <2> QED
    BY <1>2, <1>3, <2>1, <2>2, <2>3, <2>4 DEF c
<1>7. Types'
  BY <1>0, <1>2, <1>3, <1>4, <1>6, Consts DEF Types, Phases, Idle, Creating, Linking, Unlinking, Putting
<1>8. Variables(p)' /\ Calls(p)' /\ Apart(p)'
  <2>1. Variables(p)'
    BY <1>1, <1>3, <1>4, Consts DEF Variables, Calls, Putting, WithIp, WithDp, Linking, Unlinking, Creating, Idle
  <2>2. Calls(p)'
    BY <1>1, <1>2, <1>3, <1>4, Consts DEF Variables, Calls, Putting, WithIp, WithDp, Linking, Unlinking, Creating, Idle, NoCall
  <2>3. Apart(p)'
    BY <1>1, <1>2, <1>3, <1>4, Consts DEF Apart, Putting
  <2> QED
    BY <2>1, <2>2, <2>3
<1>9. Live(p)' /\ Stays(p)'
  <2>1. Live(p)'
    BY <1>1, <1>2, <1>3, <1>4, Consts DEF Live, Putting, WithDp, Creating, Linking, Unlinking
  <2>2. Stays(p)'
    BY <1>4 DEF Stays
  <2> QED
    BY <2>1, <2>2
<1>10. /\ \A i \in Inum : lock'[i] = p <=> Holds(p, i)'
       /\ \A i \in Inum, q \in Proc : q # p => (lock'[i] = q <=> lock[i] = q)
  <2>1. \A i \in Inum : lock[i] = p <=> Holds(p, i)
    BY <1>0 DEF Locks
  <2>2. \A i \in Inum : lock'[i] = p <=> Holds(p, i)'
    BY <1>0, <1>1, <1>2, <1>3, <1>4, <2>1, Consts DEF Holds, Apart, Putting, Types
  <2>3. \A i \in Inum, q \in Proc : q # p => (lock'[i] = q <=> lock[i] = q)
    BY <1>0, <1>2, <1>3, <2>1, Consts DEF Types, Holds, Putting
  <2> QED
    BY <2>2, <2>3
<1>11. \A i \in Inum : icache'[i].ref = icache[i].ref + Mine(p, i)' - Mine(p, i)
  <2> SUFFICES ASSUME NEW i \in Inum
               PROVE  icache'[i].ref = icache[i].ref + Mine(p, i)' - Mine(p, i)
    OBVIOUS
  <2>1. icache[i].ref \in Nat
    BY <1>0 DEF Types, Cache, CacheEntry
  <2>2. Is(NoInode, i) = 0 /\ \A x : Is(x, i) \in Nat
    BY Consts DEF Is
  <2>3. Mine(p, i)' = Is(ip'[p], i) + Is(dp'[p], i) + Is(put'[p], i) + Is(fd'[p], i)
    BY DEF Mine
  <2> QED
    BY <1>3, <1>4, <1>6, <2>1, <2>2, <2>3 DEF Mine
<1>12. /\ \A i \in Inum : lock'[i] # Nobody => lock[i] # Nobody \/ icache'[i].valid
       /\ \A i \in Inum : lock'[i] # Nobody /\ icache[i].valid /\ icache[i].ref > 0 => icache'[i].valid
  BY <1>0, <1>2, <1>3, <1>6, Consts DEF Types, Cached
<1>13. /\ \A q \in Proc, i \in Inum : q # p /\ Uses(q, i) /\ disk.type[i] # "free" => disk'.type[i] = disk.type[i]
       /\ \A q \in Proc, i \in Inum : q # p /\ lock[i] = q => disk'.dents[i] = disk.dents[i]
       /\ \A q \in Proc : q # p /\ pc[q] = "itrunc" => icache'[put[q]].ref = 1 /\ disk'.nlink[put[q]] = 0
  <2>1. ASSUME NEW q \in Proc, q # p, pc[q] = "itrunc"
        PROVE  icache'[put[q]].ref = 1 /\ disk'.nlink[put[q]] = 0
    <3>1. /\ put[q] \in Inum /\ put[q] # ROOTINO /\ ~Uses(p, put[q])
          /\ \A d \in Inum, n \in Name : disk.dents[d][n] # put[q]
          /\ icache[put[q]].ref = 1 /\ disk.nlink[put[q]] = 0
      BY <2>1, TruncatedAlone
    <3>2. found # put[q]
      BY <1>3, <3>1
    <3> QED
      BY <1>2, <1>6, <3>1, <3>2 DEF Is
  <2> QED
    BY <1>2, <2>1
<1>14. Trees'
  <2>1. Owed(p)' = Owed(p) \/ Owed(p)' = NoInode
    BY <1>1, <1>3, <1>4 DEF Owed, Putting, Owing
  <2> QED
    BY <1>0, <1>2, <1>5, <2>1, OthersOwe, TreesSame DEF Types
<1> QED
  BY <1>5, <1>6, <1>7, <1>8, <1>9, <1>10, <1>11, <1>12, <1>13, <1>14, StepKeeps

\* The directory goes ...
LEMMA LinkExistsKeeps ==
  ASSUME IInv, NEW p \in Proc, LinkExists(p)
  PROVE  IInv'
<1>0. Types /\ Shape /\ Locks /\ RefsCounted /\ Cached /\ InUse /\ Trees
  BY DEF IInv
<1>1. Variables(p) /\ Calls(p) /\ Live(p) /\ Stays(p) /\ Apart(p)
  BY <1>0 DEF Shape, InUse, Locks
<1>2. /\ pc[p] = "link_exists"
      /\ lock' = [lock EXCEPT ![dp[p]] = Nobody]
      /\ pc' = [pc EXCEPT ![p] = "iput"]
      /\ put' = [put EXCEPT ![p] = dp[p]]
      /\ then' = [then EXCEPT ![p] = "link_bad"]
      /\ dp' = [dp EXCEPT ![p] = NoInode]
      /\ UNCHANGED <<disk, saved, icache, call, ip, fd>>
  BY DEF LinkExists, At, Release, Put, PutIp, PutDp, Goto, Over, Continue, NoPut, data, inodes
<1>3. /\ put[p] = NoInode
      /\ then[p] = "user"
      /\ dp[p] \in Inum
      /\ ip[p] \in Inum
      /\ call[p].name = "link"
      /\ Phase(p) = "link_exists"
      /\ disk.type[dp[p]] = "dir"
      /\ disk.type[ip[p]] = "file"
      /\ lock[dp[p]] = p
  <2>1. /\ put[p] = NoInode
        /\ then[p] = "user"
        /\ dp[p] \in Inum
        /\ ip[p] \in Inum
        /\ call[p].name = "link"
        /\ Phase(p) = "link_exists"
    BY <1>0, <1>1, <1>2, Consts DEF Types, Phase, Variables, Calls, Putting, WithIp, WithDp, Linking, Unlinking, Creating, Idle
  <2>2. /\ disk.type[dp[p]] = "dir"
        /\ disk.type[ip[p]] = "file"
    BY <1>0, <1>1, <1>2, <2>1, Consts, EntryIs DEF Live, Uses, Creating, Linking, Unlinking, WithDp
  <2>3. lock[dp[p]] = p
    BY <1>0, <1>2, <2>1 DEF Locks, Holds
  <2> QED
    BY <2>1, <2>2, <2>3
<1>4. /\ pc'[p] = "iput"
      /\ then'[p] = "link_bad"
      /\ ip'[p] = ip[p]
      /\ dp'[p] = NoInode
      /\ put'[p] = dp[p]
      /\ fd'[p] = fd[p]
      /\ call'[p] = call[p]
      /\ Phase(p)' = "link_bad"
  <2>1. /\ pc'[p] = "iput"
        /\ then'[p] = "link_bad"
        /\ ip'[p] = ip[p]
        /\ dp'[p] = NoInode
        /\ put'[p] = dp[p]
        /\ fd'[p] = fd[p]
        /\ call'[p] = call[p]
    BY <1>0, <1>2, <1>3 DEF Types
  <2> QED
    BY <2>1, <1>3 DEF Phase, Putting
<1>5. OthersSame(p)
  BY <1>0, <1>2 DEF Types, OthersSame, Same
<1>6. icache' = icache /\ True(icache', disk')
  BY <1>0, <1>2 DEF Cached
<1>7. Types'
  BY <1>0, <1>2, <1>3, <1>4, <1>6, Consts DEF Types, Phases, Idle, Creating, Linking, Unlinking, Putting
<1>8. Variables(p)' /\ Calls(p)' /\ Apart(p)'
  <2>1. Variables(p)'
    BY <1>1, <1>3, <1>4, Consts DEF Variables, Calls, Putting, WithIp, WithDp, Linking, Unlinking, Creating, Idle
  <2>2. Calls(p)'
    BY <1>1, <1>2, <1>3, <1>4, Consts DEF Variables, Calls, Putting, WithIp, WithDp, Linking, Unlinking, Creating, Idle, NoCall
  <2>3. Apart(p)'
    BY <1>1, <1>2, <1>3, <1>4, Consts DEF Apart, Putting
  <2> QED
    BY <2>1, <2>2, <2>3
<1>9. Live(p)' /\ Stays(p)'
  <2>1. Live(p)'
    BY <1>1, <1>2, <1>3, <1>4, Consts DEF Live, Putting, WithDp, Creating, Linking, Unlinking
  <2>2. Stays(p)'
    BY <1>4 DEF Stays
  <2> QED
    BY <2>1, <2>2
<1>10. /\ \A i \in Inum : lock'[i] = p <=> Holds(p, i)'
       /\ \A i \in Inum, q \in Proc : q # p => (lock'[i] = q <=> lock[i] = q)
  <2>1. \A i \in Inum : lock[i] = p <=> Holds(p, i)
    BY <1>0 DEF Locks
  <2>2. \A i \in Inum : lock'[i] = p <=> Holds(p, i)'
    BY <1>0, <1>1, <1>2, <1>3, <1>4, <2>1, Consts DEF Holds, Apart, Putting, Types
  <2>3. \A i \in Inum, q \in Proc : q # p => (lock'[i] = q <=> lock[i] = q)
    BY <1>0, <1>2, <1>3, <2>1, Consts DEF Types, Holds, Putting
  <2> QED
    BY <2>2, <2>3
<1>11. \A i \in Inum : icache'[i].ref = icache[i].ref + Mine(p, i)' - Mine(p, i)
  <2> SUFFICES ASSUME NEW i \in Inum
               PROVE  icache'[i].ref = icache[i].ref + Mine(p, i)' - Mine(p, i)
    OBVIOUS
  <2>1. icache[i].ref \in Nat
    BY <1>0 DEF Types, Cache, CacheEntry
  <2>2. Is(NoInode, i) = 0 /\ \A x : Is(x, i) \in Nat
    BY Consts DEF Is
  <2>3. Mine(p, i)' = Is(ip'[p], i) + Is(dp'[p], i) + Is(put'[p], i) + Is(fd'[p], i)
    BY DEF Mine
  <2> QED
    BY <1>3, <1>4, <1>6, <2>1, <2>2, <2>3 DEF Mine
<1>12. /\ \A i \in Inum : lock'[i] # Nobody => lock[i] # Nobody \/ icache'[i].valid
       /\ \A i \in Inum : lock'[i] # Nobody /\ icache[i].valid /\ icache[i].ref > 0 => icache'[i].valid
  BY <1>0, <1>2, <1>3, <1>6, Consts DEF Types, Cached
<1>13. /\ \A q \in Proc, i \in Inum : q # p /\ Uses(q, i) /\ disk.type[i] # "free" => disk'.type[i] = disk.type[i]
       /\ \A q \in Proc, i \in Inum : q # p /\ lock[i] = q => disk'.dents[i] = disk.dents[i]
       /\ \A q \in Proc : q # p /\ pc[q] = "itrunc" => icache'[put[q]].ref = 1 /\ disk'.nlink[put[q]] = 0
  BY <1>2, <1>6, TruncatedAlone
<1>14. Trees'
  <2>1. Owed(p)' = Owed(p) \/ Owed(p)' = NoInode
    BY <1>1, <1>3, <1>4 DEF Owed, Putting, Owing
  <2> QED
    BY <1>0, <1>2, <1>5, <2>1, OthersOwe, TreesSame DEF Types
<1> QED
  BY <1>5, <1>6, <1>7, <1>8, <1>9, <1>10, <1>11, <1>12, <1>13, <1>14, StepKeeps

\* ... and the link that was counted is taken back.
LEMMA LinkBadKeeps ==
  ASSUME IInv, NEW p \in Proc, LinkBad(p)
  PROVE  IInv'
<1>0. Types /\ Shape /\ Locks /\ RefsCounted /\ Cached /\ InUse /\ Trees
  BY DEF IInv
<1>1. Variables(p) /\ Calls(p) /\ Live(p) /\ Stays(p) /\ Apart(p)
  BY <1>0 DEF Shape, InUse, Locks
<1>2. /\ pc[p] = "link_bad"
      /\ pc' = [pc EXCEPT ![p] = "iput"]
      /\ put' = [put EXCEPT ![p] = ip[p]]
      /\ then' = [then EXCEPT ![p] = "end"]
      /\ ip' = [ip EXCEPT ![p] = NoInode]
      /\ call' = [call EXCEPT ![p] = NoCall]
      /\ UNCHANGED <<saved, lock, dp, fd>>
  <2>1. Ilock(p, "link_bad") /\ PutIp(p, "end") /\ UNCHANGED <<saved, lock, fd>>
    BY Zenon DEF LinkBad, TakenBack
  <2> QED
    BY <2>1 DEF Ilock, At, Put, PutIp, PutDp, Goto, Over, Continue, NoPut, data, inodes
<1>3. /\ put[p] = NoInode
      /\ then[p] = "user"
      /\ ip[p] \in Inum
      /\ dp[p] = NoInode
      /\ Phase(p) = "link_bad"
      /\ disk.type[ip[p]] = "file"
      /\ disk.nlink[ip[p]] >= 1
  <2>1. /\ put[p] = NoInode
        /\ then[p] = "user"
        /\ ip[p] \in Inum
        /\ dp[p] = NoInode
        /\ Phase(p) = "link_bad"
    BY <1>0, <1>1, <1>2, Consts DEF Types, Phase, Variables, Calls, Putting, WithIp, WithDp, Linking, Unlinking, Creating, Idle
  <2>2. /\ disk.type[ip[p]] = "file"
    BY <1>0, <1>1, <1>2, <2>1, Consts DEF Live, Trees, Tree, Disk, Types, WithDp
  <2>3. disk.nlink[ip[p]] >= 1
    BY <2>1, Consts, OwedIsCounted DEF Owed, Owing
  <2> QED
    BY <2>1, <2>2, <2>3
<1>4. /\ pc'[p] = "iput"
      /\ then'[p] = "end"
      /\ ip'[p] = NoInode
      /\ dp'[p] = dp[p]
      /\ put'[p] = ip[p]
      /\ fd'[p] = fd[p]
      /\ call'[p] = NoCall
      /\ Phase(p)' = "end"
  <2>1. /\ pc'[p] = "iput"
        /\ then'[p] = "end"
        /\ ip'[p] = NoInode
        /\ dp'[p] = dp[p]
        /\ put'[p] = ip[p]
        /\ fd'[p] = fd[p]
        /\ call'[p] = NoCall
    BY <1>0, <1>2, <1>3 DEF Types
  <2> QED
    BY <2>1, <1>3 DEF Phase, Putting
<1>5. OthersSame(p)
  BY <1>0, <1>2 DEF Types, OthersSame, Same
<1>6. /\ icache' \in Cache /\ True(icache', disk')
      /\ \A j \in Inum : icache'[j].ref = icache[j].ref
      /\ \A j \in Inum : icache[j].valid /\ icache[j].ref > 0 => icache'[j].valid
      /\ disk' \in Disk /\ disk'.type = disk.type /\ disk'.dents = disk.dents
      /\ \A j \in Inum : disk'.nlink[j] = disk.nlink[j] - Is(ip[p], j)
      /\ icache'[ip[p]].valid
  <2> DEFINE r == Read(icache, ip[p])
             a == AddLinks(r, ip[p], -1)
  <2>1. icache' = a /\ disk' = Iupdate(disk, a, ip[p])
    BY Zenon DEF LinkBad, TakenBack
  <2>2. /\ r \in Cache /\ True(r, disk) /\ r[ip[p]].valid /\ r[ip[p]].ref > 0
        /\ \A j \in Inum : r[j].ref = icache[j].ref /\ (icache[j].valid => r[j].valid)
    BY <1>3, ReadHere DEF Uses
  <2> HIDE DEF r
  <2>3. disk \in Disk /\ disk.nlink[ip[p]] + (-1) >= 0
    BY <1>0, <1>3 DEF Types, Disk
  <2>4. LinksMoved(r, disk, ip[p], -1, icache', disk')
    BY <1>3, <2>1, <2>2, <2>3, LinksMove
  <2> HIDE DEF a
  <2>5. /\ icache' \in Cache /\ True(icache', disk')
        /\ \A j \in Inum : icache'[j].ref = r[j].ref /\ (icache'[j].valid <=> r[j].valid)
    BY <2>4 DEF LinksMoved
  <2>6. disk' \in Disk /\ disk'.type = disk.type /\ disk'.dents = disk.dents
        /\ disk'.nlink = [disk.nlink EXCEPT ![ip[p]] = @ + (-1)]
    BY <2>4 DEF LinksMoved
  <2>7. \A j \in Inum : disk'.nlink[j] = disk.nlink[j] - Is(ip[p], j)
    BY <1>3, <2>3, <2>6 DEF Disk, Is
  <2> QED
    BY <1>3, <2>2, <2>5, <2>6, <2>7
<1>7. Types'
  BY <1>0, <1>2, <1>3, <1>4, <1>6, Consts DEF Types, Phases, Idle, Creating, Linking, Unlinking, Putting
<1>8. Variables(p)' /\ Calls(p)' /\ Apart(p)'
  <2>1. Variables(p)'
    BY <1>1, <1>3, <1>4, Consts DEF Variables, Calls, Putting, WithIp, WithDp, Linking, Unlinking, Creating, Idle
  <2>2. Calls(p)'
    BY <1>1, <1>2, <1>3, <1>4, Consts DEF Variables, Calls, Putting, WithIp, WithDp, Linking, Unlinking, Creating, Idle, NoCall
  <2>3. Apart(p)'
    BY <1>1, <1>2, <1>3, <1>4, Consts DEF Apart, Putting
  <2> QED
    BY <2>1, <2>2, <2>3
<1>9. Live(p)' /\ Stays(p)'
  <2>1. Live(p)'
    <3>1. fd[p] # NoInode => disk.type[fd[p]] # "free"
      BY <1>1 DEF Live
    <3> QED
      BY <1>2, <1>3, <1>4, <1>6, <3>1 DEF Live, Putting, WithDp, Creating, Linking, Unlinking
  <2>2. Stays(p)'
    BY <1>4 DEF Stays
  <2> QED
    BY <2>1, <2>2
<1>10. /\ \A i \in Inum : lock'[i] = p <=> Holds(p, i)'
       /\ \A i \in Inum, q \in Proc : q # p => (lock'[i] = q <=> lock[i] = q)
  <2>1. \A i \in Inum : lock[i] = p <=> Holds(p, i)
    BY <1>0 DEF Locks
  <2>2. \A i \in Inum : lock'[i] = p <=> Holds(p, i)'
    BY <1>0, <1>1, <1>2, <1>3, <1>4, <2>1, Consts DEF Holds, Apart, Putting, Types
  <2>3. \A i \in Inum, q \in Proc : q # p => (lock'[i] = q <=> lock[i] = q)
    BY <1>0, <1>2, <1>3, <2>1, Consts DEF Types, Holds, Putting
  <2> QED
    BY <2>2, <2>3
<1>11. \A i \in Inum : icache'[i].ref = icache[i].ref + Mine(p, i)' - Mine(p, i)
  <2> SUFFICES ASSUME NEW i \in Inum
               PROVE  icache'[i].ref = icache[i].ref + Mine(p, i)' - Mine(p, i)
    OBVIOUS
  <2>1. icache[i].ref \in Nat
    BY <1>0 DEF Types, Cache, CacheEntry
  <2>2. Is(NoInode, i) = 0 /\ \A x : Is(x, i) \in Nat
    BY Consts DEF Is
  <2>3. Mine(p, i)' = Is(ip'[p], i) + Is(dp'[p], i) + Is(put'[p], i) + Is(fd'[p], i)
    BY DEF Mine
  <2> QED
    BY <1>3, <1>4, <1>6, <2>1, <2>2, <2>3 DEF Mine
<1>12. /\ \A i \in Inum : lock'[i] # Nobody => lock[i] # Nobody \/ icache'[i].valid
       /\ \A i \in Inum : lock'[i] # Nobody /\ icache[i].valid /\ icache[i].ref > 0 => icache'[i].valid
  BY <1>0, <1>2, <1>3, <1>6, Consts DEF Types, Cached
<1>13. /\ \A q \in Proc, i \in Inum : q # p /\ Uses(q, i) /\ disk.type[i] # "free" => disk'.type[i] = disk.type[i]
       /\ \A q \in Proc, i \in Inum : q # p /\ lock[i] = q => disk'.dents[i] = disk.dents[i]
       /\ \A q \in Proc : q # p /\ pc[q] = "itrunc" => icache'[put[q]].ref = 1 /\ disk'.nlink[put[q]] = 0
  <2>1. ASSUME NEW q \in Proc, q # p, pc[q] = "itrunc"
        PROVE  icache'[put[q]].ref = 1 /\ disk'.nlink[put[q]] = 0
    <3>1. /\ put[q] \in Inum /\ put[q] # ROOTINO /\ ~Uses(p, put[q])
          /\ \A d \in Inum, n \in Name : disk.dents[d][n] # put[q]
          /\ icache[put[q]].ref = 1 /\ disk.nlink[put[q]] = 0
      BY <2>1, TruncatedAlone
    <3>2. ip[p] # put[q]
      BY <3>1 DEF Uses
    <3> QED
      BY <1>6, <3>1, <3>2 DEF Is
  <2> QED
    BY <1>6, <2>1
<1>14. Trees'
  <2>1. Owed(p)' = NoInode /\ Owed(p) = ip[p]
    BY <1>3, <1>4, Consts DEF Owed, Owing
  <2>2. disk \in Disk /\ saved' = saved /\ Trees
    BY <1>0, <1>2 DEF Types
  <2>3. \A i \in Inum : disk.nlink[i] \in Nat
    BY <2>2 DEF Disk
  <2>4. \A i \in Inum : disk'.nlink[i] >= disk.nlink[i] + Is(Owed(p)', i) - Is(Owed(p), i)
    <3> SUFFICES ASSUME NEW i \in Inum
                 PROVE  disk'.nlink[i] >= disk.nlink[i] + Is(Owed(p)', i) - Is(Owed(p), i)
      OBVIOUS
    <3>1. Is(NoInode, i) = 0 /\ Is(ip[p], i) \in Nat
      BY Consts DEF Is
    <3> QED
      BY <1>6, <2>1, <2>3, <3>1
  <2> QED
    BY <1>5, <1>6, <2>2, <2>4, TreesLinks
<1> QED
  BY <1>5, <1>6, <1>7, <1>8, <1>9, <1>10, <1>11, <1>12, <1>13, <1>14, StepKeeps

\* link has made its entry.
LEMMA LinkedKeeps ==
  ASSUME IInv, NEW p \in Proc, Linked(p)
  PROVE  IInv'
<1>0. Types /\ Shape /\ Locks /\ RefsCounted /\ Cached /\ InUse /\ Trees
  BY DEF IInv
<1>1. Variables(p) /\ Calls(p) /\ Live(p) /\ Stays(p) /\ Apart(p)
  BY <1>0 DEF Shape, InUse, Locks
<1>2. /\ pc[p] = "linked"
      /\ pc' = [pc EXCEPT ![p] = "iput"]
      /\ put' = [put EXCEPT ![p] = ip[p]]
      /\ then' = [then EXCEPT ![p] = "end"]
      /\ ip' = [ip EXCEPT ![p] = NoInode]
      /\ call' = [call EXCEPT ![p] = NoCall]
      /\ UNCHANGED <<disk, saved, lock, icache, dp, fd>>
  BY DEF Linked, At, Put, PutIp, PutDp, Goto, Over, Continue, NoPut, data, inodes
<1>3. /\ put[p] = NoInode
      /\ then[p] = "user"
      /\ ip[p] \in Inum
      /\ dp[p] = NoInode
      /\ Phase(p) = "linked"
      /\ disk.type[ip[p]] # "free"
  <2>1. /\ put[p] = NoInode
        /\ then[p] = "user"
        /\ ip[p] \in Inum
        /\ dp[p] = NoInode
        /\ Phase(p) = "linked"
    BY <1>0, <1>1, <1>2, Consts DEF Types, Phase, Variables, Calls, Putting, WithIp, WithDp, Linking, Unlinking, Creating, Idle
  <2>2. /\ disk.type[ip[p]] # "free"
    BY <1>0, <1>1, <1>2, <2>1, Consts DEF Live, Trees, Tree, Disk, Types, WithDp
  <2> QED
    BY <2>1, <2>2
<1>4. /\ pc'[p] = "iput"
      /\ then'[p] = "end"
      /\ ip'[p] = NoInode
      /\ dp'[p] = dp[p]
      /\ put'[p] = ip[p]
      /\ fd'[p] = fd[p]
      /\ call'[p] = NoCall
      /\ Phase(p)' = "end"
  <2>1. /\ pc'[p] = "iput"
        /\ then'[p] = "end"
        /\ ip'[p] = NoInode
        /\ dp'[p] = dp[p]
        /\ put'[p] = ip[p]
        /\ fd'[p] = fd[p]
        /\ call'[p] = NoCall
    BY <1>0, <1>2, <1>3 DEF Types
  <2> QED
    BY <2>1, <1>3 DEF Phase, Putting
<1>5. OthersSame(p)
  BY <1>0, <1>2 DEF Types, OthersSame, Same
<1>6. icache' = icache /\ True(icache', disk')
  BY <1>0, <1>2 DEF Cached
<1>7. Types'
  BY <1>0, <1>2, <1>3, <1>4, <1>6, Consts DEF Types, Phases, Idle, Creating, Linking, Unlinking, Putting
<1>8. Variables(p)' /\ Calls(p)' /\ Apart(p)'
  <2>1. Variables(p)'
    BY <1>1, <1>3, <1>4, Consts DEF Variables, Calls, Putting, WithIp, WithDp, Linking, Unlinking, Creating, Idle
  <2>2. Calls(p)'
    BY <1>1, <1>2, <1>3, <1>4, Consts DEF Variables, Calls, Putting, WithIp, WithDp, Linking, Unlinking, Creating, Idle, NoCall
  <2>3. Apart(p)'
    BY <1>1, <1>2, <1>3, <1>4, Consts DEF Apart, Putting
  <2> QED
    BY <2>1, <2>2, <2>3
<1>9. Live(p)' /\ Stays(p)'
  <2>1. Live(p)'
    BY <1>1, <1>2, <1>3, <1>4, Consts DEF Live, Putting, WithDp, Creating, Linking, Unlinking
  <2>2. Stays(p)'
    BY <1>4 DEF Stays
  <2> QED
    BY <2>1, <2>2
<1>10. /\ \A i \in Inum : lock'[i] = p <=> Holds(p, i)'
       /\ \A i \in Inum, q \in Proc : q # p => (lock'[i] = q <=> lock[i] = q)
  <2>1. \A i \in Inum : lock[i] = p <=> Holds(p, i)
    BY <1>0 DEF Locks
  <2>2. \A i \in Inum : lock'[i] = p <=> Holds(p, i)'
    BY <1>0, <1>1, <1>2, <1>3, <1>4, <2>1, Consts DEF Holds, Apart, Putting, Types
  <2>3. \A i \in Inum, q \in Proc : q # p => (lock'[i] = q <=> lock[i] = q)
    BY <1>0, <1>2, <1>3, <2>1, Consts DEF Types, Holds, Putting
  <2> QED
    BY <2>2, <2>3
<1>11. \A i \in Inum : icache'[i].ref = icache[i].ref + Mine(p, i)' - Mine(p, i)
  <2> SUFFICES ASSUME NEW i \in Inum
               PROVE  icache'[i].ref = icache[i].ref + Mine(p, i)' - Mine(p, i)
    OBVIOUS
  <2>1. icache[i].ref \in Nat
    BY <1>0 DEF Types, Cache, CacheEntry
  <2>2. Is(NoInode, i) = 0 /\ \A x : Is(x, i) \in Nat
    BY Consts DEF Is
  <2>3. Mine(p, i)' = Is(ip'[p], i) + Is(dp'[p], i) + Is(put'[p], i) + Is(fd'[p], i)
    BY DEF Mine
  <2> QED
    BY <1>3, <1>4, <1>6, <2>1, <2>2, <2>3 DEF Mine
<1>12. /\ \A i \in Inum : lock'[i] # Nobody => lock[i] # Nobody \/ icache'[i].valid
       /\ \A i \in Inum : lock'[i] # Nobody /\ icache[i].valid /\ icache[i].ref > 0 => icache'[i].valid
  BY <1>0, <1>2, <1>3, <1>6, Consts DEF Types, Cached
<1>13. /\ \A q \in Proc, i \in Inum : q # p /\ Uses(q, i) /\ disk.type[i] # "free" => disk'.type[i] = disk.type[i]
       /\ \A q \in Proc, i \in Inum : q # p /\ lock[i] = q => disk'.dents[i] = disk.dents[i]
       /\ \A q \in Proc : q # p /\ pc[q] = "itrunc" => icache'[put[q]].ref = 1 /\ disk'.nlink[put[q]] = 0
  BY <1>2, <1>6, TruncatedAlone
<1>14. Trees'
  <2>1. Owed(p)' = Owed(p) \/ Owed(p)' = NoInode
    BY <1>1, <1>3, <1>4 DEF Owed, Putting, Owing
  <2> QED
    BY <1>0, <1>2, <1>5, <2>1, OthersOwe, TreesSame DEF Types
<1> QED
  BY <1>5, <1>6, <1>7, <1>8, <1>9, <1>10, <1>11, <1>12, <1>13, <1>14, StepKeeps

\* There is nothing to unlink ...
LEMMA UnlinkEnds ==
  ASSUME IInv, NEW p \in Proc, Unlink(p),
         Existing(p) = NoInode
  PROVE  IInv'
<1>0. Types /\ Shape /\ Locks /\ RefsCounted /\ Cached /\ InUse /\ Trees
  BY DEF IInv
<1>1. Variables(p) /\ Calls(p) /\ Live(p) /\ Stays(p) /\ Apart(p)
  BY <1>0 DEF Shape, InUse, Locks
<1>2. /\ pc[p] = "unlink"
      /\ icache' = Read(icache, dp[p])
      /\ pc' = [pc EXCEPT ![p] = "iput"]
      /\ put' = [put EXCEPT ![p] = dp[p]]
      /\ then' = [then EXCEPT ![p] = "end"]
      /\ dp' = [dp EXCEPT ![p] = NoInode]
      /\ call' = [call EXCEPT ![p] = NoCall]
      /\ UNCHANGED <<disk, saved, lock, ip, fd>>
  BY DEF Unlink, Ilock, At, Put, PutIp, PutDp, Goto, Over, Continue, NoPut, data, inodes
<1>3. /\ put[p] = NoInode
      /\ then[p] = "user"
      /\ dp[p] \in Inum
      /\ ip[p] = NoInode
      /\ Phase(p) = "unlink"
      /\ disk.type[dp[p]] = "dir"
  <2>1. /\ put[p] = NoInode
        /\ then[p] = "user"
        /\ dp[p] \in Inum
        /\ ip[p] = NoInode
        /\ Phase(p) = "unlink"
    BY <1>0, <1>1, <1>2, Consts DEF Types, Phase, Variables, Calls, Putting, WithIp, WithDp, Linking, Unlinking, Creating, Idle
  <2>2. /\ disk.type[dp[p]] = "dir"
    BY <1>0, <1>1, <1>2, <2>1, Consts DEF Live, Trees, Tree, Disk, Types, WithDp
  <2> QED
    BY <2>1, <2>2
<1>4. /\ pc'[p] = "iput"
      /\ then'[p] = "end"
      /\ ip'[p] = ip[p]
      /\ dp'[p] = NoInode
      /\ put'[p] = dp[p]
      /\ fd'[p] = fd[p]
      /\ call'[p] = NoCall
      /\ Phase(p)' = "end"
  <2>1. /\ pc'[p] = "iput"
        /\ then'[p] = "end"
        /\ ip'[p] = ip[p]
        /\ dp'[p] = NoInode
        /\ put'[p] = dp[p]
        /\ fd'[p] = fd[p]
        /\ call'[p] = NoCall
    BY <1>0, <1>2, <1>3 DEF Types
  <2> QED
    BY <2>1, <1>3 DEF Phase, Putting
<1>5. OthersSame(p)
  BY <1>0, <1>2 DEF Types, OthersSame, Same
<1>6. /\ icache' \in Cache /\ True(icache', disk')
      /\ \A j \in Inum : icache'[j].ref = icache[j].ref
      /\ \A j \in Inum : icache[j].valid /\ icache[j].ref > 0 => icache'[j].valid
      /\ icache'[dp[p]].valid
  BY <1>0, <1>2, <1>3, ReadTrue DEF Types, Cached
<1>7. Types'
  BY <1>0, <1>2, <1>3, <1>4, <1>6, Consts DEF Types, Phases, Idle, Creating, Linking, Unlinking, Putting
<1>8. Variables(p)' /\ Calls(p)' /\ Apart(p)'
  <2>1. Variables(p)'
    BY <1>1, <1>3, <1>4, Consts DEF Variables, Calls, Putting, WithIp, WithDp, Linking, Unlinking, Creating, Idle
  <2>2. Calls(p)'
    BY <1>1, <1>2, <1>3, <1>4, Consts DEF Variables, Calls, Putting, WithIp, WithDp, Linking, Unlinking, Creating, Idle, NoCall
  <2>3. Apart(p)'
    BY <1>1, <1>2, <1>3, <1>4, Consts DEF Apart, Putting
  <2> QED
    BY <2>1, <2>2, <2>3
<1>9. Live(p)' /\ Stays(p)'
  <2>1. Live(p)'
    BY <1>1, <1>2, <1>3, <1>4, Consts DEF Live, Putting, WithDp, Creating, Linking, Unlinking
  <2>2. Stays(p)'
    BY <1>4 DEF Stays
  <2> QED
    BY <2>1, <2>2
<1>10. /\ \A i \in Inum : lock'[i] = p <=> Holds(p, i)'
       /\ \A i \in Inum, q \in Proc : q # p => (lock'[i] = q <=> lock[i] = q)
  <2>1. \A i \in Inum : lock[i] = p <=> Holds(p, i)
    BY <1>0 DEF Locks
  <2>2. \A i \in Inum : lock'[i] = p <=> Holds(p, i)'
    BY <1>0, <1>1, <1>2, <1>3, <1>4, <2>1, Consts DEF Holds, Apart, Putting, Types
  <2>3. \A i \in Inum, q \in Proc : q # p => (lock'[i] = q <=> lock[i] = q)
    BY <1>0, <1>2, <1>3, <2>1, Consts DEF Types, Holds, Putting
  <2> QED
    BY <2>2, <2>3
<1>11. \A i \in Inum : icache'[i].ref = icache[i].ref + Mine(p, i)' - Mine(p, i)
  <2> SUFFICES ASSUME NEW i \in Inum
               PROVE  icache'[i].ref = icache[i].ref + Mine(p, i)' - Mine(p, i)
    OBVIOUS
  <2>1. icache[i].ref \in Nat
    BY <1>0 DEF Types, Cache, CacheEntry
  <2>2. Is(NoInode, i) = 0 /\ \A x : Is(x, i) \in Nat
    BY Consts DEF Is
  <2>3. Mine(p, i)' = Is(ip'[p], i) + Is(dp'[p], i) + Is(put'[p], i) + Is(fd'[p], i)
    BY DEF Mine
  <2> QED
    BY <1>3, <1>4, <1>6, <2>1, <2>2, <2>3 DEF Mine
<1>12. /\ \A i \in Inum : lock'[i] # Nobody => lock[i] # Nobody \/ icache'[i].valid
       /\ \A i \in Inum : lock'[i] # Nobody /\ icache[i].valid /\ icache[i].ref > 0 => icache'[i].valid
  BY <1>0, <1>2, <1>3, <1>6, Consts DEF Types, Cached
<1>13. /\ \A q \in Proc, i \in Inum : q # p /\ Uses(q, i) /\ disk.type[i] # "free" => disk'.type[i] = disk.type[i]
       /\ \A q \in Proc, i \in Inum : q # p /\ lock[i] = q => disk'.dents[i] = disk.dents[i]
       /\ \A q \in Proc : q # p /\ pc[q] = "itrunc" => icache'[put[q]].ref = 1 /\ disk'.nlink[put[q]] = 0
  BY <1>2, <1>6, TruncatedAlone
<1>14. Trees'
  <2>1. Owed(p)' = Owed(p) \/ Owed(p)' = NoInode
    BY <1>1, <1>3, <1>4 DEF Owed, Putting, Owing
  <2> QED
    BY <1>0, <1>2, <1>5, <2>1, OthersOwe, TreesSame DEF Types
<1> QED
  BY <1>5, <1>6, <1>7, <1>8, <1>9, <1>10, <1>11, <1>12, <1>13, <1>14, StepKeeps

\* ... or something is found, and its directory stays locked.
LEMMA UnlinkFinds ==
  ASSUME IInv, NEW p \in Proc, Unlink(p),
         NEW found \in Inum, found = Existing(p)
  PROVE  IInv'
<1>0. Types /\ Shape /\ Locks /\ RefsCounted /\ Cached /\ InUse /\ Trees
  BY DEF IInv
<1>1. Variables(p) /\ Calls(p) /\ Live(p) /\ Stays(p) /\ Apart(p)
  BY <1>0 DEF Shape, InUse, Locks
<1>2. /\ pc[p] = "unlink" /\ lock[dp[p]] = Nobody
      /\ icache' = Iget(Read(icache, dp[p]), found)
      /\ pc' = [pc EXCEPT ![p] = "unlink_ip"]
      /\ ip' = [ip EXCEPT ![p] = found]
      /\ lock' = [lock EXCEPT ![dp[p]] = p]
      /\ UNCHANGED <<disk, saved, call, dp, put, then, fd>>
  BY Consts DEF Unlink, Ilock, At, Wanted, Free, Take, Put, PutIp, PutDp, Goto, Over, Continue, NoPut, data, inodes
<1>3. /\ put[p] = NoInode
      /\ then[p] = "user"
      /\ dp[p] \in Inum
      /\ ip[p] = NoInode
      /\ Phase(p) = "unlink"
      /\ disk.type[dp[p]] = "dir"
      /\ disk.type[found] # "free" /\ found # dp[p]
      /\ \E d \in Inum, n \in Name : disk.dents[d][n] = found
  <2>1. /\ put[p] = NoInode
        /\ then[p] = "user"
        /\ dp[p] \in Inum
        /\ ip[p] = NoInode
        /\ Phase(p) = "unlink"
    BY <1>0, <1>1, <1>2, Consts DEF Types, Phase, Variables, Calls, Putting, WithIp, WithDp, Linking, Unlinking, Creating, Idle
  <2>2. /\ disk.type[dp[p]] = "dir"
        /\ disk.type[found] # "free" /\ found # dp[p]
        /\ \E d \in Inum, n \in Name : disk.dents[d][n] = found
    BY <1>0, <1>1, <1>2, <2>1, Consts, EntryIs DEF Live, Uses, Creating, Linking, Unlinking, WithDp
  <2> QED
    BY <2>1, <2>2
<1>4. /\ pc'[p] = "unlink_ip"
      /\ then'[p] = then[p]
      /\ ip'[p] = found
      /\ dp'[p] = dp[p]
      /\ put'[p] = put[p]
      /\ fd'[p] = fd[p]
      /\ call'[p] = call[p]
      /\ Phase(p)' = "unlink_ip"
  <2>1. /\ pc'[p] = "unlink_ip"
        /\ then'[p] = then[p]
        /\ ip'[p] = found
        /\ dp'[p] = dp[p]
        /\ put'[p] = put[p]
        /\ fd'[p] = fd[p]
        /\ call'[p] = call[p]
    BY <1>0, <1>2, <1>3 DEF Types
  <2> QED
    BY <2>1, <1>3 DEF Phase, Putting
<1>5. OthersSame(p)
  BY <1>0, <1>2 DEF Types, OthersSame, Same
<1>6. /\ icache' \in Cache /\ True(icache', disk')
      /\ \A j \in Inum : icache'[j].ref = icache[j].ref + Is(found, j)
      /\ \A j \in Inum : icache[j].valid /\ icache[j].ref > 0 => icache'[j].valid
      /\ icache'[dp[p]].valid
  <2>1. \A j \in Inum : icache[j].ref \in Nat
    BY <1>0 DEF Types, Cache, CacheEntry
  <2> DEFINE c == Read(icache, dp[p])
  <2>2. /\ c \in Cache /\ True(c, disk) /\ c[dp[p]].valid
        /\ \A j \in Inum : c[j].ref = icache[j].ref /\ (icache[j].valid => c[j].valid)
    BY <1>0, <1>3, ReadTrue DEF Types, Cached
  <2> HIDE DEF c
  <2>3. /\ Iget(c, found) \in Cache /\ True(Iget(c, found), disk)
        /\ \A j \in Inum : /\ Iget(c, found)[j].ref = c[j].ref + Is(found, j)
                           /\ c[j].valid /\ c[j].ref > 0 => Iget(c, found)[j].valid
    BY <1>3, <2>2, Consts, IgetTrue
  <2>4. icache[dp[p]].ref > 0
    BY <1>0, <1>3, <2>1, UsedHasRef DEF Uses
  <2> QED
    BY <1>2, <1>3, <2>1, <2>2, <2>3, <2>4 DEF c
<1>7. Types'
  BY <1>0, <1>2, <1>3, <1>4, <1>6, Consts DEF Types, Phases, Idle, Creating, Linking, Unlinking, Putting
<1>8. Variables(p)' /\ Calls(p)' /\ Apart(p)'
  <2>1. Variables(p)'
    BY <1>1, <1>3, <1>4, Consts DEF Variables, Calls, Putting, WithIp, WithDp, Linking, Unlinking, Creating, Idle
  <2>2. Calls(p)'
    BY <1>1, <1>2, <1>3, <1>4, Consts DEF Variables, Calls, Putting, WithIp, WithDp, Linking, Unlinking, Creating, Idle, NoCall
  <2>3. Apart(p)'
    BY <1>1, <1>2, <1>3, <1>4, Consts DEF Apart, Putting
  <2> QED
    BY <2>1, <2>2, <2>3
<1>9. Live(p)' /\ Stays(p)'
  <2>1. Live(p)'
    BY <1>1, <1>2, <1>3, <1>4, Consts DEF Live, Putting, WithDp, Creating, Linking, Unlinking
  <2>2. Stays(p)'
    <3>1. Existing(p)' = Existing(p)
      BY <1>2, <1>4 DEF Existing, Entry
    <3> QED
      BY <1>4, <3>1 DEF Stays
  <2> QED
    BY <2>1, <2>2
<1>10. /\ \A i \in Inum : lock'[i] = p <=> Holds(p, i)'
       /\ \A i \in Inum, q \in Proc : q # p => (lock'[i] = q <=> lock[i] = q)
  <2>1. \A i \in Inum : lock[i] = p <=> Holds(p, i)
    BY <1>0 DEF Locks
  <2>2. \A i \in Inum : lock'[i] = p <=> Holds(p, i)'
    BY <1>0, <1>1, <1>2, <1>3, <1>4, <2>1, Consts DEF Holds, Apart, Putting, Types
  <2>3. \A i \in Inum, q \in Proc : q # p => (lock'[i] = q <=> lock[i] = q)
    BY <1>0, <1>2, <1>3, <2>1, Consts DEF Types, Holds, Putting
  <2> QED
    BY <2>2, <2>3
<1>11. \A i \in Inum : icache'[i].ref = icache[i].ref + Mine(p, i)' - Mine(p, i)
  <2> SUFFICES ASSUME NEW i \in Inum
               PROVE  icache'[i].ref = icache[i].ref + Mine(p, i)' - Mine(p, i)
    OBVIOUS
  <2>1. icache[i].ref \in Nat
    BY <1>0 DEF Types, Cache, CacheEntry
  <2>2. Is(NoInode, i) = 0 /\ \A x : Is(x, i) \in Nat
    BY Consts DEF Is
  <2>3. Mine(p, i)' = Is(ip'[p], i) + Is(dp'[p], i) + Is(put'[p], i) + Is(fd'[p], i)
    BY DEF Mine
  <2> QED
    BY <1>3, <1>4, <1>6, <2>1, <2>2, <2>3 DEF Mine
<1>12. /\ \A i \in Inum : lock'[i] # Nobody => lock[i] # Nobody \/ icache'[i].valid
       /\ \A i \in Inum : lock'[i] # Nobody /\ icache[i].valid /\ icache[i].ref > 0 => icache'[i].valid
  BY <1>0, <1>2, <1>3, <1>6, Consts DEF Types, Cached
<1>13. /\ \A q \in Proc, i \in Inum : q # p /\ Uses(q, i) /\ disk.type[i] # "free" => disk'.type[i] = disk.type[i]
       /\ \A q \in Proc, i \in Inum : q # p /\ lock[i] = q => disk'.dents[i] = disk.dents[i]
       /\ \A q \in Proc : q # p /\ pc[q] = "itrunc" => icache'[put[q]].ref = 1 /\ disk'.nlink[put[q]] = 0
  <2>1. ASSUME NEW q \in Proc, q # p, pc[q] = "itrunc"
        PROVE  icache'[put[q]].ref = 1 /\ disk'.nlink[put[q]] = 0
    <3>1. /\ put[q] \in Inum /\ put[q] # ROOTINO /\ ~Uses(p, put[q])
          /\ \A d \in Inum, n \in Name : disk.dents[d][n] # put[q]
          /\ icache[put[q]].ref = 1 /\ disk.nlink[put[q]] = 0
      BY <2>1, TruncatedAlone
    <3>2. found # put[q]
      BY <1>3, <3>1
    <3> QED
      BY <1>2, <1>6, <3>1, <3>2 DEF Is
  <2> QED
    BY <1>2, <2>1
<1>14. Trees'
  <2>1. Owed(p)' = Owed(p) \/ Owed(p)' = NoInode
    BY <1>1, <1>3, <1>4 DEF Owed, Putting, Owing
  <2> QED
    BY <1>0, <1>2, <1>5, <2>1, OthersOwe, TreesSame DEF Types
<1> QED
  BY <1>5, <1>6, <1>7, <1>8, <1>9, <1>10, <1>11, <1>12, <1>13, <1>14, StepKeeps

\* A directory with entries is not removed.
LEMMA UnlinkIpRefuses ==
  ASSUME IInv, NEW p \in Proc, UnlinkIp(p),
         Read(icache, ip[p])[ip[p]].type = "dir" /\ ~IsDirEmpty(ip[p])
  PROVE  IInv'
<1>0. Types /\ Shape /\ Locks /\ RefsCounted /\ Cached /\ InUse /\ Trees
  BY DEF IInv
<1>1. Variables(p) /\ Calls(p) /\ Live(p) /\ Stays(p) /\ Apart(p)
  BY <1>0 DEF Shape, InUse, Locks
<1>2. /\ pc[p] = "unlink_ip"
      /\ icache' = Read(icache, ip[p])
      /\ pc' = [pc EXCEPT ![p] = "iput"]
      /\ put' = [put EXCEPT ![p] = ip[p]]
      /\ then' = [then EXCEPT ![p] = "unlink_bad"]
      /\ ip' = [ip EXCEPT ![p] = NoInode]
      /\ UNCHANGED <<disk, saved, lock, call, dp, fd>>
  BY DEF UnlinkIp, Ilock, At, Put, PutIp, PutDp, Goto, Over, Continue, NoPut, data, inodes
<1>3. /\ put[p] = NoInode
      /\ then[p] = "user"
      /\ dp[p] \in Inum
      /\ ip[p] \in Inum
      /\ ip[p] # dp[p]
      /\ Phase(p) = "unlink_ip"
      /\ disk.type[dp[p]] = "dir"
      /\ disk.type[ip[p]] # "free"
  <2>1. /\ put[p] = NoInode
        /\ then[p] = "user"
        /\ dp[p] \in Inum
        /\ ip[p] \in Inum
        /\ ip[p] # dp[p]
        /\ Phase(p) = "unlink_ip"
    BY <1>0, <1>1, <1>2, Consts DEF Types, Phase, Variables, Calls, Putting, WithIp, WithDp, Linking, Unlinking, Creating, Idle, Apart
  <2>2. /\ disk.type[dp[p]] = "dir"
        /\ disk.type[ip[p]] # "free"
    BY <1>0, <1>1, <1>2, <2>1, Consts DEF Live, Trees, Tree, Disk, Types, WithDp
  <2> QED
    BY <2>1, <2>2
<1>4. /\ pc'[p] = "iput"
      /\ then'[p] = "unlink_bad"
      /\ ip'[p] = NoInode
      /\ dp'[p] = dp[p]
      /\ put'[p] = ip[p]
      /\ fd'[p] = fd[p]
      /\ call'[p] = call[p]
      /\ Phase(p)' = "unlink_bad"
  <2>1. /\ pc'[p] = "iput"
        /\ then'[p] = "unlink_bad"
        /\ ip'[p] = NoInode
        /\ dp'[p] = dp[p]
        /\ put'[p] = ip[p]
        /\ fd'[p] = fd[p]
        /\ call'[p] = call[p]
    BY <1>0, <1>2, <1>3 DEF Types
  <2> QED
    BY <2>1, <1>3 DEF Phase, Putting
<1>5. OthersSame(p)
  BY <1>0, <1>2 DEF Types, OthersSame, Same
<1>6. /\ icache' \in Cache /\ True(icache', disk')
      /\ \A j \in Inum : icache'[j].ref = icache[j].ref
      /\ \A j \in Inum : icache[j].valid /\ icache[j].ref > 0 => icache'[j].valid
      /\ icache'[ip[p]].valid
  BY <1>0, <1>2, <1>3, ReadTrue DEF Types, Cached
<1>7. Types'
  BY <1>0, <1>2, <1>3, <1>4, <1>6, Consts DEF Types, Phases, Idle, Creating, Linking, Unlinking, Putting
<1>8. Variables(p)' /\ Calls(p)' /\ Apart(p)'
  <2>1. Variables(p)'
    BY <1>1, <1>3, <1>4, Consts DEF Variables, Calls, Putting, WithIp, WithDp, Linking, Unlinking, Creating, Idle
  <2>2. Calls(p)'
    BY <1>1, <1>2, <1>3, <1>4, Consts DEF Variables, Calls, Putting, WithIp, WithDp, Linking, Unlinking, Creating, Idle, NoCall
  <2>3. Apart(p)'
    BY <1>1, <1>2, <1>3, <1>4, Consts DEF Apart, Putting
  <2> QED
    BY <2>1, <2>2, <2>3
<1>9. Live(p)' /\ Stays(p)'
  <2>1. Live(p)'
    BY <1>1, <1>2, <1>3, <1>4, Consts DEF Live, Putting, WithDp, Creating, Linking, Unlinking
  <2>2. Stays(p)'
    BY <1>4 DEF Stays
  <2> QED
    BY <2>1, <2>2
<1>10. /\ \A i \in Inum : lock'[i] = p <=> Holds(p, i)'
       /\ \A i \in Inum, q \in Proc : q # p => (lock'[i] = q <=> lock[i] = q)
  <2>1. \A i \in Inum : lock[i] = p <=> Holds(p, i)
    BY <1>0 DEF Locks
  <2>2. \A i \in Inum : lock'[i] = p <=> Holds(p, i)'
    BY <1>0, <1>1, <1>2, <1>3, <1>4, <2>1, Consts DEF Holds, Apart, Putting, Types
  <2>3. \A i \in Inum, q \in Proc : q # p => (lock'[i] = q <=> lock[i] = q)
    BY <1>0, <1>2, <1>3, <2>1, Consts DEF Types, Holds, Putting
  <2> QED
    BY <2>2, <2>3
<1>11. \A i \in Inum : icache'[i].ref = icache[i].ref + Mine(p, i)' - Mine(p, i)
  <2> SUFFICES ASSUME NEW i \in Inum
               PROVE  icache'[i].ref = icache[i].ref + Mine(p, i)' - Mine(p, i)
    OBVIOUS
  <2>1. icache[i].ref \in Nat
    BY <1>0 DEF Types, Cache, CacheEntry
  <2>2. Is(NoInode, i) = 0 /\ \A x : Is(x, i) \in Nat
    BY Consts DEF Is
  <2>3. Mine(p, i)' = Is(ip'[p], i) + Is(dp'[p], i) + Is(put'[p], i) + Is(fd'[p], i)
    BY DEF Mine
  <2> QED
    BY <1>3, <1>4, <1>6, <2>1, <2>2, <2>3 DEF Mine
<1>12. /\ \A i \in Inum : lock'[i] # Nobody => lock[i] # Nobody \/ icache'[i].valid
       /\ \A i \in Inum : lock'[i] # Nobody /\ icache[i].valid /\ icache[i].ref > 0 => icache'[i].valid
  BY <1>0, <1>2, <1>3, <1>6, Consts DEF Types, Cached
<1>13. /\ \A q \in Proc, i \in Inum : q # p /\ Uses(q, i) /\ disk.type[i] # "free" => disk'.type[i] = disk.type[i]
       /\ \A q \in Proc, i \in Inum : q # p /\ lock[i] = q => disk'.dents[i] = disk.dents[i]
       /\ \A q \in Proc : q # p /\ pc[q] = "itrunc" => icache'[put[q]].ref = 1 /\ disk'.nlink[put[q]] = 0
  BY <1>2, <1>6, TruncatedAlone
<1>14. Trees'
  <2>1. Owed(p)' = Owed(p) \/ Owed(p)' = NoInode
    BY <1>1, <1>3, <1>4 DEF Owed, Putting, Owing
  <2> QED
    BY <1>0, <1>2, <1>5, <2>1, OthersOwe, TreesSame DEF Types
<1> QED
  BY <1>5, <1>6, <1>7, <1>8, <1>9, <1>10, <1>11, <1>12, <1>13, <1>14, StepKeeps

\* The entry goes, and the parent's link for "..".
LEMMA UnlinkIpKeeps ==
  ASSUME IInv, NEW p \in Proc, UnlinkIp(p),
         ~(Read(icache, ip[p])[ip[p]].type = "dir" /\ ~IsDirEmpty(ip[p]))
  PROVE  IInv'
<1>0. Types /\ Shape /\ Locks /\ RefsCounted /\ Cached /\ InUse /\ Trees
  BY DEF IInv
<1>1. Variables(p) /\ Calls(p) /\ Live(p) /\ Stays(p) /\ Apart(p)
  BY <1>0 DEF Shape, InUse, Locks
<1>2. /\ pc[p] = "unlink_ip" /\ lock[ip[p]] = Nobody
      /\ lock' = [lock EXCEPT ![dp[p]] = Nobody, ![ip[p]] = p]
      /\ pc' = [pc EXCEPT ![p] = "iput"]
      /\ put' = [put EXCEPT ![p] = dp[p]]
      /\ then' = [then EXCEPT ![p] = "unlinked"]
      /\ dp' = [dp EXCEPT ![p] = NoInode]
      /\ UNCHANGED <<saved, call, ip, fd>>
  <2>1. Ilock(p, "unlink_ip") /\ Pass(p, dp[p], ip[p]) /\ PutDp(p, "unlinked") /\ UNCHANGED <<saved, fd>>
    BY Zenon DEF UnlinkIp
  <2> QED
    BY <2>1 DEF Ilock, At, Wanted, Free, Pass, Put, PutIp, PutDp, Goto, Over, Continue, NoPut, data, inodes
<1>3. /\ put[p] = NoInode
      /\ then[p] = "user"
      /\ dp[p] \in Inum
      /\ ip[p] \in Inum
      /\ ip[p] # dp[p]
      /\ Phase(p) = "unlink_ip"
      /\ disk.type[dp[p]] = "dir"
      /\ disk.type[ip[p]] # "free"
      /\ Entry(p) \in Name /\ Existing(p) = ip[p]
      /\ lock[dp[p]] = p
  <2>1. /\ put[p] = NoInode
        /\ then[p] = "user"
        /\ dp[p] \in Inum
        /\ ip[p] \in Inum
        /\ ip[p] # dp[p]
        /\ Phase(p) = "unlink_ip"
    BY <1>0, <1>1, <1>2, Consts DEF Types, Phase, Variables, Calls, Putting, WithIp, WithDp, Linking, Unlinking, Creating, Idle, Apart
  <2>2. /\ disk.type[dp[p]] = "dir"
        /\ disk.type[ip[p]] # "free"
    BY <1>0, <1>1, <1>2, <2>1, Consts DEF Live, Trees, Tree, Disk, Types, WithDp
  <2>3. Entry(p) \in Name /\ Existing(p) = ip[p]
    BY <1>0, <1>1, <1>2, <2>1, EntryIs DEF Stays, WithDp
  <2>4. lock[dp[p]] = p
    BY <1>0, <1>2, <2>1 DEF Locks, Holds
  <2> QED
    BY <2>1, <2>2, <2>3, <2>4
<1>4. /\ pc'[p] = "iput"
      /\ then'[p] = "unlinked"
      /\ ip'[p] = ip[p]
      /\ dp'[p] = NoInode
      /\ put'[p] = dp[p]
      /\ fd'[p] = fd[p]
      /\ call'[p] = call[p]
      /\ Phase(p)' = "unlinked"
  <2>1. /\ pc'[p] = "iput"
        /\ then'[p] = "unlinked"
        /\ ip'[p] = ip[p]
        /\ dp'[p] = NoInode
        /\ put'[p] = dp[p]
        /\ fd'[p] = fd[p]
        /\ call'[p] = call[p]
    BY <1>0, <1>2, <1>3 DEF Types
  <2> QED
    BY <2>1, <1>3 DEF Phase, Putting
<1>5. OthersSame(p)
  BY <1>0, <1>2 DEF Types, OthersSame, Same
<1>6. /\ icache' \in Cache /\ True(icache', disk')
      /\ \A j \in Inum : icache'[j].ref = icache[j].ref
      /\ \A j \in Inum : icache[j].valid /\ icache[j].ref > 0 => icache'[j].valid
      /\ disk' \in Disk /\ disk'.type = disk.type
      /\ disk'.dents = [disk.dents EXCEPT ![dp[p]][Entry(p)] = NoInode]
      /\ \A j \in Inum : j # dp[p] => disk'.nlink[j] = disk.nlink[j]
      /\ disk'.nlink[dp[p]] = disk.nlink[dp[p]] - DirLink(disk, ip[p])
      /\ icache'[ip[p]].valid
  <2> DEFINE r == Read(icache, ip[p])
             c == IF r[ip[p]].type = "dir" THEN AddLinks(r, dp[p], -1) ELSE r
             g == Iupdate(disk, c, dp[p])
  <2>1. icache' = c /\ disk' = [g EXCEPT !.dents[dp[p]][Entry(p)] = NoInode]
    BY Zenon DEF UnlinkIp
  <2>2. /\ r \in Cache /\ True(r, disk) /\ r[ip[p]].valid /\ r[ip[p]].type = disk.type[ip[p]]
        /\ \A j \in Inum : r[j].ref = icache[j].ref /\ (icache[j].valid => r[j].valid)
    BY <1>3, ReadHere DEF Uses
  <2>3. r[dp[p]].valid /\ r[dp[p]].ref > 0
    <3>1. icache[dp[p]].ref >= 1 /\ icache[dp[p]].valid
      BY <1>3, Consts, LockedHasRef
    <3>2. icache[dp[p]].ref \in Nat
      BY <1>0, <1>3 DEF Types, Cache, CacheEntry
    <3> QED
      BY <1>3, <2>2, <3>1, <3>2
  <2> HIDE DEF r
  <2>4. disk.nlink[dp[p]] \in Nat /\ disk \in Disk
    BY <1>0, <1>3 DEF Types, Disk
  <2>5. disk.nlink[dp[p]] >= DirLink(disk, ip[p])
    BY <1>3, ParentIsCounted DEF Existing
  <2>6. /\ c \in Cache /\ True(c, g) /\ g \in Disk /\ g.type = disk.type /\ g.dents = disk.dents
        /\ \A j \in Inum : c[j].ref = r[j].ref /\ (c[j].valid <=> r[j].valid)
        /\ \A j \in Inum : j # dp[p] => g.nlink[j] = disk.nlink[j]
        /\ g.nlink[dp[p]] = disk.nlink[dp[p]] - DirLink(disk, ip[p])
    <3>1. CASE disk.type[ip[p]] = "dir"
      <4>1. c = AddLinks(r, dp[p], -1) /\ DirLink(disk, ip[p]) = 1
        BY <1>3, <2>2, <3>1, Consts DEF DirLink
      <4>2. disk.nlink[dp[p]] + (-1) >= 0
        BY <2>4, <2>5, <4>1
      <4>3. LinksMoved(r, disk, dp[p], -1, AddLinks(r, dp[p], -1), Iupdate(disk, AddLinks(r, dp[p], -1), dp[p]))
        BY <1>3, <2>2, <2>3, <2>4, <4>2, LinksMove
      <4>4. LinksMoved(r, disk, dp[p], -1, c, g)
        BY <4>1, <4>3
      <4> HIDE DEF g, c
      <4>5. /\ \A j \in Inum : j # dp[p] => g.nlink[j] = disk.nlink[j]
            /\ g.nlink[dp[p]] = disk.nlink[dp[p]] - 1
        BY <1>3, <2>4, <4>4 DEF LinksMoved, Disk
      <4> QED
        BY <4>1, <4>4, <4>5 DEF LinksMoved
    <3>2. CASE disk.type[ip[p]] # "dir"
      <4>1. c = r /\ DirLink(disk, ip[p]) = 0
        BY <1>3, <2>2, <3>2, Consts DEF DirLink
      <4>2. /\ Iupdate(disk, r, dp[p]) \in Disk /\ Iupdate(disk, r, dp[p]).type = disk.type
            /\ Iupdate(disk, r, dp[p]).nlink = disk.nlink /\ Iupdate(disk, r, dp[p]).dents = disk.dents
        BY <1>3, <2>2, <2>3, <2>4, WriteSame
      <4>3. g \in Disk /\ g.type = disk.type /\ g.nlink = disk.nlink /\ g.dents = disk.dents
        BY <4>1, <4>2
      <4> HIDE DEF g, c
      <4>4. True(c, g)
        BY <2>2, <4>1, <4>3 DEF True
      <4>5. g.nlink[dp[p]] = disk.nlink[dp[p]] - 0
        BY <2>4, <4>3
      <4> QED
        BY <2>2, <4>1, <4>3, <4>4, <4>5
    <3> QED
      BY <3>1, <3>2
  <2> HIDE DEF c, g
  <2>7. PICK h \in Disk : h = g
    BY <2>6
  <2>8. /\ disk' \in Disk /\ disk'.type = h.type /\ disk'.nlink = h.nlink
        /\ disk'.dents = [h.dents EXCEPT ![dp[p]][Entry(p)] = NoInode]
    BY <1>3, <2>1, <2>7, EntryWritten
  <2>9. True(icache', disk')
    BY <2>1, <2>6, <2>7, <2>8 DEF True
  <2>10. \A j \in Inum : /\ icache'[j].ref = icache[j].ref /\ (icache[j].valid => icache'[j].valid)
                         /\ (j = ip[p] => icache'[j].valid)
    BY <2>1, <2>2, <2>6
  <2> QED
    BY <1>3, <2>1, <2>6, <2>7, <2>8, <2>9, <2>10
<1>7. Types'
  BY <1>0, <1>2, <1>3, <1>4, <1>6, Consts DEF Types, Phases, Idle, Creating, Linking, Unlinking, Putting
<1>8. Variables(p)' /\ Calls(p)' /\ Apart(p)'
  <2>1. Variables(p)'
    BY <1>1, <1>3, <1>4, Consts DEF Variables, Calls, Putting, WithIp, WithDp, Linking, Unlinking, Creating, Idle
  <2>2. Calls(p)'
    BY <1>1, <1>2, <1>3, <1>4, Consts DEF Variables, Calls, Putting, WithIp, WithDp, Linking, Unlinking, Creating, Idle, NoCall
  <2>3. Apart(p)'
    BY <1>1, <1>2, <1>3, <1>4, Consts DEF Apart, Putting
  <2> QED
    BY <2>1, <2>2, <2>3
<1>9. Live(p)' /\ Stays(p)'
  <2>1. Live(p)'
    <3>1. fd[p] # NoInode => disk.type[fd[p]] # "free"
      BY <1>1 DEF Live
    <3> QED
      BY <1>2, <1>3, <1>4, <1>6, <3>1 DEF Live, Putting, WithDp, Creating, Linking, Unlinking
  <2>2. Stays(p)'
    BY <1>4 DEF Stays
  <2> QED
    BY <2>1, <2>2
<1>10. /\ \A i \in Inum : lock'[i] = p <=> Holds(p, i)'
       /\ \A i \in Inum, q \in Proc : q # p => (lock'[i] = q <=> lock[i] = q)
  <2>1. \A i \in Inum : lock[i] = p <=> Holds(p, i)
    BY <1>0 DEF Locks
  <2>2. \A i \in Inum : lock'[i] = p <=> Holds(p, i)'
    BY <1>0, <1>1, <1>2, <1>3, <1>4, <2>1, Consts DEF Holds, Apart, Putting, Types
  <2>3. \A i \in Inum, q \in Proc : q # p => (lock'[i] = q <=> lock[i] = q)
    BY <1>0, <1>2, <1>3, <2>1, Consts DEF Types, Holds, Putting
  <2> QED
    BY <2>2, <2>3
<1>11. \A i \in Inum : icache'[i].ref = icache[i].ref + Mine(p, i)' - Mine(p, i)
  <2> SUFFICES ASSUME NEW i \in Inum
               PROVE  icache'[i].ref = icache[i].ref + Mine(p, i)' - Mine(p, i)
    OBVIOUS
  <2>1. icache[i].ref \in Nat
    BY <1>0 DEF Types, Cache, CacheEntry
  <2>2. Is(NoInode, i) = 0 /\ \A x : Is(x, i) \in Nat
    BY Consts DEF Is
  <2>3. Mine(p, i)' = Is(ip'[p], i) + Is(dp'[p], i) + Is(put'[p], i) + Is(fd'[p], i)
    BY DEF Mine
  <2> QED
    BY <1>3, <1>4, <1>6, <2>1, <2>2, <2>3 DEF Mine
<1>12. /\ \A i \in Inum : lock'[i] # Nobody => lock[i] # Nobody \/ icache'[i].valid
       /\ \A i \in Inum : lock'[i] # Nobody /\ icache[i].valid /\ icache[i].ref > 0 => icache'[i].valid
  BY <1>0, <1>2, <1>3, <1>6, Consts DEF Types, Cached
<1>13. /\ \A q \in Proc, i \in Inum : q # p /\ Uses(q, i) /\ disk.type[i] # "free" => disk'.type[i] = disk.type[i]
       /\ \A q \in Proc, i \in Inum : q # p /\ lock[i] = q => disk'.dents[i] = disk.dents[i]
       /\ \A q \in Proc : q # p /\ pc[q] = "itrunc" => icache'[put[q]].ref = 1 /\ disk'.nlink[put[q]] = 0
  <2>1. ASSUME NEW q \in Proc, q # p, pc[q] = "itrunc"
        PROVE  icache'[put[q]].ref = 1 /\ disk'.nlink[put[q]] = 0
    <3>1. /\ put[q] \in Inum /\ put[q] # ROOTINO /\ ~Uses(p, put[q])
          /\ \A d \in Inum, n \in Name : disk.dents[d][n] # put[q]
          /\ icache[put[q]].ref = 1 /\ disk.nlink[put[q]] = 0
      BY <2>1, TruncatedAlone
    <3>2. ip[p] # put[q] /\ dp[p] # put[q]
      BY <3>1 DEF Uses
    <3> QED
      BY <1>6, <3>1, <3>2 DEF Is
  <2>2. ASSUME NEW q \in Proc, NEW i \in Inum, q # p, lock[i] = q
        PROVE  disk'.dents[i] = disk.dents[i]
    <3>1. i # dp[p]
      BY <1>2, <1>3, <2>2, Consts
    <3> QED
      BY <1>0, <1>3, <1>6, <3>1 DEF Types, Disk
  <2> QED
    BY <1>6, <2>1, <2>2
<1>14. Trees'
  <2>1. Owed(p)' = ip[p] /\ Owed(p) = NoInode
    BY <1>3, <1>4 DEF Owed, Owing
  <2>2. Is(ip[p], dp[p]) = 0 /\ DirLink(disk, NoInode) = 0
    BY <1>3, Consts DEF Is, DirLink
  <2>3. disk.nlink[dp[p]] \in Nat /\ \A i \in Inum : disk.nlink[i] \in Nat
    BY <1>0, <1>3 DEF Types, Disk
  <2>4. PICK x, n, v, old : x \in Inum /\ n \in Name /\ v \in Inum \cup {NoInode} /\ x = dp[p] /\ n = Entry(p) /\ v = NoInode /\ old = Existing(p)
    BY <1>3
  <2>5. old = disk.dents[x][n] /\ disk'.dents = [disk.dents EXCEPT ![x][n] = v]
    BY <1>6, <2>4 DEF Existing
  <2>6. v # NoInode => v # x /\ disk.type[x] = "dir" /\ disk.type[v] # "free"
    BY <1>3, <2>4
  <2>7. \A i \in Inum : i # x => disk'.nlink[i] >= disk.nlink[i] + Is(v, i) - Is(old, i) + Is(Owed(p)', i) - Is(Owed(p), i)
    BY <1>3, <1>6, <2>1, <2>3, <2>4, Consts DEF Is
  <2>8. disk'.nlink[x] >= disk.nlink[x] + DirLink(disk, v) - DirLink(disk, old) + Is(Owed(p)', x) - Is(Owed(p), x)
    BY <1>3, <1>6, <2>1, <2>2, <2>3, <2>4, Consts DEF Is, DirLink
  <2>9. disk \in Disk /\ disk' \in Disk /\ disk'.type = disk.type /\ saved' = saved /\ Trees /\ OthersSame(p)
    BY <1>0, <1>2, <1>5, <1>6 DEF Types
  <2>10. x \in Inum /\ n \in Name /\ v \in Inum \cup {NoInode}
    BY <2>4
  <2> QED
    BY <2>5, <2>6, <2>7, <2>8, <2>9, <2>10, TreesEntry
<1> QED
  BY <1>5, <1>6, <1>7, <1>8, <1>9, <1>10, <1>11, <1>12, <1>13, <1>14, StepKeeps

\* The directory is unlocked and dropped.
LEMMA UnlinkBadKeeps ==
  ASSUME IInv, NEW p \in Proc, UnlinkBad(p)
  PROVE  IInv'
<1>0. Types /\ Shape /\ Locks /\ RefsCounted /\ Cached /\ InUse /\ Trees
  BY DEF IInv
<1>1. Variables(p) /\ Calls(p) /\ Live(p) /\ Stays(p) /\ Apart(p)
  BY <1>0 DEF Shape, InUse, Locks
<1>2. /\ pc[p] = "unlink_bad"
      /\ lock' = [lock EXCEPT ![dp[p]] = Nobody]
      /\ pc' = [pc EXCEPT ![p] = "iput"]
      /\ put' = [put EXCEPT ![p] = dp[p]]
      /\ then' = [then EXCEPT ![p] = "end"]
      /\ dp' = [dp EXCEPT ![p] = NoInode]
      /\ call' = [call EXCEPT ![p] = NoCall]
      /\ UNCHANGED <<disk, saved, icache, ip, fd>>
  BY DEF UnlinkBad, At, Release, DropsDirectory, Put, PutIp, PutDp, Goto, Over, Continue, NoPut, data, inodes
<1>3. /\ put[p] = NoInode
      /\ then[p] = "user"
      /\ dp[p] \in Inum
      /\ ip[p] = NoInode
      /\ Phase(p) = "unlink_bad"
      /\ disk.type[dp[p]] = "dir"
      /\ lock[dp[p]] = p
  <2>1. /\ put[p] = NoInode
        /\ then[p] = "user"
        /\ dp[p] \in Inum
        /\ ip[p] = NoInode
        /\ Phase(p) = "unlink_bad"
    BY <1>0, <1>1, <1>2, Consts DEF Types, Phase, Variables, Calls, Putting, WithIp, WithDp, Linking, Unlinking, Creating, Idle
  <2>2. /\ disk.type[dp[p]] = "dir"
    BY <1>0, <1>1, <1>2, <2>1, Consts DEF Live, Trees, Tree, Disk, Types, WithDp
  <2>3. lock[dp[p]] = p
    BY <1>0, <1>2, <2>1 DEF Locks, Holds
  <2> QED
    BY <2>1, <2>2, <2>3
<1>4. /\ pc'[p] = "iput"
      /\ then'[p] = "end"
      /\ ip'[p] = ip[p]
      /\ dp'[p] = NoInode
      /\ put'[p] = dp[p]
      /\ fd'[p] = fd[p]
      /\ call'[p] = NoCall
      /\ Phase(p)' = "end"
  <2>1. /\ pc'[p] = "iput"
        /\ then'[p] = "end"
        /\ ip'[p] = ip[p]
        /\ dp'[p] = NoInode
        /\ put'[p] = dp[p]
        /\ fd'[p] = fd[p]
        /\ call'[p] = NoCall
    BY <1>0, <1>2, <1>3 DEF Types
  <2> QED
    BY <2>1, <1>3 DEF Phase, Putting
<1>5. OthersSame(p)
  BY <1>0, <1>2 DEF Types, OthersSame, Same
<1>6. icache' = icache /\ True(icache', disk')
  BY <1>0, <1>2 DEF Cached
<1>7. Types'
  BY <1>0, <1>2, <1>3, <1>4, <1>6, Consts DEF Types, Phases, Idle, Creating, Linking, Unlinking, Putting
<1>8. Variables(p)' /\ Calls(p)' /\ Apart(p)'
  <2>1. Variables(p)'
    BY <1>1, <1>3, <1>4, Consts DEF Variables, Calls, Putting, WithIp, WithDp, Linking, Unlinking, Creating, Idle
  <2>2. Calls(p)'
    BY <1>1, <1>2, <1>3, <1>4, Consts DEF Variables, Calls, Putting, WithIp, WithDp, Linking, Unlinking, Creating, Idle, NoCall
  <2>3. Apart(p)'
    BY <1>1, <1>2, <1>3, <1>4, Consts DEF Apart, Putting
  <2> QED
    BY <2>1, <2>2, <2>3
<1>9. Live(p)' /\ Stays(p)'
  <2>1. Live(p)'
    BY <1>1, <1>2, <1>3, <1>4, Consts DEF Live, Putting, WithDp, Creating, Linking, Unlinking
  <2>2. Stays(p)'
    BY <1>4 DEF Stays
  <2> QED
    BY <2>1, <2>2
<1>10. /\ \A i \in Inum : lock'[i] = p <=> Holds(p, i)'
       /\ \A i \in Inum, q \in Proc : q # p => (lock'[i] = q <=> lock[i] = q)
  <2>1. \A i \in Inum : lock[i] = p <=> Holds(p, i)
    BY <1>0 DEF Locks
  <2>2. \A i \in Inum : lock'[i] = p <=> Holds(p, i)'
    BY <1>0, <1>1, <1>2, <1>3, <1>4, <2>1, Consts DEF Holds, Apart, Putting, Types
  <2>3. \A i \in Inum, q \in Proc : q # p => (lock'[i] = q <=> lock[i] = q)
    BY <1>0, <1>2, <1>3, <2>1, Consts DEF Types, Holds, Putting
  <2> QED
    BY <2>2, <2>3
<1>11. \A i \in Inum : icache'[i].ref = icache[i].ref + Mine(p, i)' - Mine(p, i)
  <2> SUFFICES ASSUME NEW i \in Inum
               PROVE  icache'[i].ref = icache[i].ref + Mine(p, i)' - Mine(p, i)
    OBVIOUS
  <2>1. icache[i].ref \in Nat
    BY <1>0 DEF Types, Cache, CacheEntry
  <2>2. Is(NoInode, i) = 0 /\ \A x : Is(x, i) \in Nat
    BY Consts DEF Is
  <2>3. Mine(p, i)' = Is(ip'[p], i) + Is(dp'[p], i) + Is(put'[p], i) + Is(fd'[p], i)
    BY DEF Mine
  <2> QED
    BY <1>3, <1>4, <1>6, <2>1, <2>2, <2>3 DEF Mine
<1>12. /\ \A i \in Inum : lock'[i] # Nobody => lock[i] # Nobody \/ icache'[i].valid
       /\ \A i \in Inum : lock'[i] # Nobody /\ icache[i].valid /\ icache[i].ref > 0 => icache'[i].valid
  BY <1>0, <1>2, <1>3, <1>6, Consts DEF Types, Cached
<1>13. /\ \A q \in Proc, i \in Inum : q # p /\ Uses(q, i) /\ disk.type[i] # "free" => disk'.type[i] = disk.type[i]
       /\ \A q \in Proc, i \in Inum : q # p /\ lock[i] = q => disk'.dents[i] = disk.dents[i]
       /\ \A q \in Proc : q # p /\ pc[q] = "itrunc" => icache'[put[q]].ref = 1 /\ disk'.nlink[put[q]] = 0
  BY <1>2, <1>6, TruncatedAlone
<1>14. Trees'
  <2>1. Owed(p)' = Owed(p) \/ Owed(p)' = NoInode
    BY <1>1, <1>3, <1>4 DEF Owed, Putting, Owing
  <2> QED
    BY <1>0, <1>2, <1>5, <2>1, OthersOwe, TreesSame DEF Types
<1> QED
  BY <1>5, <1>6, <1>7, <1>8, <1>9, <1>10, <1>11, <1>12, <1>13, <1>14, StepKeeps

\* The link of the name is given back.
LEMMA UnlinkedKeeps ==
  ASSUME IInv, NEW p \in Proc, Unlinked(p)
  PROVE  IInv'
<1>0. Types /\ Shape /\ Locks /\ RefsCounted /\ Cached /\ InUse /\ Trees
  BY DEF IInv
<1>1. Variables(p) /\ Calls(p) /\ Live(p) /\ Stays(p) /\ Apart(p)
  BY <1>0 DEF Shape, InUse, Locks
<1>2. /\ pc[p] = "unlinked"
      /\ lock' = [lock EXCEPT ![ip[p]] = Nobody]
      /\ pc' = [pc EXCEPT ![p] = "iput"]
      /\ put' = [put EXCEPT ![p] = ip[p]]
      /\ then' = [then EXCEPT ![p] = "end"]
      /\ ip' = [ip EXCEPT ![p] = NoInode]
      /\ call' = [call EXCEPT ![p] = NoCall]
      /\ UNCHANGED <<saved, dp, fd>>
  <2>1. At(p, "unlinked") /\ Release(ip[p]) /\ PutIp(p, "end") /\ UNCHANGED <<saved, fd>>
    BY Zenon DEF Unlinked
  <2> QED
    BY <2>1 DEF At, Release, Put, PutIp, PutDp, Goto, Over, Continue, NoPut, data, inodes
<1>3. /\ put[p] = NoInode
      /\ then[p] = "user"
      /\ ip[p] \in Inum
      /\ dp[p] = NoInode
      /\ Phase(p) = "unlinked"
      /\ disk.type[ip[p]] # "free"
      /\ disk.nlink[ip[p]] >= 1
      /\ lock[ip[p]] = p
  <2>1. /\ put[p] = NoInode
        /\ then[p] = "user"
        /\ ip[p] \in Inum
        /\ dp[p] = NoInode
        /\ Phase(p) = "unlinked"
    BY <1>0, <1>1, <1>2, Consts DEF Types, Phase, Variables, Calls, Putting, WithIp, WithDp, Linking, Unlinking, Creating, Idle
  <2>2. /\ disk.type[ip[p]] # "free"
    BY <1>0, <1>1, <1>2, <2>1, Consts DEF Live, Trees, Tree, Disk, Types, WithDp
  <2>3. disk.nlink[ip[p]] >= 1
    BY <2>1, Consts, OwedIsCounted DEF Owed, Owing
  <2>4. lock[ip[p]] = p
    BY <1>0, <1>2, <2>1 DEF Locks, Holds
  <2> QED
    BY <2>1, <2>2, <2>3, <2>4
<1>4. /\ pc'[p] = "iput"
      /\ then'[p] = "end"
      /\ ip'[p] = NoInode
      /\ dp'[p] = dp[p]
      /\ put'[p] = ip[p]
      /\ fd'[p] = fd[p]
      /\ call'[p] = NoCall
      /\ Phase(p)' = "end"
  <2>1. /\ pc'[p] = "iput"
        /\ then'[p] = "end"
        /\ ip'[p] = NoInode
        /\ dp'[p] = dp[p]
        /\ put'[p] = ip[p]
        /\ fd'[p] = fd[p]
        /\ call'[p] = NoCall
    BY <1>0, <1>2, <1>3 DEF Types
  <2> QED
    BY <2>1, <1>3 DEF Phase, Putting
<1>5. OthersSame(p)
  BY <1>0, <1>2 DEF Types, OthersSame, Same
<1>6. /\ icache' \in Cache /\ True(icache', disk')
      /\ \A j \in Inum : icache'[j].ref = icache[j].ref
      /\ \A j \in Inum : icache[j].valid /\ icache[j].ref > 0 => icache'[j].valid
      /\ disk' \in Disk /\ disk'.type = disk.type /\ disk'.dents = disk.dents
      /\ \A j \in Inum : disk'.nlink[j] = disk.nlink[j] - Is(ip[p], j)
  <2> DEFINE a == AddLinks(icache, ip[p], -1)
  <2>1. icache' = a /\ disk' = Iupdate(disk, a, ip[p])
    BY Zenon DEF Unlinked
  <2>2. icache[ip[p]].valid /\ icache[ip[p]].ref > 0
    <3>1. icache[ip[p]].ref >= 1 /\ icache[ip[p]].valid
      BY <1>3, Consts, LockedHasRef
    <3>2. icache[ip[p]].ref \in Nat
      BY <1>0, <1>3 DEF Types, Cache, CacheEntry
    <3> QED
      BY <3>1, <3>2
  <2>3. disk \in Disk /\ icache \in Cache /\ True(icache, disk) /\ disk.nlink[ip[p]] + (-1) >= 0
    BY <1>0, <1>3 DEF Types, Disk, Cached
  <2>4. LinksMoved(icache, disk, ip[p], -1, icache', disk')
    BY <1>3, <2>1, <2>2, <2>3, LinksMove
  <2> HIDE DEF a
  <2>5. /\ icache' \in Cache /\ True(icache', disk')
        /\ \A j \in Inum : icache'[j].ref = icache[j].ref /\ (icache'[j].valid <=> icache[j].valid)
    BY <2>4 DEF LinksMoved
  <2>6. disk' \in Disk /\ disk'.type = disk.type /\ disk'.dents = disk.dents
        /\ disk'.nlink = [disk.nlink EXCEPT ![ip[p]] = @ + (-1)]
    BY <2>4 DEF LinksMoved
  <2>7. \A j \in Inum : disk'.nlink[j] = disk.nlink[j] - Is(ip[p], j)
    BY <1>3, <2>3, <2>6 DEF Disk, Is
  <2> QED
    BY <2>5, <2>6, <2>7
<1>7. Types'
  BY <1>0, <1>2, <1>3, <1>4, <1>6, Consts DEF Types, Phases, Idle, Creating, Linking, Unlinking, Putting
<1>8. Variables(p)' /\ Calls(p)' /\ Apart(p)'
  <2>1. Variables(p)'
    BY <1>1, <1>3, <1>4, Consts DEF Variables, Calls, Putting, WithIp, WithDp, Linking, Unlinking, Creating, Idle
  <2>2. Calls(p)'
    BY <1>1, <1>2, <1>3, <1>4, Consts DEF Variables, Calls, Putting, WithIp, WithDp, Linking, Unlinking, Creating, Idle, NoCall
  <2>3. Apart(p)'
    BY <1>1, <1>2, <1>3, <1>4, Consts DEF Apart, Putting
  <2> QED
    BY <2>1, <2>2, <2>3
<1>9. Live(p)' /\ Stays(p)'
  <2>1. Live(p)'
    <3>1. fd[p] # NoInode => disk.type[fd[p]] # "free"
      BY <1>1 DEF Live
    <3> QED
      BY <1>2, <1>3, <1>4, <1>6, <3>1 DEF Live, Putting, WithDp, Creating, Linking, Unlinking
  <2>2. Stays(p)'
    BY <1>4 DEF Stays
  <2> QED
    BY <2>1, <2>2
<1>10. /\ \A i \in Inum : lock'[i] = p <=> Holds(p, i)'
       /\ \A i \in Inum, q \in Proc : q # p => (lock'[i] = q <=> lock[i] = q)
  <2>1. \A i \in Inum : lock[i] = p <=> Holds(p, i)
    BY <1>0 DEF Locks
  <2>2. \A i \in Inum : lock'[i] = p <=> Holds(p, i)'
    BY <1>0, <1>1, <1>2, <1>3, <1>4, <2>1, Consts DEF Holds, Apart, Putting, Types
  <2>3. \A i \in Inum, q \in Proc : q # p => (lock'[i] = q <=> lock[i] = q)
    BY <1>0, <1>2, <1>3, <2>1, Consts DEF Types, Holds, Putting
  <2> QED
    BY <2>2, <2>3
<1>11. \A i \in Inum : icache'[i].ref = icache[i].ref + Mine(p, i)' - Mine(p, i)
  <2> SUFFICES ASSUME NEW i \in Inum
               PROVE  icache'[i].ref = icache[i].ref + Mine(p, i)' - Mine(p, i)
    OBVIOUS
  <2>1. icache[i].ref \in Nat
    BY <1>0 DEF Types, Cache, CacheEntry
  <2>2. Is(NoInode, i) = 0 /\ \A x : Is(x, i) \in Nat
    BY Consts DEF Is
  <2>3. Mine(p, i)' = Is(ip'[p], i) + Is(dp'[p], i) + Is(put'[p], i) + Is(fd'[p], i)
    BY DEF Mine
  <2> QED
    BY <1>3, <1>4, <1>6, <2>1, <2>2, <2>3 DEF Mine
<1>12. /\ \A i \in Inum : lock'[i] # Nobody => lock[i] # Nobody \/ icache'[i].valid
       /\ \A i \in Inum : lock'[i] # Nobody /\ icache[i].valid /\ icache[i].ref > 0 => icache'[i].valid
  BY <1>0, <1>2, <1>3, <1>6, Consts DEF Types, Cached
<1>13. /\ \A q \in Proc, i \in Inum : q # p /\ Uses(q, i) /\ disk.type[i] # "free" => disk'.type[i] = disk.type[i]
       /\ \A q \in Proc, i \in Inum : q # p /\ lock[i] = q => disk'.dents[i] = disk.dents[i]
       /\ \A q \in Proc : q # p /\ pc[q] = "itrunc" => icache'[put[q]].ref = 1 /\ disk'.nlink[put[q]] = 0
  <2>1. ASSUME NEW q \in Proc, q # p, pc[q] = "itrunc"
        PROVE  icache'[put[q]].ref = 1 /\ disk'.nlink[put[q]] = 0
    <3>1. /\ put[q] \in Inum /\ put[q] # ROOTINO /\ ~Uses(p, put[q])
          /\ \A d \in Inum, n \in Name : disk.dents[d][n] # put[q]
          /\ icache[put[q]].ref = 1 /\ disk.nlink[put[q]] = 0
      BY <2>1, TruncatedAlone
    <3>2. ip[p] # put[q]
      BY <3>1 DEF Uses
    <3> QED
      BY <1>6, <3>1, <3>2 DEF Is
  <2> QED
    BY <1>6, <2>1
<1>14. Trees'
  <2>1. Owed(p)' = NoInode /\ Owed(p) = ip[p]
    BY <1>3, <1>4, Consts DEF Owed, Owing
  <2>2. disk \in Disk /\ saved' = saved /\ Trees
    BY <1>0, <1>2 DEF Types
  <2>3. \A i \in Inum : disk.nlink[i] \in Nat
    BY <2>2 DEF Disk
  <2>4. \A i \in Inum : disk'.nlink[i] >= disk.nlink[i] + Is(Owed(p)', i) - Is(Owed(p), i)
    <3> SUFFICES ASSUME NEW i \in Inum
                 PROVE  disk'.nlink[i] >= disk.nlink[i] + Is(Owed(p)', i) - Is(Owed(p), i)
      OBVIOUS
    <3>1. Is(NoInode, i) = 0 /\ Is(ip[p], i) \in Nat
      BY Consts DEF Is
    <3> QED
      BY <1>6, <2>1, <2>3, <3>1
  <2> QED
    BY <1>5, <1>6, <2>2, <2>4, TreesLinks
<1> QED
  BY <1>5, <1>6, <1>7, <1>8, <1>9, <1>10, <1>11, <1>12, <1>13, <1>14, StepKeeps

-----------------------------------------------------------------------------
(* The start, a crash and the step of any process.                         *)

\* The memory after a boot, with a tree on the disk.
Booted ==
  /\ icache = Fresh /\ lock = [i \in Inum |-> Nobody]
  /\ pc = InUser /\ then = InUser /\ call = [p \in Proc |-> NoCall]
  /\ ip = Nowhere /\ dp = Nowhere /\ put = Nowhere /\ fd = Nowhere
  /\ disk \in Disk /\ saved \in Disk
  /\ Tree(disk) /\ Counted(disk) /\ Tree(saved) /\ Counted(saved)

LEMMA BootedIInv == Booted => IInv
<1> SUFFICES ASSUME Booted PROVE IInv
  OBVIOUS
<1>1. \A p \in Proc : /\ pc[p] = "user" /\ then[p] = "user" /\ call[p] = NoCall
                      /\ ip[p] = NoInode /\ dp[p] = NoInode /\ put[p] = NoInode /\ fd[p] = NoInode
                      /\ Phase(p) = "user"
  BY DEF Booted, InUser, Nowhere, Phase, Putting
<1>2. \A i \in Inum : icache[i].ref = Rooted(i) /\ icache[i].valid = FALSE /\ lock[i] = Nobody
  BY DEF Booted, Fresh, Rooted
<1>3. Types
  <2>1. icache \in Cache
    BY DEF Booted, Fresh, Cache, CacheEntry, FileType
  <2>2. pc \in [Proc -> Phases \cup Putting] /\ then \in [Proc -> Phases] /\ call \in [Proc -> Call \cup {NoCall}]
    BY DEF Booted, InUser, Phases, Idle
  <2> QED
    BY <2>1, <2>2 DEF Booted, Types, Nowhere
<1>4. Shape
  BY <1>1, Consts DEF Shape, Variables, Calls, Putting, WithDp, WithIp, Idle, Creating, Linking, Unlinking, NoCall
<1>5. Locks
  <2>1. \A p \in Proc : Apart(p) /\ \A i \in Inum : ~Holds(p, i)
    BY <1>1, Consts DEF Apart, Holds, Putting
  <2> QED
    BY <1>2, <2>1, Consts DEF Locks
<1>6. RefsCounted
  <2> SUFFICES ASSUME NEW i \in Inum
               PROVE  icache[i].ref = Rooted(i) + Count(ip, i) + Count(dp, i) + Count(put, i) + Count(fd, i)
    BY RefsAre
  <2>1. /\ Having(Proc, ip, i) = {} /\ Having(Proc, dp, i) = {}
        /\ Having(Proc, put, i) = {} /\ Having(Proc, fd, i) = {}
    BY <1>1, Consts DEF Having
  <2>2. Count(ip, i) = 0 /\ Count(dp, i) = 0 /\ Count(put, i) = 0 /\ Count(fd, i) = 0
    BY <2>1, FS_EmptySet DEF Count
  <2>3. icache[i].ref = Rooted(i)
    BY <1>2
  <2>4. Rooted(i) \in Nat
    BY DEF Rooted
  <2> QED
    BY <2>2, <2>3, <2>4
<1>7. Cached
  BY <1>2 DEF Cached, True
<1>8. InUse
  BY <1>1 DEF InUse, Live, Stays, WithDp
<1>9. Trees
  <2>1. CountedNow
    <3> SUFFICES ASSUME NEW i \in Inum
                 PROVE  disk.nlink[i] >= Entries(disk, i) + Cardinality(Kids(disk, i)) + Rooted(i) + Owes(i)
      BY DEF CountedNow
    <3>1. {p \in Proc : Owed(p) = i} = {}
      BY <1>1, Consts DEF Owed
    <3>2. Owes(i) = 0
      BY <3>1, FS_EmptySet DEF Owes
    <3>3. disk.nlink[i] >= Entries(disk, i) + Cardinality(Kids(disk, i)) + Rooted(i)
      BY DEF Booted, Counted
    <3> QED
      BY <3>2, <3>3, TreeCounts
  <2> QED
    BY <2>1 DEF Booted, Trees
<1> QED
  BY <1>3, <1>4, <1>5, <1>6, <1>7, <1>8, <1>9 DEF IInv

LEMMA BootedIInvNext == Booted' => IInv'
BY BootedIInv, PTL

LEMMA InitIInv == Init => IInv
<1> SUFFICES ASSUME Init PROVE Booted
  BY BootedIInv
<1>1. /\ \A i \in Inum : disk.type[i] = (IF i = ROOTINO THEN "dir" ELSE "free") /\ disk.nlink[i] = Rooted(i)
      /\ \A i \in Inum, n \in Name : disk.dents[i][n] = NoInode
  BY DEF Init, Empty, Rooted
<1>2. disk \in Disk
  BY Consts DEF Init, Disk, FileType, Empty
<1>3. Tree(disk)
  BY <1>1, Consts DEF Tree
<1>4. Counted(disk)
  <2> SUFFICES ASSUME NEW i \in Inum
               PROVE  disk.nlink[i] >= Entries(disk, i) + Cardinality(Kids(disk, i)) + Rooted(i)
    BY DEF Counted
  <2>1. Having(Slots, Entered(disk), i) = {} /\ Kids(disk, i) = {}
    BY <1>1, Consts DEF Having, Slots, Entered, Kids
  <2>2. Entries(disk, i) = 0 /\ Cardinality(Kids(disk, i)) = 0
    BY <2>1, EntriesAre, FS_EmptySet
  <2>3. Rooted(i) \in Nat
    BY DEF Rooted
  <2> QED
    BY <1>1, <2>2, <2>3
<1>5. saved = disk
  BY DEF Init
<1> QED
  BY <1>2, <1>3, <1>4, <1>5 DEF Init, Booted

\* What was committed is a tree, so what is recovered is one.
LEMMA CrashKeeps ==
  ASSUME IInv, Crash
  PROVE  IInv'
<1>1. saved \in Disk /\ Tree(saved) /\ Counted(saved)
  <2>1. Types /\ Trees
    BY DEF IInv
  <2> QED
    BY <2>1 DEF Types, Trees
<1>2. /\ disk' = saved /\ saved' = saved
      /\ icache' = Fresh /\ lock' = [i \in Inum |-> Nobody]
      /\ pc' = InUser /\ then' = InUser /\ call' = [p \in Proc |-> NoCall]
      /\ ip' = Nowhere /\ dp' = Nowhere /\ put' = Nowhere /\ fd' = Nowhere
  BY DEF Crash
<1>3. disk' \in Disk /\ saved' \in Disk
  BY <1>1, <1>2
<1>4. /\ Tree(disk') /\ Counted(disk') /\ Tree(saved') /\ Counted(saved')
  BY <1>1, <1>2
<1>5. /\ Tree(disk)' /\ Counted(disk)' /\ Tree(saved)' /\ Counted(saved)'
  BY <1>4 DEF Tree, Counted, Entries, Kids
<1>6. Booted'
  BY <1>2, <1>3, <1>5 DEF Booted
<1> QED
  BY <1>6, BootedIInvNext

\* Each way of a call, from its handlers' branches.
LEMMA IputKeeps ==
  ASSUME IInv, NEW p \in Proc, Iput(p)
  PROVE  IInv'
BY IputFrees, IputLeaves, ItruncKeeps, IputDropKeeps DEF Iput

LEMMA NamexKeeps ==
  ASSUME IInv, NEW p \in Proc, Namex(p)
  PROVE  IInv'
<1>1. CASE AtParent(p)
  BY <1>1, NamexParent
<1>2. CASE ~AtParent(p) /\ NoWay(p)
  <2>1. CASE Second(p)
    BY <1>2, <2>1, NamexLinkBad
  <2>2. CASE ~Second(p)
    BY <1>2, <2>2, NamexEnds
  <2> QED
    BY <2>1, <2>2
<1>3. CASE ~AtParent(p) /\ ~NoWay(p)
  <2>1. Phase(p) \in WithDp
    BY DEF Namex, Ilock, At, Phase, Putting, WithDp
  <2>2. Head(call[p].rest) = Entry(p)
    BY DEF Entry
  <2>3. Existing(p) \in Inum \cup {NoInode} /\ Existing(p) = disk.dents[dp[p]][Head(call[p].rest)]
    BY <2>1, EntryIs DEF Existing, Entry
  <2>4. Existing(p) \in Inum /\ Leads(p, Existing(p))
    BY <1>3, <2>3 DEF NoWay, Leads
  <2> QED
    BY <1>3, <2>4, NamexGoesOn, NamexFound
<1> QED
  BY <1>1, <1>2, <1>3

LEMMA OpensKeeps ==
  ASSUME IInv, NEW p \in Proc, Opens(p)
  PROVE  IInv'
<1>1. CASE Create(p)
  <2>1. Phase(p) \in WithDp
    BY <1>1 DEF Create, Ilock, At, Phase, Putting, WithDp
  <2>2. Existing(p) \in Inum \cup {NoInode}
    BY <2>1, EntryIs
  <2>3. FreeInodes # {} => Min(FreeInodes) \in Inum
    BY FirstIsFree
  <2> QED
    BY <1>1, <2>2, <2>3, CreateExists, CreateMakes, CreatePanics
<1>2. CASE CreateNew(p)
  BY <1>2, CreateNewKeeps
<1>3. CASE CreateFound(p)
  BY <1>3, CreateFoundOpens, CreateFoundEnds
<1>4. CASE OpenFound(p)
  BY <1>4, OpenFoundKeeps
<1>5. CASE Opened(p)
  <2>1. \/ /\ call[p].name # "mkdir" /\ fd' = [fd EXCEPT ![p] = ip[p]] /\ ip' = [ip EXCEPT ![p] = NoInode]
           /\ Goto(p, "end") /\ Over(p) /\ NoPut /\ UNCHANGED dp
        \/ PutIp(p, "end") /\ UNCHANGED fd
    BY <1>5 DEF Opened
  <2> QED
    BY <1>5, <2>1, OpenedOpens, OpenedEnds
<1> QED
  BY <1>1, <1>2, <1>3, <1>4, <1>5 DEF Opens

LEMMA LinksKeep ==
  ASSUME IInv, NEW p \in Proc, Links(p)
  PROVE  IInv'
<1>1. CASE LinkOld(p)
  BY <1>1, LinkOldEnds, LinkOldCounts
<1>2. CASE LinkNew(p)
  <2>1. Phase(p) \in WithDp
    BY <1>2 DEF LinkNew, Ilock, At, Phase, Putting, WithDp
  <2>2. Existing(p) \in Inum \cup {NoInode}
    BY <2>1, EntryIs
  <2> QED
    BY <1>2, <2>2, LinkNewMakes, LinkNewExists
<1>3. CASE LinkExists(p)
  BY <1>3, LinkExistsKeeps
<1>4. CASE LinkBad(p)
  BY <1>4, LinkBadKeeps
<1>5. CASE Linked(p)
  BY <1>5, LinkedKeeps
<1> QED
  BY <1>1, <1>2, <1>3, <1>4, <1>5 DEF Links

LEMMA UnlinksKeep ==
  ASSUME IInv, NEW p \in Proc, Unlinks(p)
  PROVE  IInv'
<1>1. CASE Unlink(p)
  <2>1. Phase(p) \in WithDp
    BY <1>1 DEF Unlink, Ilock, At, Phase, Putting, WithDp
  <2>2. Existing(p) \in Inum \cup {NoInode}
    BY <2>1, EntryIs
  <2> QED
    BY <1>1, <2>2, UnlinkEnds, UnlinkFinds
<1>2. CASE UnlinkIp(p)
  BY <1>2, UnlinkIpRefuses, UnlinkIpKeeps
<1>3. CASE UnlinkBad(p)
  BY <1>3, UnlinkBadKeeps
<1>4. CASE Unlinked(p)
  BY <1>4, UnlinkedKeeps
<1> QED
  BY <1>1, <1>2, <1>3, <1>4 DEF Unlinks

LEMMA StutterKeeps ==
  ASSUME IInv, UNCHANGED vars
  PROVE  IInv'
<1>1. /\ disk' = disk /\ saved' = saved /\ lock' = lock /\ icache' = icache
      /\ ip' = ip /\ dp' = dp /\ put' = put /\ fd' = fd
      /\ pc' = pc /\ then' = then /\ call' = call
  BY DEF vars, data, inodes
<1>2. Types /\ Shape /\ Locks /\ RefsCounted /\ Cached /\ InUse /\ Trees
  BY DEF IInv
<1>3. \A p \in Proc : Phase(p)' = Phase(p) /\ Existing(p)' = Existing(p) /\ Owed(p)' = Owed(p)
  BY <1>1 DEF Phase, Existing, Entry, Owed
<1>4. Types'
  BY <1>1, <1>2 DEF Types
<1>5. Shape'
  BY <1>1, <1>2, <1>3 DEF Shape, Variables, Calls
<1>6. Locks'
  <2>1. \A p \in Proc : (Apart(p)' <=> Apart(p)) /\ \A i \in Inum : Holds(p, i)' <=> Holds(p, i)
    BY <1>1, <1>3 DEF Apart, Holds
  <2> QED
    BY <1>1, <1>2, <2>1 DEF Locks
<1>7. RefsCounted'
  BY <1>1, <1>2 DEF RefsCounted
<1>8. Cached'
  BY <1>1, <1>2 DEF Cached, True
<1>9. InUse'
  BY <1>1, <1>2, <1>3 DEF InUse, Live, Stays
<1>10. Trees'
  <2>1. disk \in Disk
    BY <1>2 DEF Types
  <2> QED
    BY <1>1, <1>2, <1>3, <2>1, TreesSame
<1> QED
  BY <1>4, <1>5, <1>6, <1>7, <1>8, <1>9, <1>10 DEF IInv

LEMMA NextIInv ==
  ASSUME IInv, [Next]_vars
  PROVE  IInv'
<1>1. ASSUME NEW p \in Proc,
             \/ Begin(p) \/ Close(p) \/ FileIO(p) \/ EndOp(p)
             \/ Iput(p) \/ Namex(p) \/ Opens(p) \/ Links(p) \/ Unlinks(p)
      PROVE  IInv'
  BY <1>1, BeginKeeps, CloseKeeps, FileIOKeeps, EndOpKeeps, IputKeeps, NamexKeeps, OpensKeeps, LinksKeep, UnlinksKeep
<1>2. CASE Crash
  BY <1>2, CrashKeeps
<1>3. CASE UNCHANGED vars
  BY <1>3, StutterKeeps
<1> QED
  BY <1>1, <1>2, <1>3 DEF Next

-----------------------------------------------------------------------------
\* In every behaviour the invariant holds (fs.c and sysfile.c as a whole).
THEOREM Invariant == Spec => []IInv
<1>1. Init => IInv
  BY InitIInv
<1>2. IInv /\ [Next]_vars => IInv'
  BY NextIInv
<1> QED
  BY <1>1, <1>2, PTL DEF Spec

\* Types; no call ends with a lock or waits for one that it has; and neither
\* "ilock: no type" nor "unlink: nlink < 1" can happen (ilock in fs.c, the
\* ends of the calls in sysfile.c).
THEOREM TypeCorrect == Spec => []TypeOK
<1>1. IInv => TypeOK
  <2> SUFFICES ASSUME IInv PROVE TypeOK
    OBVIOUS
  <2>1. Types /\ Shape /\ Locks /\ InUse
    BY DEF IInv
  <2>2. \A d \in {disk, saved} : \A i \in Inum :
          /\ d.type[i] \in {"free", "file", "dir"} /\ d.nlink[i] \in Nat
          /\ d.dents[i] \in [Name -> Inum \cup {NoInode}]
    BY <2>1 DEF Types, Disk, FileType
  <2>3. icache \in [Inum -> [ref : Nat, valid : BOOLEAN, type : {"free", "file", "dir"}, nlink : Nat]]
    BY <2>1 DEF Types, Cache, CacheEntry, FileType
  <2>4. lock \in [Inum -> Proc \cup {Nobody}] /\ \A q \in {ip, dp, put, fd} : q \in [Proc -> Inum \cup {NoInode}]
    BY <2>1 DEF Types
  <2>5. ASSUME NEW i \in Inum, NEW p \in Proc, lock[i] = p
        PROVE  /\ pc[p] \notin {"user", "end"} /\ Wanted(p) # i
               /\ pc[p] = "iput" => put[p] # i
    <3>1. Holds(p, i) /\ Apart(p) /\ i # NoInode /\ Variables(p)
      BY <2>1, <2>5, Consts DEF Locks, Shape
    <3>2. CASE pc[p] = "itrunc" /\ put[p] = i
      BY <3>1, <3>2 DEF Wanted
    <3>3. CASE Phase(p) \in {"create_new", "link_exists", "unlink_ip", "unlink_bad"} /\ dp[p] = i
      BY <3>1, <3>3 DEF Wanted, Phase, Putting, Apart
    <3>4. CASE Phase(p) \in {"opened", "unlinked"} /\ ip[p] = i
      BY <3>1, <3>4 DEF Wanted, Phase, Putting, Apart
    <3> QED
      BY <3>1, <3>2, <3>3, <3>4 DEF Holds
  <2>6. ASSUME NEW p \in Proc, Wanted(p) # NoInode
        PROVE  Typed(Wanted(p))
    <3>1. Wanted(p) \in {ip[p], dp[p], fd[p]}
      BY <2>6 DEF Wanted
    <3> QED
      BY <2>1, <2>6, <3>1 DEF InUse, Live, Typed
  <2>7. ASSUME NEW p \in Proc, pc[p] = "unlink_ip"
        PROVE  Read(icache, ip[p])[ip[p]].nlink > 0
    <3>1. Phase(p) = "unlink_ip" /\ Variables(p) /\ Live(p) /\ Stays(p)
      BY <2>1, <2>7 DEF Phase, Putting, Shape, InUse
    <3>2. ip[p] # NoInode /\ Phase(p) \in WithDp
      BY <3>1 DEF Variables, WithIp, WithDp
    <3>3. ip[p] \in Inum /\ disk.type[ip[p]] # "free" /\ Existing(p) = ip[p]
      BY <2>1, <3>1, <3>2 DEF Types, Live, Stays
    <3>4. Read(icache, ip[p])[ip[p]].nlink = disk.nlink[ip[p]]
      BY <3>3, ReadHere DEF Uses
    <3>5. dp[p] \in Inum /\ Entry(p) \in Name /\ disk.dents[dp[p]][Entry(p)] = ip[p]
      BY <3>2, <3>3, EntryIs DEF Existing
    <3>6. Entries(disk, ip[p]) >= 1
      BY <3>5, EntriesAre
    <3>7. disk.nlink[ip[p]] >= Entries(disk, ip[p]) + Cardinality(Kids(disk, ip[p])) + Rooted(ip[p]) + Owes(ip[p])
      BY <3>3 DEF IInv, Trees, CountedNow
    <3>8. PICK n \in Nat, a \in Nat, b \in Nat, c \in Nat, e \in Nat :
            /\ n = disk.nlink[ip[p]] /\ a = Entries(disk, ip[p]) /\ b = Cardinality(Kids(disk, ip[p]))
            /\ c = Rooted(ip[p]) /\ e = Owes(ip[p])
      BY <2>2, <3>3, TreeCounts
    <3> QED
      BY <3>4, <3>6, <3>7, <3>8
  <2> QED
    BY <2>2, <2>3, <2>4, <2>5, <2>6, <2>7 DEF TypeOK
<1> QED
  BY <1>1, Invariant, PTL

\* A valid entry of the cache that has references is what the disk has (the
\* write-through of iupdate, and ilock, iget and iput on a number that is
\* freed and taken again, fs.c).
THEOREM CacheStaysTruthful == Spec => []CacheTruthful
<1>1. IInv => CacheTruthful
  BY DEF IInv, Cached, True, CacheTruthful
<1> QED
  BY <1>1, Invariant, PTL

\* ref is the number of C pointers to the entry (iget, idup and iput in fs.c,
\* with every way through the calls of sysfile.c).
THEOREM ReferencesAreCounted == Spec => []RefsCounted
<1>1. IInv => RefsCounted
  BY DEF IInv
<1> QED
  BY <1>1, Invariant, PTL

\* On the disk, and in what a crash goes back to, no name is without an inode
\* and no inode has fewer links than names (create, link and unlink in
\* sysfile.c, iput in fs.c).
THEOREM NamesStayLive == Spec => []NamesLive
<1>1. IInv => NamesLive
  <2> SUFFICES ASSUME IInv, NEW d \in {disk, saved}, NEW i \in Inum, Entries(d, i) > 0
               PROVE  d.type[i] # "free" /\ d.nlink[i] >= Entries(d, i)
    BY DEF NamesLive
  <2>1. PICK e \in Inum \X Name : d.dents[e[1]][e[2]] = i
    <3>1. CASE {e \in Inum \X Name : d.dents[e[1]][e[2]] = i} = {}
      BY <3>1, FS_EmptySet DEF Entries
    <3> QED
      BY <3>1
  <2>2. Tree(d)
    BY DEF IInv, Trees
  <2>3. d.type[i] # "free"
    <3>1. e[1] \in Inum /\ e[2] \in Name /\ d.dents[e[1]][e[2]] # NoInode
      BY <2>1, Consts
    <3>2. d.type[d.dents[e[1]][e[2]]] # "free"
      BY <2>2, <3>1 DEF Tree
    <3> QED
      BY <2>1, <3>2
  <2>4. /\ Entries(d, i) \in Nat /\ Cardinality(Kids(d, i)) \in Nat /\ Rooted(i) \in Nat /\ Owes(i) \in Nat
        /\ d.nlink[i] \in Nat
    BY TreeCounts DEF IInv, Types, Disk
  <2>5. CASE d = saved
    <3>1. d.nlink[i] >= Entries(d, i) + Cardinality(Kids(d, i)) + Rooted(i)
      BY <2>5 DEF IInv, Trees, Counted
    <3> QED
      BY <2>3, <2>4, <3>1
  <2>6. CASE d = disk
    <3>1. d.nlink[i] >= Entries(d, i) + Cardinality(Kids(d, i)) + Rooted(i) + Owes(i)
      BY <2>6 DEF IInv, Trees, CountedNow
    <3> QED
      BY <2>3, <2>4, <3>1
  <2> QED
    BY <2>5, <2>6
<1> QED
  BY <1>1, Invariant, PTL

-----------------------------------------------------------------------------
(* The calls are what FileStore promises of files and names.               *)
View == <<Files(disk), disk.dents, fd, <<Files(saved), saved.dents>>>>

LEMMA Unseen ==
  ASSUME disk'.type = disk.type, disk'.dents = disk.dents, saved' = saved, fd' = fd
  PROVE  UNCHANGED View
BY DEF View, Files

\* A disk but for the range of its link counts.
FilesOn(d) ==
  \E N : d \in [type : [Inum -> FileType], nlink : N, dents : [Inum -> [Name -> Inum \cup {NoInode}]]]

\* iupdate of a type that the disk has, and the write of an entry.
UpdateSeen(d, e) == FilesOn(e) /\ e.type = d.type /\ e.dents = d.dents

LEMMA UpdateUnseen ==
  ASSUME NEW d, FilesOn(d), NEW c, NEW i \in Inum, c[i].type = d.type[i]
  PROVE  UpdateSeen(d, Iupdate(d, c, i))
<1> DEFINE t == [d.type EXCEPT ![i] = c[i].type]
           n == [d.nlink EXCEPT ![i] = c[i].nlink]
<1>1. t = d.type /\ d.type \in [Inum -> FileType]
  BY DEF FilesOn
<1>2. Iupdate(d, c, i) = [d EXCEPT !.type = t, !.nlink = n]
  BY DEF Iupdate
<1> HIDE DEF t, n
<1>3. PICK N : d \in [type : [Inum -> FileType], nlink : N, dents : [Inum -> [Name -> Inum \cup {NoInode}]]]
  BY DEF FilesOn
<1>4. Iupdate(d, c, i) \in [type : [Inum -> FileType], nlink : N \cup {n}, dents : [Inum -> [Name -> Inum \cup {NoInode}]]]
  BY <1>1, <1>2, <1>3
<1>5. Iupdate(d, c, i).type = d.type /\ Iupdate(d, c, i).dents = d.dents
  BY <1>1, <1>2, <1>3
<1> QED
  BY <1>4, <1>5, Zenon DEF FilesOn, UpdateSeen

LEMMA EntrySeen ==
  ASSUME NEW d, FilesOn(d), NEW x \in Inum, NEW n \in Name, NEW v, NEW e, e = [d EXCEPT !.dents[x][n] = v]
  PROVE  e.type = d.type /\ e.dents = [d.dents EXCEPT ![x][n] = v]
<1> DEFINE t == [d.dents EXCEPT ![x][n] = v]
<1>1. e = [d EXCEPT !.dents = t]
  OBVIOUS
<1> HIDE DEF t
<1>2. [d EXCEPT !.dents = t].type = d.type /\ [d EXCEPT !.dents = t].dents = t
  BY DEF FilesOn
<1> QED
  BY <1>1, <1>2 DEF t

LEMMA AddLinksSeen ==
  ASSUME NEW c \in Cache, NEW i \in Inum, NEW n, NEW j \in Inum
  PROVE  AddLinks(c, i, n)[j].type = c[j].type
<1>1. c[i] \in CacheEntry
  BY DEF Cache
<1> DEFINE e == [c[i] EXCEPT !.nlink = @ + n]
<1>2. AddLinks(c, i, n) = [c EXCEPT ![i] = e]
  BY DEF AddLinks
<1>3. e.type = c[i].type
  BY <1>1 DEF CacheEntry
<1> HIDE DEF e
<1> QED
  BY <1>2, <1>3 DEF Cache

\* What a process has in its variables is there.
LEMMA InUseIs ==
  ASSUME IInv, NEW p \in Proc
  PROVE  /\ icache \in Cache /\ disk \in Disk
         /\ pc[p] \in {"create_new", "open", "opened", "link_old", "link_new", "link_bad", "unlink_ip", "unlinked"} =>
              /\ ip[p] \in Inum /\ disk.type[ip[p]] # "free"
              /\ Read(icache, ip[p]) \in Cache /\ Read(icache, ip[p])[ip[p]].type = disk.type[ip[p]]
         /\ pc[p] \in {"create", "create_new", "link_new", "unlink", "unlink_ip"} =>
              dp[p] \in Inum /\ disk.type[dp[p]] = "dir" /\ Entry(p) \in Name
<1>1. Types /\ Variables(p) /\ Calls(p) /\ Live(p)
  BY DEF IInv, Shape, InUse
<1>2. icache \in Cache /\ disk \in Disk
  BY <1>1 DEF Types
<1>3. ASSUME pc[p] \in {"create_new", "open", "opened", "link_old", "link_new", "link_bad", "unlink_ip", "unlinked"}
      PROVE  /\ ip[p] \in Inum /\ disk.type[ip[p]] # "free"
             /\ Read(icache, ip[p]) \in Cache /\ Read(icache, ip[p])[ip[p]].type = disk.type[ip[p]]
  <2>1. Phase(p) = pc[p] /\ Phase(p) \in WithIp /\ Phase(p) # "namex"
    BY <1>3 DEF Phase, Putting, WithIp, Linking
  <2>2. ip[p] \in Inum /\ disk.type[ip[p]] # "free"
    BY <1>1, <2>1 DEF Types, Variables, Live
  <2> QED
    BY <2>2, ReadHere DEF Uses
<1>4. ASSUME pc[p] \in {"create", "create_new", "link_new", "unlink", "unlink_ip"}
      PROVE  dp[p] \in Inum /\ disk.type[dp[p]] = "dir" /\ Entry(p) \in Name
  <2>1. Phase(p) = pc[p] /\ Phase(p) \in WithDp \ {"namex"}
    BY <1>4 DEF Phase, Putting, WithDp
  <2>2. dp[p] \in Inum /\ Entry(p) \in Name
    BY <2>1, EntryIs
  <2> QED
    BY <1>1, <2>1, <2>2 DEF Live
<1> QED
  BY <1>2, <1>3, <1>4

\* ialloc: a file that was free is made.
LEMMA CreateIsMake ==
  ASSUME IInv, NEW p \in Proc, Create(p)
  PROVE  Abstract!Next \/ UNCHANGED View
<1>1. CASE UNCHANGED disk
  BY <1>1, Unseen DEF Create
<1>2. CASE FreeInodes # {} /\ disk' = [disk EXCEPT !.type[Min(FreeInodes)] = NewType(p), !.nlink[Min(FreeInodes)] = 0]
  <2>1. PICK i \in Inum : i = Min(FreeInodes) /\ disk.type[i] = "free"
    BY <1>2, FirstIsFree
  <2>2. disk' = [disk EXCEPT !.type[i] = NewType(p), !.nlink[i] = 0]
    BY <1>2, <2>1
  <2>3. disk'.dents = disk.dents /\ disk'.type = [disk.type EXCEPT ![i] = NewType(p)]
    BY <2>2, InUseIs DEF Disk
  <2>4. NewType(p) # "free"
    BY DEF NewType
  <2>5. i \in Inum \ Files(disk) /\ Files(disk') = Files(disk) \cup {i}
    BY <2>1, <2>3, <2>4, InUseIs DEF Files, Disk
  <2>6. saved' = saved /\ fd' = fd
    BY Zenon DEF Create
  <2>7. Abstract!Make(i)
    BY <2>3, <2>5, <2>6 DEF Abstract!Make, Abstract!durable
  <2> QED
    BY <2>5, <2>7 DEF Abstract!Next
<1> QED
  BY <1>1, <1>2, Zenon DEF Create

\* A name is given to a file that is there.
LEMMA BindSeen ==
  ASSUME NEW p \in Proc, Existing(p) = NoInode, dp[p] \in Inum, disk.type[dp[p]] = "dir", Entry(p) \in Name,
         ip[p] \in Inum, disk.type[ip[p]] # "free",
         disk'.type = disk.type, disk'.dents = [disk.dents EXCEPT ![dp[p]][Entry(p)] = ip[p]],
         saved' = saved, fd' = fd
  PROVE  Abstract!Next
<1>1. dp[p] \in Files(disk) /\ ip[p] \in Files(disk) /\ Files(disk') = Files(disk)
  BY DEF Files
<1>2. Abstract!Bind(dp[p], Entry(p), ip[p])
  BY <1>1 DEF Abstract!Bind, Abstract!durable, Existing
<1> QED
  BY <1>1, <1>2 DEF Abstract!Next

\* dirlink in create.
LEMMA CreateNewIsBind ==
  ASSUME IInv, NEW p \in Proc, CreateNew(p)
  PROVE  Abstract!Next
<1>1. pc[p] = "create_new" /\ saved' = saved /\ fd' = fd
  BY Zenon DEF CreateNew, Ilock, At
<1>2. /\ icache \in Cache /\ disk \in Disk
      /\ ip[p] \in Inum /\ disk.type[ip[p]] # "free"
      /\ Read(icache, ip[p]) \in Cache /\ Read(icache, ip[p])[ip[p]].type = disk.type[ip[p]]
      /\ dp[p] \in Inum /\ disk.type[dp[p]] = "dir" /\ Entry(p) \in Name
  BY <1>1, InUseIs
<1>3. Existing(p) = NoInode /\ lock[dp[p]] = p /\ ip[p] # dp[p]
  <2>1. Phase(p) = "create_new" /\ Stays(p) /\ Locks
    BY <1>1 DEF Phase, Putting, IInv, InUse
  <2> QED
    BY <1>2, <2>1 DEF Stays, Locks, Holds, Apart
<1> DEFINE r == Read(icache, ip[p])
           a == AddLinks(r, ip[p], 1)
           c == IF a[ip[p]].type = "dir" THEN AddLinks(a, dp[p], 1) ELSE a
           e == Iupdate(disk, c, ip[p])
           f == Iupdate(e, c, dp[p])
<1>4. disk' = [f EXCEPT !.dents[dp[p]][Entry(p)] = ip[p]]
  BY Zenon DEF CreateNew
<1>5. r[dp[p]].type = disk.type[dp[p]]
  <2>1. icache[dp[p]].ref >= 1 /\ icache[dp[p]].valid /\ True(icache, disk)
    BY <1>2, <1>3, Consts, LockedHasRef DEF IInv, Cached
  <2>2. icache[dp[p]].type = disk.type[dp[p]]
    BY <1>2, <2>1 DEF True, Cache, CacheEntry
  <2>3. r[dp[p]] = icache[dp[p]]
    BY <1>2, <1>3, ReadIs
  <2> QED
    BY <2>2, <2>3
<1>6. a \in Cache /\ a[ip[p]].type = disk.type[ip[p]] /\ a[dp[p]].type = disk.type[dp[p]]
  <2>1. r \in Cache /\ r[ip[p]].nlink + 1 >= 0
    BY <1>2 DEF Cache, CacheEntry
  <2> HIDE DEF r
  <2>2. a \in Cache
    BY <1>2, <2>1, AddLinksIs
  <2>3. a[ip[p]].type = r[ip[p]].type /\ a[dp[p]].type = r[dp[p]].type
    BY <1>2, <2>1, AddLinksSeen
  <2> QED
    BY <1>2, <1>5, <2>2, <2>3 DEF r
<1> HIDE DEF a
<1>7. c[ip[p]].type = disk.type[ip[p]] /\ c[dp[p]].type = disk.type[dp[p]]
  BY <1>2, <1>6, AddLinksSeen
<1> HIDE DEF c
<1>8. FilesOn(disk)
  BY <1>2 DEF Disk, FilesOn
<1>9. UpdateSeen(disk, e)
  BY <1>2, <1>7, <1>8, UpdateUnseen
<1> HIDE DEF e
<1>10. UpdateSeen(e, f)
  BY <1>2, <1>7, <1>9, UpdateUnseen DEF UpdateSeen
<1> HIDE DEF f
<1>11. disk'.type = disk.type /\ disk'.dents = [disk.dents EXCEPT ![dp[p]][Entry(p)] = ip[p]]
  <2>1. FilesOn(f) /\ f.type = disk.type /\ f.dents = disk.dents
    BY <1>9, <1>10 DEF UpdateSeen
  <2> QED
    BY <1>2, <1>4, <2>1, EntrySeen
<1> QED
  BY <1>1, <1>2, <1>3, <1>11, BindSeen

\* writei in unlink.
LEMMA UnlinkIpIsUnbind ==
  ASSUME IInv, NEW p \in Proc, UnlinkIp(p)
  PROVE  Abstract!Next \/ UNCHANGED View
<1>1. pc[p] = "unlink_ip" /\ saved' = saved /\ fd' = fd
  BY Zenon DEF UnlinkIp, Ilock, At
<1>2. CASE disk' = disk
  BY <1>1, <1>2, Unseen
<1>3. CASE disk' # disk
  <2>1. /\ icache \in Cache /\ disk \in Disk
        /\ ip[p] \in Inum /\ Read(icache, ip[p]) \in Cache
        /\ dp[p] \in Inum /\ disk.type[dp[p]] = "dir" /\ Entry(p) \in Name
    BY <1>1, InUseIs
  <2>2. Existing(p) = ip[p] /\ lock[dp[p]] = p /\ ip[p] # dp[p]
    <3>1. Phase(p) = "unlink_ip" /\ Stays(p) /\ Locks
      BY <1>1 DEF Phase, Putting, IInv, InUse
    <3> QED
      BY <2>1, <3>1 DEF Stays, Locks, Holds, Apart
  <2> DEFINE r == Read(icache, ip[p])
             c == IF r[ip[p]].type = "dir" THEN AddLinks(r, dp[p], -1) ELSE r
             f == Iupdate(disk, c, dp[p])
  <2>3. disk' = [f EXCEPT !.dents[dp[p]][Entry(p)] = NoInode]
    BY <1>3, Zenon DEF UnlinkIp
  <2>4. r[dp[p]].type = disk.type[dp[p]]
    <3>1. icache[dp[p]].ref >= 1 /\ icache[dp[p]].valid /\ True(icache, disk)
      BY <2>1, <2>2, Consts, LockedHasRef DEF IInv, Cached
    <3>2. icache[dp[p]].type = disk.type[dp[p]]
      BY <2>1, <3>1 DEF True, Cache, CacheEntry
    <3>3. r[dp[p]] = icache[dp[p]]
      BY <2>1, <2>2, ReadIs
    <3> QED
      BY <3>2, <3>3
  <2>5. r \in Cache
    BY <2>1
  <2> HIDE DEF r
  <2>6. c[dp[p]].type = disk.type[dp[p]]
    BY <2>1, <2>4, <2>5, AddLinksSeen
  <2> HIDE DEF c
  <2>7. FilesOn(disk)
    BY <2>1 DEF Disk, FilesOn
  <2>8. UpdateSeen(disk, f)
    BY <2>1, <2>6, <2>7, UpdateUnseen
  <2> HIDE DEF f
  <2>9. disk'.type = disk.type /\ disk'.dents = [disk.dents EXCEPT ![dp[p]][Entry(p)] = NoInode]
    <3>1. FilesOn(f) /\ f.type = disk.type /\ f.dents = disk.dents
      BY <2>8 DEF UpdateSeen
    <3> QED
      BY <2>1, <2>3, <3>1, EntrySeen
  <2>10. disk.dents[dp[p]][Entry(p)] # NoInode
    BY <2>1, <2>2, Consts DEF Existing
  <2>11. dp[p] \in Files(disk)
    BY <2>1 DEF Files
  <2>12. Files(disk') = Files(disk)
    BY <2>9 DEF Files
  <2>13. Abstract!Unbind(dp[p], Entry(p))
    BY <1>1, <2>9, <2>10, <2>12 DEF Abstract!Unbind, Abstract!durable
  <2> QED
    BY <2>1, <2>11, <2>13 DEF Abstract!Next
<1> QED
  BY <1>2, <1>3

\* dirlink in link.
LEMMA LinkNewIsBind ==
  ASSUME IInv, NEW p \in Proc, LinkNew(p)
  PROVE  Abstract!Next \/ UNCHANGED View
<1>1. pc[p] = "link_new" /\ saved' = saved /\ fd' = fd
  BY Zenon DEF LinkNew, Ilock, At
<1>2. CASE Existing(p) = NoInode
  <2>1. /\ disk \in Disk /\ ip[p] \in Inum /\ disk.type[ip[p]] # "free"
        /\ dp[p] \in Inum /\ disk.type[dp[p]] = "dir" /\ Entry(p) \in Name
    BY <1>1, InUseIs
  <2>2. disk' = [disk EXCEPT !.dents[dp[p]][Entry(p)] = ip[p]]
    BY <1>2, Zenon DEF LinkNew
  <2>3. FilesOn(disk)
    BY <2>1 DEF Disk, FilesOn
  <2>4. disk'.type = disk.type /\ disk'.dents = [disk.dents EXCEPT ![dp[p]][Entry(p)] = ip[p]]
    BY <2>1, <2>2, <2>3, EntrySeen
  <2> QED
    BY <1>1, <1>2, <2>1, <2>4, BindSeen
<1>3. CASE Existing(p) # NoInode
  <2>1. disk' = disk
    BY <1>3, Zenon DEF LinkNew
  <2> QED
    BY <1>1, <2>1, Unseen
<1> QED
  BY <1>2, <1>3

\* The iupdates of link and unlink.
LEMMA CountsUnseen ==
  ASSUME IInv, NEW p \in Proc, LinkOld(p) \/ LinkBad(p) \/ Unlinked(p)
  PROVE  UNCHANGED View
<1>1. /\ saved' = saved /\ fd' = fd
      /\ pc[p] \in {"link_old", "link_bad", "unlinked"}
  BY DEF LinkOld, LinkBad, Unlinked, Ilock, At
<1>2. /\ icache \in Cache /\ disk \in Disk /\ ip[p] \in Inum /\ disk.type[ip[p]] # "free"
      /\ Read(icache, ip[p]) \in Cache /\ Read(icache, ip[p])[ip[p]].type = disk.type[ip[p]]
  BY <1>1, InUseIs
<1>3. FilesOn(disk)
  BY <1>2 DEF Disk, FilesOn
<1>4. ASSUME NEW c \in Cache, c[ip[p]].type = disk.type[ip[p]], NEW n,
             disk' = Iupdate(disk, AddLinks(c, ip[p], n), ip[p])
      PROVE  UNCHANGED View
  <2>1. AddLinks(c, ip[p], n)[ip[p]].type = disk.type[ip[p]]
    BY <1>2, <1>4, AddLinksSeen
  <2>2. UpdateSeen(disk, disk')
    BY <1>2, <1>3, <1>4, <2>1, UpdateUnseen
  <2> QED
    BY <1>1, <2>2, Unseen DEF UpdateSeen
<1>5. CASE disk' = disk
  BY <1>1, <1>5, Unseen
<1>6. CASE disk' = Iupdate(disk, AddLinks(Read(icache, ip[p]), ip[p], 1), ip[p])
  BY <1>2, <1>4, <1>6
<1>7. CASE disk' = Iupdate(disk, AddLinks(Read(icache, ip[p]), ip[p], -1), ip[p])
  BY <1>2, <1>4, <1>7
<1>8. CASE Unlinked(p)
  <2>1. disk' = Iupdate(disk, AddLinks(icache, ip[p], -1), ip[p]) /\ pc[p] = "unlinked"
    BY <1>8, Zenon DEF Unlinked, At
  <2>2. lock[ip[p]] = p
    BY <1>2, <2>1 DEF IInv, Locks, Holds, Phase, Putting
  <2>3. icache[ip[p]].ref >= 1 /\ icache[ip[p]].valid /\ True(icache, disk)
    BY <1>2, <2>2, Consts, LockedHasRef DEF IInv, Cached
  <2>4. icache[ip[p]].type = disk.type[ip[p]]
    BY <1>2, <2>3 DEF True, Cache, CacheEntry
  <2> QED
    BY <1>2, <1>4, <2>1, <2>4
<1>9. CASE LinkOld(p)
  BY <1>5, <1>6, <1>9, Zenon DEF LinkOld
<1>10. CASE LinkBad(p)
  BY <1>7, <1>10, Zenon DEF LinkBad, TakenBack
<1> QED
  BY <1>8, <1>9, <1>10

\* itrunc: nothing names the inode, and nobody has it open.
LEMMA ItruncIsFree ==
  ASSUME IInv, NEW p \in Proc, Itrunc(p)
  PROVE  Abstract!Next
<1> DEFINE i == put[p]
<1>1. /\ pc[p] = "itrunc" /\ saved' = saved /\ fd' = fd
      /\ disk' = [disk EXCEPT !.type[i] = "free", !.dents[i] = Empty]
  BY Zenon DEF Itrunc, At
<1>2. /\ i \in Inum /\ disk.type[i] # "free" /\ fd[p] # i
      /\ \A q \in Proc : q # p => ~Uses(q, i)
      /\ \A d \in Inum, n \in Name : disk.dents[d][n] # i
  BY <1>1, TruncatedAlone
<1> HIDE DEF i
<1>3. disk \in Disk
  BY InUseIs
<1>4. disk'.type = [disk.type EXCEPT ![i] = "free"] /\ disk'.dents = [disk.dents EXCEPT ![i] = Empty]
  BY <1>1, <1>3 DEF Disk
<1>5. i \in Files(disk) /\ Files(disk') = Files(disk) \ {i}
  BY <1>2, <1>3, <1>4 DEF Files, Disk
<1>6. \A q \in Proc : fd[q] # i
  BY <1>2 DEF Uses
<1>7. \A d \in Files(disk), n \in Name : disk.dents[d][n] # i
  BY <1>2 DEF Files
<1>8. Abstract!Free(i)
  BY <1>1, <1>4, <1>5, <1>6, <1>7 DEF Abstract!Free, Abstract!durable, Abstract!NoNames, Empty
<1> QED
  BY <1>5, <1>8 DEF Abstract!Next

\* open, its file got, and what remains of it.
LEMMA OpenedIsOpen ==
  ASSUME IInv, NEW p \in Proc, Opened(p)
  PROVE  Abstract!Next \/ UNCHANGED View
<1>1. pc[p] = "opened" /\ disk' = disk /\ saved' = saved
  BY Zenon DEF Opened, At
<1>2. CASE fd' = fd
  BY <1>1, <1>2, Unseen
<1>3. CASE call[p].name # "mkdir" /\ fd' = [fd EXCEPT ![p] = ip[p]]
  <2>1. ip[p] \in Files(disk)
    BY <1>1, InUseIs DEF Files
  <2>2. Phase(p) = "opened" /\ Calls(p)
    BY <1>1 DEF Phase, Putting, IInv, Shape
  <2>3. fd[p] = NoInode
    BY <1>3, <2>2 DEF Calls
  <2>4. Abstract!Open(p, ip[p])
    BY <1>1, <1>3, <2>3 DEF Abstract!Open, Abstract!durable
  <2> QED
    BY <2>1, <2>4 DEF Abstract!Next
<1> QED
  BY <1>2, <1>3, Zenon DEF Opened

\* A file that has a name or is open stays, and a crash goes back to a state
\* in which that was so: the calls of fs.c and sysfile.c are FileStore's.
THEOREM Implementation == Spec => ImplementsFileStore
<1>1. Init => Abstract!Init
  <2> SUFFICES ASSUME Init PROVE Abstract!Init
    OBVIOUS
  <2>1. Files(disk) = {ROOTINO} /\ ROOTINO \in Inum
    BY Consts DEF Init, Files
  <2>2. disk.dents = [d \in Inum |-> Abstract!NoNames]
    BY DEF Init, Empty, Abstract!NoNames
  <2> QED
    BY <2>1, <2>2 DEF Init, Nowhere, Abstract!Init
<1>2. IInv /\ [Next]_vars => [Abstract!Next]_View
  <2> SUFFICES ASSUME IInv, [Next]_vars PROVE Abstract!Next \/ UNCHANGED View
    OBVIOUS
  <2>1. ASSUME NEW p \in Proc, Begin(p) \/ FileIO(p) \/ IputTest(p) \/ IputDrop(p) \/ Namex(p) \/ CreateFound(p)
               \/ OpenFound(p) \/ LinkExists(p) \/ Linked(p) \/ Unlink(p) \/ UnlinkBad(p)
        PROVE  UNCHANGED View
    <3>1. disk' = disk /\ saved' = saved /\ fd' = fd
      BY <2>1, Zenon DEF Begin, FileIO, IputTest, IputDrop, Namex, CreateFound, OpenFound, LinkExists, Linked, Unlink, UnlinkBad, data
    <3> QED
      BY <3>1, Unseen
  <2>2. ASSUME NEW p \in Proc, Close(p)
        PROVE  Abstract!Next
    <3>1. Abstract!Close(p)
      BY <2>2 DEF Close, data, Abstract!Close, Abstract!durable
    <3> QED
      BY <3>1 DEF Abstract!Next
  <2>3. ASSUME NEW p \in Proc, EndOp(p)
        PROVE  Abstract!Next \/ UNCHANGED View
    <3>1. disk' = disk /\ fd' = fd /\ (saved' = disk \/ saved' = saved)
      BY <2>3 DEF EndOp
    <3>2. CASE saved' = saved
      BY <3>1, <3>2, Unseen
    <3>3. CASE saved' = disk
      BY <3>1, <3>3 DEF Abstract!Next, Abstract!Commit
    <3> QED
      BY <3>1, <3>2, <3>3
  <2>4. ASSUME NEW p \in Proc, Iput(p)
        PROVE  Abstract!Next \/ UNCHANGED View
    BY <2>1, <2>4, ItruncIsFree DEF Iput
  <2>5. ASSUME NEW p \in Proc, Opens(p)
        PROVE  Abstract!Next \/ UNCHANGED View
    BY <2>1, <2>5, CreateIsMake, CreateNewIsBind, OpenedIsOpen DEF Opens
  <2>6. ASSUME NEW p \in Proc, Links(p)
        PROVE  Abstract!Next \/ UNCHANGED View
    BY <2>1, <2>6, LinkNewIsBind, CountsUnseen DEF Links
  <2>7. ASSUME NEW p \in Proc, Unlinks(p)
        PROVE  Abstract!Next \/ UNCHANGED View
    BY <2>1, <2>7, UnlinkIpIsUnbind, CountsUnseen DEF Unlinks
  <2>8. CASE Crash
    BY <2>8 DEF Crash, Nowhere, Abstract!Next, Abstract!Crash, Abstract!durable
  <2>9. CASE UNCHANGED vars
    BY <2>9, Unseen DEF vars, data
  <2> QED
    BY <2>1, <2>2, <2>3, <2>4, <2>5, <2>6, <2>7, <2>8, <2>9 DEF Next
<1>3. [Abstract!Next]_View => [Abstract!Next]_<<Files(disk), disk.dents, fd, <<Files(saved), saved.dents>>>>
  BY DEF View
<1> QED
  BY <1>1, <1>2, <1>3, Invariant, PTL DEF Spec, ImplementsFileStore, Abstract!Spec, Abstract!vars, Abstract!durable
====
