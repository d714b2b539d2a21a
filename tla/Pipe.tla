-------------------------------- MODULE Pipe --------------------------------
(***************************************************************************)
(* The pipes of OS-lab-xv6-lock/pipe.c: a circular buffer with two         *)
(* counters that only grow (and wrap), under the pipe's spin lock.         *)
(* Readers sleep while it is empty, writers while it is full.              *)
(*                                                                         *)
(* sleep() and wakeup() are one step each, as ptable.lock makes them; but  *)
(* kill() does not take the pipe's lock, so the test of killed and the     *)
(* sleep that follows it are two steps.                                    *)
(***************************************************************************)
EXTENDS Integers, Sequences, FiniteSets

CONSTANTS
  Reader,    \* the processes that have the read end ...
  Writer,    \* ... and those that have the write end of the pipe
  Byte,      \* what is written
  Nothing,   \* what a reader has before its first byte
  Free,      \* the holder of a free spin lock
  PIPESIZE,  \* the size of the buffer
  Uint,      \* the modulus of the counters, 2^32 in the kernel
  MaxN,      \* the largest n of a read or a write
  MayKill    \* may processes be killed?

ASSUME PipeAssumption ==
  /\ Reader \cap Writer = {}
  /\ Free \notin Reader \cup Writer
  /\ PIPESIZE \in Nat \ {0}
  /\ Uint \in Nat /\ Uint > PIPESIZE /\ Uint % PIPESIZE = 0
  /\ MaxN \in Nat /\ Byte # {}
  /\ MayKill \in BOOLEAN

Proc == Reader \cup Writer

VARIABLES
  data,       \* p->data
  nread,      \* p->nread
  nwrite,     \* p->nwrite
  readopen,   \* p->readopen
  writeopen,  \* p->writeopen
  freed,      \* kfree has taken the pipe's page
  lock,       \* the process that holds p->lock
  open,       \* the processes that still have their end open
  pc,         \* where each process is
  n,          \* the n of its call, 0 outside one
  i,          \* its loop variable
  ret,        \* what its last call returned
  got,        \* the last byte it read
  killed      \* p->killed

ends == <<readopen, writeopen, freed, open>>
buffer == <<data, nread, nwrite>>
vars == <<data, nread, nwrite, readopen, writeopen, freed, lock, open, pc, n, i, ret, got, killed>>

\* pipealloc, and the forks that share the ends.
Init ==
  /\ data = [k \in 0..PIPESIZE - 1 |-> CHOOSE b \in Byte : TRUE]
  /\ nread = 0
  /\ nwrite = 0
  /\ readopen = TRUE
  /\ writeopen = TRUE
  /\ freed = FALSE
  /\ lock = Free
  /\ open = Proc
  /\ pc = [p \in Proc |-> "out"]
  /\ n = [p \in Proc |-> 0]
  /\ i = [p \in Proc |-> 0]
  /\ ret = [p \in Proc |-> "none"]
  /\ got = [r \in Reader |-> Nothing]
  /\ killed = [p \in Proc |-> FALSE]

Empty == nread = nwrite

\* A test for fullness that forgets that the counters wrap.
FullUnwrapped == nwrite = nread + PIPESIZE

Full == nwrite = (nread + PIPESIZE) % Uint

Goto(p, there) == pc' = [pc EXCEPT ![p] = there]

\* A wakeup that is forgotten.
WakeNobody(S, p, there) == [pc EXCEPT ![p] = there]

\* wakeup() of the sleepers among S by p, which goes on to "there".
Wakeup(S, p, there) ==
  [q \in Proc |->
    IF q = p THEN there ELSE IF q \in S /\ pc[q] = "asleep" THEN "woken" ELSE pc[q]]

\* p's call returns r, and its arguments are gone.
Returns(p, r) ==
  /\ lock' = Free
  /\ ret' = [ret EXCEPT ![p] = r]
  /\ n' = [n EXCEPT ![p] = 0]
  /\ i' = [i EXCEPT ![p] = 0]

\* read or write of m bytes, which may be none; a killed process makes no more calls.
Call(p, m) ==
  /\ pc[p] = "out"
  /\ p \in open
  /\ ~killed[p]
  /\ n' = [n EXCEPT ![p] = m]
  /\ ret' = [ret EXCEPT ![p] = "none"]
  /\ Goto(p, "lock")
  /\ UNCHANGED <<buffer, ends, lock, i, got, killed>>

Lock(p) ==
  /\ pc[p] \in {"lock", "woken"}
  /\ lock = Free
  /\ lock' = p
  /\ Goto(p, "test")
  /\ UNCHANGED <<buffer, ends, n, i, ret, got, killed>>

\* sleep() releases the pipe's lock; on return Lock takes it again.
Sleep(p) ==
  /\ pc[p] = "sleep"
  /\ lock' = Free
  /\ Goto(p, "asleep")
  /\ UNCHANGED <<buffer, ends, n, i, ret, got, killed>>

-----------------------------------------------------------------------------
Succ(c) == (c + 1) % Uint

\* pipewrite stores its bytes one by one,
Put(w, b) ==
  /\ pc[w] = "test"
  /\ i[w] < n[w]
  /\ ~Full
  /\ data' = [data EXCEPT ![nwrite % PIPESIZE] = b]
  /\ nwrite' = Succ(nwrite)
  /\ i' = [i EXCEPT ![w] = @ + 1]
  /\ UNCHANGED <<nread, ends, lock, pc, n, ret, got, killed>>

\* wakes the readers and sleeps while the buffer is full,
WriteWaits(w) ==
  /\ pc[w] = "test"
  /\ i[w] < n[w]
  /\ Full
  /\ readopen /\ ~killed[w]
  /\ pc' = Wakeup(Reader, w, "sleep")
  /\ UNCHANGED <<buffer, ends, lock, n, i, ret, got, killed>>

\* gives up when nobody can read any more or it is killed,
WriteFails(w) ==
  /\ pc[w] = "test"
  /\ i[w] < n[w]
  /\ Full
  /\ ~readopen \/ killed[w]
  /\ Returns(w, "error")
  /\ Goto(w, "out")
  /\ UNCHANGED <<buffer, ends, got, killed>>

\* and wakes the readers when it has stored everything.
WriteEnds(w) ==
  /\ pc[w] = "test"
  /\ i[w] = n[w]
  /\ Returns(w, "ok")
  /\ pc' = Wakeup(Reader, w, "out")
  /\ UNCHANGED <<buffer, ends, got, killed>>

-----------------------------------------------------------------------------
\* piperead waits while the buffer is empty and may still be filled.
MustWait == Empty /\ writeopen

ReadWaits(r) ==
  /\ pc[r] = "test"
  /\ MustWait
  /\ ~killed[r]
  /\ Goto(r, "sleep")
  /\ UNCHANGED <<buffer, ends, lock, n, i, ret, got, killed>>

ReadFails(r) ==
  /\ pc[r] = "test"
  /\ MustWait
  /\ killed[r]
  /\ Returns(r, "error")
  /\ Goto(r, "out")
  /\ UNCHANGED <<buffer, ends, got, killed>>

ReadGoesOn(r) ==
  /\ pc[r] = "test"
  /\ ~MustWait
  /\ Goto(r, "copy")
  /\ UNCHANGED <<buffer, ends, lock, n, i, ret, got, killed>>

\* It copies what is there, at most n bytes,
Get(r) ==
  /\ pc[r] = "copy"
  /\ i[r] < n[r]
  /\ ~Empty
  /\ got' = [got EXCEPT ![r] = data[nread % PIPESIZE]]
  /\ nread' = Succ(nread)
  /\ i' = [i EXCEPT ![r] = @ + 1]
  /\ UNCHANGED <<data, nwrite, ends, lock, pc, n, ret, killed>>

\* and wakes the writers.  Nothing, when some bytes were asked for, is the
\* end of the file.
ReadEnds(r) ==
  /\ pc[r] = "copy"
  /\ i[r] = n[r] \/ Empty
  /\ Returns(r, IF i[r] = 0 /\ n[r] > 0 THEN "eof" ELSE "ok")
  /\ pc' = Wakeup(Writer, r, "out")
  /\ UNCHANGED <<buffer, ends, got, killed>>

-----------------------------------------------------------------------------
\* Freeing the pipe with the first end that is closed.
EitherClosed(r, w) == ~r \/ ~w

BothClosed(r, w) == ~r /\ ~w

\* close, or exit of a killed process; the last file that refers to an end
\* of the pipe calls pipeclose.
CloseRead(r) ==
  /\ pc[r] = "out"
  /\ r \in open
  /\ lock = Free
  /\ open' = open \ {r}
  /\ readopen' = (open' \cap Reader # {})
  /\ freed' = BothClosed(readopen', writeopen)
  /\ pc' = IF readopen' THEN pc ELSE Wakeup(Writer, r, "out")
  /\ UNCHANGED <<buffer, writeopen, lock, n, i, ret, got, killed>>

CloseWrite(w) ==
  /\ pc[w] = "out"
  /\ w \in open
  /\ lock = Free
  /\ open' = open \ {w}
  /\ writeopen' = (open' \cap Writer # {})
  /\ freed' = BothClosed(readopen, writeopen')
  /\ pc' = IF writeopen' THEN pc ELSE Wakeup(Reader, w, "out")
  /\ UNCHANGED <<buffer, readopen, lock, n, i, ret, got, killed>>

Kill(p) ==
  /\ MayKill
  /\ ~killed[p]
  /\ killed' = [killed EXCEPT ![p] = TRUE]
  /\ Goto(p, IF pc[p] = "asleep" THEN "woken" ELSE pc[p])
  /\ UNCHANGED <<buffer, ends, lock, n, i, ret, got>>

Write(w) ==
  (\E b \in Byte : Put(w, b)) \/ WriteWaits(w) \/ WriteFails(w) \/ WriteEnds(w)
Read(r) ==
  ReadWaits(r) \/ ReadFails(r) \/ ReadGoesOn(r) \/ Get(r) \/ ReadEnds(r)

Inside(p) == Sleep(p) \/ (p \in Writer /\ Write(p)) \/ (p \in Reader /\ Read(p))

Next ==
  \/ \E p \in Proc :
       Lock(p) \/ Inside(p) \/ Kill(p) \/ \E m \in 0..MaxN : Call(p, m)
  \/ \E r \in Reader : CloseRead(r)
  \/ \E w \in Writer : CloseWrite(w)

Spec == Init /\ [][Next]_vars

-----------------------------------------------------------------------------
\* Each field has its type, and the lock belongs to whoever is in a critical
\* section.  A read that asks for bytes returns 0 only when every byte was
\* read and none can follow; the page is freed only when nobody has an end open, and so nobody
\* is or comes into a call.
TypeOK ==
  /\ data \in [0..PIPESIZE - 1 -> Byte]
  /\ nread \in 0..Uint - 1 /\ nwrite \in 0..Uint - 1
  /\ (nwrite - nread) % Uint <= PIPESIZE
  /\ readopen \in BOOLEAN /\ writeopen \in BOOLEAN /\ freed \in BOOLEAN
  /\ lock \in Proc \cup {Free}
  /\ \A p \in Proc : lock = p <=> pc[p] \in {"test", "sleep", "copy"}
  /\ open \subseteq Proc
  /\ pc \in [Proc -> {"out", "lock", "test", "copy", "sleep", "asleep", "woken"}]
  /\ n \in [Proc -> 0..MaxN] /\ i \in [Proc -> 0..MaxN]
  /\ ret \in [Proc -> {"none", "ok", "error", "eof"}]
  /\ got \in [Reader -> Byte \cup {Nothing}]
  /\ killed \in [Proc -> BOOLEAN]
  /\ \A r \in Reader : ret[r] = "eof" => Empty /\ ~writeopen
  /\ freed => open = {} /\ \A p \in Proc : pc[p] = "out"

\* The bytes in the buffer, across the wrap of the counters.
Contents ==
  [k \in 1..(nwrite - nread) % Uint |-> data[(nread + k - 1) % PIPESIZE]]

\* The pipe is a bounded first-in first-out channel: no byte is lost,
\* repeated or overtaken, whoever sleeps, is killed or closes an end.
Abstract == INSTANCE Channel WITH chan <- Contents, Capacity <- PIPESIZE
ImplementsChannel == Abstract!Spec

\* Nobody sleeps through what it waits for: a sleeping reader has nothing to
\* read and somebody may still write, a sleeping writer has no room and
\* somebody may still read, unless whoever changed that has not finished.
\* The exception is the error return of pipewrite, which calls no wakeup: a
\* writer killed when it has filled the buffer leaves the readers asleep, and
\* the readers still asleep when one of them has read.
NoLostWakeup ==
  lock = Free =>
    /\ (\E r \in Reader : pc[r] = "asleep") =>
         writeopen /\ (Empty \/ \E w \in Writer : killed[w])
    /\ (\E w \in Writer : pc[w] = "asleep") => Full /\ readopen
=============================================================================
