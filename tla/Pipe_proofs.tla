---------------------------- MODULE Pipe_proofs ----------------------------
(***************************************************************************)
(* The safety of the pipes, for any number of readers and writers, any     *)
(* size of the buffer and any word that it divides; below, that of the     *)
(* file server's connections.                                              *)
(*                                                                         *)
(* NoLostWakeup speaks of a free lock only.  Inductive is what a process   *)
(* in its critical section still owes to the sleepers: a writer in "test"  *)
(* wakes the readers before it lets go of the lock, unless it is killed; a *)
(* reader in "copy" wakes the writers in any case; and a process in        *)
(* "sleep" has the lock since it saw the reason to sleep.                  *)
(***************************************************************************)
EXTENDS Pipe, Sockets, SequenceTheorems, WellFoundedInduction, TLAPS

\* The remainders that occur with counters that wrap once at most.
LEMMA Wraps ==
  ASSUME NEW m \in Nat, m > 0, NEW x \in Int, -m <= x, x < 2 * m
  PROVE  x % m = IF x < 0 THEN x + m ELSE IF x < m THEN x ELSE x - m
<1>1. x % m \in Int /\ x \div m \in Int /\ 0 <= x % m /\ x % m < m
  OBVIOUS
<1>2. x = m * (x \div m) + (x % m)
  BY Z3
<1>3. PICK q \in Int, r \in Int : q = x \div m /\ r = x % m
  BY <1>1
<1>4. x = m * q + r /\ 0 <= r /\ r < m
  BY <1>1, <1>2, <1>3
<1>5. CASE x < 0
  <2>1. q = -1
    BY <1>4, <1>5
  <2> QED
    BY <1>3, <1>4, <1>5, <2>1
<1>6. CASE 0 <= x /\ x < m
  <2>1. q = 0
    BY <1>4, <1>6
  <2> QED
    BY <1>3, <1>4, <1>6, <2>1
<1>7. CASE m <= x
  <2>1. q = 1
    BY <1>4, <1>7
  <2> QED
    BY <1>3, <1>4, <1>7, <2>1
<1> QED
  BY <1>5, <1>6, <1>7

Word == 0..Uint - 1
Count(w, r) == (w - r) % Uint

\* The number of bytes in the buffer, by which of the counters has wrapped.
LEMMA CountIs ==
  ASSUME NEW w \in Word, NEW r \in Word
  PROVE  Count(w, r) = IF w >= r THEN w - r ELSE w - r + Uint
<1>1. Uint \in Nat /\ Uint > 0
  BY PipeAssumption DEF PipeAssumption
<1>2. PICK x \in Int : x = w - r
  BY <1>1 DEF Word
<1>3. -Uint <= x /\ x < 2 * Uint
  BY <1>1, <1>2 DEF Word
<1>4. x % Uint = IF x < 0 THEN x + Uint ELSE IF x < Uint THEN x ELSE x - Uint
  BY <1>1, <1>3, Wraps
<1> QED
  BY <1>1, <1>2, <1>4 DEF Count, Word

\* The next value of a counter.
LEMMA SuccIs ==
  ASSUME NEW c \in Word
  PROVE  Succ(c) \in Word /\ Succ(c) = IF c + 1 < Uint THEN c + 1 ELSE 0
<1>1. Uint \in Nat /\ Uint > 1
  BY PipeAssumption DEF PipeAssumption
<1>2. PICK x \in Int : x = c + 1
  BY <1>1 DEF Word
<1>3. x % Uint = IF x < 0 THEN x + Uint ELSE IF x < Uint THEN x ELSE x - Uint
  BY <1>1, <1>2, Wraps DEF Word
<1> QED
  BY <1>1, <1>2, <1>3 DEF Succ, Word

\* pipewrite's test for a full buffer.
LEMMA FullIs ==
  ASSUME NEW r \in Word
  PROVE  /\ (r + PIPESIZE) % Uint \in Word
         /\ (r + PIPESIZE) % Uint = IF r + PIPESIZE < Uint THEN r + PIPESIZE ELSE r + PIPESIZE - Uint
<1>1. Uint \in Nat /\ PIPESIZE \in Nat /\ Uint > PIPESIZE
  BY PipeAssumption DEF PipeAssumption
<1>2. PICK x \in Int : x = r + PIPESIZE
  BY <1>1 DEF Word
<1>3. x % Uint = IF x < 0 THEN x + Uint ELSE IF x < Uint THEN x ELSE x - Uint
  BY <1>1, <1>2, Wraps DEF Word
<1> QED
  BY <1>1, <1>2, <1>3 DEF Word

\* A byte that is stored while the buffer is not full leaves it within its
\* size,
LEMMA PutFits ==
  ASSUME NEW w \in Word, NEW r \in Word, Count(w, r) <= PIPESIZE,
         w # (r + PIPESIZE) % Uint
  PROVE  Succ(w) \in Word /\ Count(Succ(w), r) <= PIPESIZE /\ Succ(w) # r
<1>1. Uint \in Nat /\ PIPESIZE \in Nat /\ Uint > PIPESIZE
  BY PipeAssumption DEF PipeAssumption
<1>2. PICK v \in Word : v = Succ(w) /\ v = IF w + 1 < Uint THEN w + 1 ELSE 0
  BY SuccIs
<1>3. Count(w, r) = IF w >= r THEN w - r ELSE w - r + Uint
  BY CountIs
<1>4. Count(v, r) = IF v >= r THEN v - r ELSE v - r + Uint
  BY CountIs
<1>5. w # IF r + PIPESIZE < Uint THEN r + PIPESIZE ELSE r + PIPESIZE - Uint
  BY FullIs
<1>6. Count(v, r) <= PIPESIZE /\ v # r
  BY <1>1, <1>2, <1>3, <1>4, <1>5 DEF Word
<1> QED
  BY <1>2, <1>6

\* and so does one that is taken while it is not empty.
LEMMA GetFits ==
  ASSUME NEW w \in Word, NEW r \in Word, Count(w, r) <= PIPESIZE, w # r
  PROVE  Succ(r) \in Word /\ Count(w, Succ(r)) <= PIPESIZE
<1>1. Uint \in Nat /\ PIPESIZE \in Nat /\ Uint > PIPESIZE
  BY PipeAssumption DEF PipeAssumption
<1>2. PICK v \in Word : v = Succ(r) /\ v = IF r + 1 < Uint THEN r + 1 ELSE 0
  BY SuccIs
<1>3. Count(w, r) = IF w >= r THEN w - r ELSE w - r + Uint
  BY CountIs
<1>4. Count(w, v) = IF w >= v THEN w - v ELSE w - v + Uint
  BY CountIs
<1>5. Count(w, v) <= PIPESIZE
  BY <1>1, <1>2, <1>3, <1>4 DEF Word
<1> QED
  BY <1>2, <1>5

-----------------------------------------------------------------------------
\* An end that somebody has open is open, and only those are in a call.
Ends ==
  /\ open \cap Reader # {} => readopen
  /\ open \cap Writer # {} => writeopen
  /\ \A p \in Proc : pc[p] # "out" => p \in open

\* A call does no more than it was asked for, and a reader that has found
\* nothing to copy found the write end closed.
Progress ==
  /\ \A p \in Proc : i[p] <= n[p] /\ (pc[p] = "out" => i[p] = 0)
  /\ \A w \in Writer : pc[w] # "copy"
  /\ \A r \in Reader : pc[r] = "copy" /\ Empty /\ i[r] = 0 => ~writeopen

\* Whoever sleeps, or has decided to, has a reason or will be woken.
ReadersSleep ==
  /\ \A r \in Reader : pc[r] = "sleep" => Empty /\ writeopen
  /\ \A r \in Reader : pc[r] = "asleep" =>
       writeopen /\ (Empty \/ \E w \in Writer : killed[w] \/ pc[w] = "test")
WritersSleep ==
  /\ \A w \in Writer : pc[w] = "sleep" => Full /\ readopen
  /\ \A w \in Writer : pc[w] = "asleep" =>
       readopen /\ (Full \/ \E r \in Reader : pc[r] = "copy")

IInv == TypeOK /\ Ends /\ Progress /\ ReadersSleep /\ WritersSleep

\* A new pipe is empty and everybody has its end.
LEMMA InitIInv == Init => IInv
<1> SUFFICES ASSUME Init PROVE IInv
  OBVIOUS
<1> USE PipeAssumption DEF PipeAssumption, Init
<1>1. (CHOOSE b \in Byte : TRUE) \in Byte
  OBVIOUS
<1>2. Count(0, 0) = 0 /\ 0 \in Word
  <2>1. 0 \in Word
    BY DEF Word
  <2>2. Count(0, 0) = 0
    BY <2>1, CountIs
  <2> QED
    BY <2>1, <2>2
<1>3. TypeOK
  <2>1. data \in [0..PIPESIZE - 1 -> Byte] /\ got \in [Reader -> Byte \cup {Nothing}]
    BY <1>1
  <2>2. nread \in 0..Uint - 1 /\ nwrite \in 0..Uint - 1 /\ (nwrite - nread) % Uint <= PIPESIZE
    BY <1>2 DEF Word, Count
  <2>3. \A p \in Proc : lock # p /\ pc[p] = "out"
    BY DEF Proc
  <2>4. \A r \in Reader : ret[r] # "eof"
    BY DEF Proc
  <2>5. pc \in [Proc -> {"out", "lock", "test", "copy", "sleep", "asleep", "woken"}]
    OBVIOUS
  <2>6. n \in [Proc -> 0..MaxN] /\ i \in [Proc -> 0..MaxN]
    OBVIOUS
  <2>7. ret \in [Proc -> {"none", "ok", "error", "eof"}] /\ killed \in [Proc -> BOOLEAN]
    OBVIOUS
  <2> QED
    BY <2>1, <2>2, <2>3, <2>4, <2>5, <2>6, <2>7 DEF TypeOK
<1>4. Ends
  BY DEF Ends
<1>5. Progress
  BY DEF Progress, Proc
<1>6. ReadersSleep /\ WritersSleep
  BY DEF ReadersSleep, WritersSleep, Proc
<1> QED
  BY <1>3, <1>4, <1>5, <1>6 DEF IInv

\* Every step of read, write, close and kill keeps the invariant.
LEMMA NextIInv == IInv /\ [Next]_vars => IInv'
<1> SUFFICES ASSUME IInv, [Next]_vars PROVE IInv'
  OBVIOUS
<1> USE PipeAssumption DEF IInv, PipeAssumption, Goto, Proc, Empty, Full, ends, buffer
<1>1. CASE UNCHANGED vars
  BY <1>1 DEF vars, TypeOK, Ends, Progress, ReadersSleep, WritersSleep
<1>2. ASSUME NEW p \in Proc, NEW m \in 0..MaxN, Call(p, m)
      PROVE  IInv'
  <2>1. TypeOK'
    BY <1>2 DEF Call, TypeOK, Ends, Progress
  <2>2. Ends'
    BY <1>2 DEF Call, TypeOK, Ends
  <2>3. Progress'
    BY <1>2 DEF Call, TypeOK, Progress
  <2>4. ReadersSleep'
    BY <1>2 DEF Call, TypeOK, Ends, Progress, ReadersSleep
  <2>5. WritersSleep'
    BY <1>2 DEF Call, TypeOK, Ends, Progress, WritersSleep
  <2> QED
    BY <2>1, <2>2, <2>3, <2>4, <2>5
<1>3. ASSUME NEW p \in Proc, Lock(p)
      PROVE  IInv'
  <2>1. TypeOK'
    BY <1>3 DEF Lock, TypeOK, Ends, Progress
  <2>2. Ends'
    BY <1>3 DEF Lock, TypeOK, Ends
  <2>3. Progress'
    BY <1>3 DEF Lock, TypeOK, Progress
  <2>4. ReadersSleep'
    BY <1>3 DEF Lock, TypeOK, Ends, Progress, ReadersSleep
  <2>5. WritersSleep'
    BY <1>3 DEF Lock, TypeOK, Ends, Progress, WritersSleep
  <2> QED
    BY <2>1, <2>2, <2>3, <2>4, <2>5
<1>4. ASSUME NEW p \in Proc, Sleep(p)
      PROVE  IInv'
  <2>1. TypeOK'
    BY <1>4 DEF Sleep, TypeOK, Ends, Progress
  <2>2. Ends'
    BY <1>4 DEF Sleep, TypeOK, Ends
  <2>3. Progress'
    BY <1>4 DEF Sleep, TypeOK, Progress
  <2>4. ReadersSleep'
    BY <1>4 DEF Sleep, TypeOK, Ends, Progress, ReadersSleep
  <2>5. WritersSleep'
    BY <1>4 DEF Sleep, TypeOK, Ends, Progress, WritersSleep
  <2> QED
    BY <2>1, <2>2, <2>3, <2>4, <2>5
<1>5. ASSUME NEW w \in Writer, NEW b \in Byte, Put(w, b)
      PROVE  IInv'
  <2>1. TypeOK'
    <3>1. Succ(nwrite) \in Word /\ Count(Succ(nwrite), nread) <= PIPESIZE /\ Succ(nwrite) # nread
      BY <1>5, PutFits DEF Put, TypeOK, Word, Count
    <3>2. nwrite % PIPESIZE \in 0..PIPESIZE - 1
      BY DEF TypeOK
    <3>3. data' \in [0..PIPESIZE - 1 -> Byte]
      BY <1>5, <3>2 DEF Put, TypeOK
    <3>4. i' \in [Proc -> 0..MaxN]
      BY <1>5 DEF Put, TypeOK
    <3>5. writeopen
      BY <1>5 DEF Put, Ends
    <3> QED
      BY <1>5, <3>1, <3>3, <3>4, <3>5 DEF Put, TypeOK, Word, Count
  <2>2. Ends'
    BY <1>5 DEF Put, TypeOK, Ends
  <2>3. Progress'
    BY <1>5 DEF Put, TypeOK, Progress
  <2>4. ReadersSleep'
    BY <1>5 DEF Put, TypeOK, Ends, Progress, ReadersSleep
  <2>5. WritersSleep'
    BY <1>5 DEF Put, TypeOK, Ends, Progress, WritersSleep
  <2> QED
    BY <2>1, <2>2, <2>3, <2>4, <2>5
<1>6. ASSUME NEW w \in Writer, WriteWaits(w)
      PROVE  IInv'
  <2>1. TypeOK'
    BY <1>6 DEF WriteWaits, Wakeup, TypeOK, Ends, Progress
  <2>2. Ends'
    BY <1>6 DEF WriteWaits, Wakeup, TypeOK, Ends
  <2>3. Progress'
    BY <1>6 DEF WriteWaits, Wakeup, TypeOK, Progress
  <2>4. ReadersSleep'
    BY <1>6 DEF WriteWaits, Wakeup, TypeOK, Ends, Progress, ReadersSleep
  <2>5. WritersSleep'
    BY <1>6 DEF WriteWaits, Wakeup, TypeOK, Ends, Progress, WritersSleep
  <2> QED
    BY <2>1, <2>2, <2>3, <2>4, <2>5
<1>7. ASSUME NEW w \in Writer, WriteFails(w)
      PROVE  IInv'
  <2>1. TypeOK'
    BY <1>7 DEF WriteFails, Returns, TypeOK, Ends, Progress
  <2>2. Ends'
    BY <1>7 DEF WriteFails, Returns, TypeOK, Ends
  <2>3. Progress'
    BY <1>7 DEF WriteFails, Returns, TypeOK, Progress
  <2>4. ReadersSleep'
    BY <1>7 DEF WriteFails, Returns, TypeOK, Ends, Progress, ReadersSleep
  <2>5. WritersSleep'
    BY <1>7 DEF WriteFails, Returns, TypeOK, Ends, Progress, WritersSleep
  <2> QED
    BY <2>1, <2>2, <2>3, <2>4, <2>5
<1>8. ASSUME NEW w \in Writer, WriteEnds(w)
      PROVE  IInv'
  <2>1. TypeOK'
    BY <1>8 DEF WriteEnds, Wakeup, Returns, TypeOK, Ends, Progress
  <2>2. Ends'
    BY <1>8 DEF WriteEnds, Wakeup, Returns, TypeOK, Ends
  <2>3. Progress'
    BY <1>8 DEF WriteEnds, Wakeup, Returns, TypeOK, Progress
  <2>4. ReadersSleep'
    BY <1>8 DEF WriteEnds, Wakeup, Returns, TypeOK, Ends, Progress, ReadersSleep
  <2>5. WritersSleep'
    BY <1>8 DEF WriteEnds, Wakeup, Returns, TypeOK, Ends, Progress, WritersSleep
  <2> QED
    BY <2>1, <2>2, <2>3, <2>4, <2>5
<1>9. ASSUME NEW r \in Reader, ReadWaits(r)
      PROVE  IInv'
  <2>1. TypeOK'
    BY <1>9 DEF ReadWaits, MustWait, TypeOK, Ends, Progress
  <2>2. Ends'
    BY <1>9 DEF ReadWaits, MustWait, TypeOK, Ends
  <2>3. Progress'
    BY <1>9 DEF ReadWaits, MustWait, TypeOK, Progress
  <2>4. ReadersSleep'
    BY <1>9 DEF ReadWaits, MustWait, TypeOK, Ends, Progress, ReadersSleep
  <2>5. WritersSleep'
    BY <1>9 DEF ReadWaits, MustWait, TypeOK, Ends, Progress, WritersSleep
  <2> QED
    BY <2>1, <2>2, <2>3, <2>4, <2>5
<1>10. ASSUME NEW r \in Reader, ReadFails(r)
      PROVE  IInv'
  <2>1. TypeOK'
    BY <1>10 DEF ReadFails, Returns, TypeOK, Ends, Progress
  <2>2. Ends'
    BY <1>10 DEF ReadFails, Returns, TypeOK, Ends
  <2>3. Progress'
    BY <1>10 DEF ReadFails, Returns, TypeOK, Progress
  <2>4. ReadersSleep'
    BY <1>10 DEF ReadFails, Returns, TypeOK, Ends, Progress, ReadersSleep
  <2>5. WritersSleep'
    BY <1>10 DEF ReadFails, Returns, TypeOK, Ends, Progress, WritersSleep
  <2> QED
    BY <2>1, <2>2, <2>3, <2>4, <2>5
<1>11. ASSUME NEW r \in Reader, ReadGoesOn(r)
      PROVE  IInv'
  <2>1. TypeOK'
    BY <1>11 DEF ReadGoesOn, MustWait, TypeOK, Ends, Progress
  <2>2. Ends'
    BY <1>11 DEF ReadGoesOn, MustWait, TypeOK, Ends
  <2>3. Progress'
    BY <1>11 DEF ReadGoesOn, MustWait, TypeOK, Progress
  <2>4. ReadersSleep'
    BY <1>11 DEF ReadGoesOn, MustWait, TypeOK, Ends, Progress, ReadersSleep
  <2>5. WritersSleep'
    BY <1>11 DEF ReadGoesOn, MustWait, TypeOK, Ends, Progress, WritersSleep
  <2> QED
    BY <2>1, <2>2, <2>3, <2>4, <2>5
<1>12. ASSUME NEW r \in Reader, Get(r)
      PROVE  IInv'
  <2>1. TypeOK'
    <3>1. Succ(nread) \in Word /\ Count(nwrite, Succ(nread)) <= PIPESIZE
      BY <1>12, GetFits DEF Get, TypeOK, Word, Count
    <3>2. nread % PIPESIZE \in 0..PIPESIZE - 1
      BY DEF TypeOK
    <3>3. got' \in [Reader -> Byte \cup {Nothing}]
      BY <1>12, <3>2 DEF Get, TypeOK
    <3>4. i' \in [Proc -> 0..MaxN]
      BY <1>12 DEF Get, TypeOK
    <3> QED
      BY <1>12, <3>1, <3>3, <3>4 DEF Get, TypeOK, Word, Count
  <2>2. Ends'
    BY <1>12 DEF Get, TypeOK, Ends
  <2>3. Progress'
    BY <1>12 DEF Get, TypeOK, Progress
  <2>4. ReadersSleep'
    BY <1>12 DEF Get, TypeOK, Ends, Progress, ReadersSleep
  <2>5. WritersSleep'
    BY <1>12 DEF Get, TypeOK, Ends, Progress, WritersSleep
  <2> QED
    BY <2>1, <2>2, <2>3, <2>4, <2>5
<1>13. ASSUME NEW r \in Reader, ReadEnds(r)
      PROVE  IInv'
  <2>1. TypeOK'
    BY <1>13 DEF ReadEnds, Wakeup, Returns, TypeOK, Ends, Progress
  <2>2. Ends'
    BY <1>13 DEF ReadEnds, Wakeup, Returns, TypeOK, Ends
  <2>3. Progress'
    BY <1>13 DEF ReadEnds, Wakeup, Returns, TypeOK, Progress
  <2>4. ReadersSleep'
    BY <1>13 DEF ReadEnds, Wakeup, Returns, TypeOK, Ends, Progress, ReadersSleep
  <2>5. WritersSleep'
    BY <1>13 DEF ReadEnds, Wakeup, Returns, TypeOK, Ends, Progress, WritersSleep
  <2> QED
    BY <2>1, <2>2, <2>3, <2>4, <2>5
<1>14. ASSUME NEW r \in Reader, CloseRead(r)
      PROVE  IInv'
  <2>1. TypeOK'
    <3>1. pc[r] = "out" /\ lock = Free /\ open' = open \ {r}
      BY <1>14 DEF CloseRead
    <3>2. pc' \in [Proc -> {"out", "lock", "test", "copy", "sleep", "asleep", "woken"}]
      BY <1>14, <3>1 DEF CloseRead, Wakeup, TypeOK
    <3>3. \A q \in Proc : (pc'[q] = "out" <=> pc[q] = "out") /\ (pc'[q] \in {"test", "sleep", "copy"} <=> pc[q] \in {"test", "sleep", "copy"})
      BY <1>14, <3>1 DEF CloseRead, Wakeup, TypeOK
    <3>4. freed' => open' = {}
      BY <1>14, <3>1 DEF CloseRead, BothClosed, TypeOK, Ends
    <3>5. freed' => \A q \in Proc : pc'[q] = "out"
      BY <3>1, <3>3, <3>4 DEF Ends, TypeOK
    <3>6. readopen' \in BOOLEAN /\ writeopen' \in BOOLEAN /\ freed' \in BOOLEAN /\ (writeopen' => writeopen)
      BY <1>14, <3>1 DEF CloseRead, BothClosed, TypeOK, Ends
    <3>7. UNCHANGED <<data, nread, nwrite, lock, n, i, ret, got, killed>>
      BY <1>14 DEF CloseRead
    <3> QED
      BY <3>1, <3>2, <3>3, <3>4, <3>5, <3>6, <3>7 DEF TypeOK
  <2>2. Ends'
    BY <1>14 DEF CloseRead, Wakeup, BothClosed, TypeOK, Ends
  <2>3. Progress'
    BY <1>14 DEF CloseRead, Wakeup, BothClosed, TypeOK, Progress
  <2>4. ReadersSleep'
    BY <1>14 DEF CloseRead, Wakeup, BothClosed, TypeOK, Ends, Progress, ReadersSleep
  <2>5. WritersSleep'
    BY <1>14 DEF CloseRead, Wakeup, BothClosed, TypeOK, Ends, Progress, WritersSleep
  <2> QED
    BY <2>1, <2>2, <2>3, <2>4, <2>5
<1>15. ASSUME NEW w \in Writer, CloseWrite(w)
      PROVE  IInv'
  <2>1. TypeOK'
    <3>1. pc[w] = "out" /\ lock = Free /\ open' = open \ {w}
      BY <1>15 DEF CloseWrite
    <3>2. pc' \in [Proc -> {"out", "lock", "test", "copy", "sleep", "asleep", "woken"}]
      BY <1>15, <3>1 DEF CloseWrite, Wakeup, TypeOK
    <3>3. \A q \in Proc : (pc'[q] = "out" <=> pc[q] = "out") /\ (pc'[q] \in {"test", "sleep", "copy"} <=> pc[q] \in {"test", "sleep", "copy"})
      BY <1>15, <3>1 DEF CloseWrite, Wakeup, TypeOK
    <3>4. freed' => open' = {}
      BY <1>15, <3>1 DEF CloseWrite, BothClosed, TypeOK, Ends
    <3>5. freed' => \A q \in Proc : pc'[q] = "out"
      BY <3>1, <3>3, <3>4 DEF Ends, TypeOK
    <3>6. readopen' \in BOOLEAN /\ writeopen' \in BOOLEAN /\ freed' \in BOOLEAN /\ (writeopen' => writeopen)
      BY <1>15, <3>1 DEF CloseWrite, BothClosed, TypeOK, Ends
    <3>7. UNCHANGED <<data, nread, nwrite, lock, n, i, ret, got, killed>>
      BY <1>15 DEF CloseWrite
    <3> QED
      BY <3>1, <3>2, <3>3, <3>4, <3>5, <3>6, <3>7 DEF TypeOK
  <2>2. Ends'
    BY <1>15 DEF CloseWrite, Wakeup, BothClosed, TypeOK, Ends
  <2>3. Progress'
    BY <1>15 DEF CloseWrite, Wakeup, BothClosed, TypeOK, Progress
  <2>4. ReadersSleep'
    BY <1>15 DEF CloseWrite, Wakeup, BothClosed, TypeOK, Ends, Progress, ReadersSleep
  <2>5. WritersSleep'
    BY <1>15 DEF CloseWrite, Wakeup, BothClosed, TypeOK, Ends, Progress, WritersSleep
  <2> QED
    BY <2>1, <2>2, <2>3, <2>4, <2>5
<1>16. ASSUME NEW p \in Proc, Kill(p)
      PROVE  IInv'
  <2>1. TypeOK'
    BY <1>16 DEF Kill, TypeOK, Ends, Progress
  <2>2. Ends'
    BY <1>16 DEF Kill, TypeOK, Ends
  <2>3. Progress'
    BY <1>16 DEF Kill, TypeOK, Progress
  <2>4. ReadersSleep'
    BY <1>16 DEF Kill, TypeOK, Ends, Progress, ReadersSleep
  <2>5. WritersSleep'
    BY <1>16 DEF Kill, TypeOK, Ends, Progress, WritersSleep
  <2> QED
    BY <2>1, <2>2, <2>3, <2>4, <2>5
<1> QED
  BY <1>1, <1>2, <1>3, <1>4, <1>5, <1>6, <1>7, <1>8, <1>9, <1>10, <1>11, <1>12, <1>13, <1>14, <1>15, <1>16 DEF Next, Inside, Read, Write

-----------------------------------------------------------------------------
\* The inductive invariant holds in every state.
THEOREM Invariant == Spec => []IInv
BY InitIInv, NextIInv, PTL DEF Spec

\* The counters stay within a buffer of each other, a read returns 0 only at
\* the end of the file, and the last pipeclose frees a page nobody uses.
THEOREM TypeCorrect == Spec => []TypeOK
<1>1. IInv => TypeOK
  BY DEF IInv
<1> QED
  BY <1>1, Invariant, PTL

\* sleep and wakeup in pipewrite, piperead and pipeclose: nobody sleeps for
\* room, bytes or the end of the file that is there.
THEOREM WakeupsAreNotLost == Spec => []NoLostWakeup
<1>1. IInv => NoLostWakeup
  <2> SUFFICES ASSUME IInv, lock = Free PROVE NoLostWakeup
    BY DEF NoLostWakeup
  <2>1. \A p \in Proc : pc[p] \notin {"test", "copy"}
    BY PipeAssumption DEF IInv, TypeOK, PipeAssumption, Proc
  <2> QED
    BY <2>1 DEF IInv, ReadersSleep, WritersSleep, NoLostWakeup, Proc
<1> QED
  BY <1>1, Invariant, PTL

-----------------------------------------------------------------------------
\* The quotient and the remainder,
LEMMA Divides ==
  ASSUME NEW m \in Nat, m > 0, NEW x \in Int
  PROVE  \E q \in Int, r \in Int : x = m * q + r /\ r = x % m /\ 0 <= r /\ r < m
<1>1. x % m \in Int /\ x \div m \in Int /\ 0 <= x % m /\ x % m < m
  OBVIOUS
<1>2. x = m * (x \div m) + (x % m)
  BY Z3
<1> QED
  BY <1>1, <1>2

\* and a multiple that is smaller than what it is a multiple of.
LEMMA SmallMultiple ==
  ASSUME NEW m \in Nat, m > 0, NEW d \in Int, m * d < m, m * d > -m
  PROVE  m * d = 0
<1>1. CASE d = 0
  BY <1>1
<1>2. CASE d >= 1
  <2>1. m * d >= m
    BY <1>2
  <2> QED
    BY <2>1
<1>3. CASE d <= -1
  <2>1. m * d <= -m
    BY <1>3
  <2> QED
    BY <2>1
<1> QED
  BY <1>1, <1>2, <1>3

\* The place of a byte in the buffer does not depend on the wrapping of its
\* counter, as PIPESIZE divides Uint,
LEMMA PlaceWraps ==
  ASSUME NEW x \in Nat
  PROVE  (x + Uint) % PIPESIZE = x % PIPESIZE
<1> DEFINE m == PIPESIZE
<1>1. m \in Nat /\ m > 0 /\ Uint \in Nat /\ Uint % m = 0
  BY PipeAssumption DEF PipeAssumption
<1>2. PICK h \in Int : Uint = m * h
  <2>1. Uint = m * (Uint \div m) + (Uint % m) /\ Uint \div m \in Int
    BY <1>1, Z3
  <2>2. PICK q \in Int : q = Uint \div m
    BY <2>1
  <2> QED
    BY <1>1, <2>1, <2>2
<1>3. PICK y \in Int : y = x + Uint
  BY <1>1
<1>4. PICK q \in Int, r \in Int : x = m * q + r /\ r = x % m /\ 0 <= r /\ r < m
  BY <1>1, Divides
<1>5. PICK p \in Int, s \in Int : y = m * p + s /\ s = y % m /\ 0 <= s /\ s < m
  BY <1>1, Divides
<1>6. m * (p - q - h) = r - s
  <2>1. m * (p - q - h) = m * p - m * q - m * h
    BY <1>1, <1>2, <1>4, <1>5
  <2> QED
    BY <1>1, <1>2, <1>3, <1>4, <1>5, <2>1
<1>7. r = s
  <2>1. PICK d \in Int : d = p - q - h
    BY <1>2, <1>4, <1>5
  <2>2. m * d = r - s /\ r - s < m /\ r - s > -m
    BY <1>1, <1>4, <1>5, <1>6, <2>1
  <2> QED
    BY <1>1, <1>4, <1>5, <2>2, SmallMultiple
<1> QED
  BY <1>3, <1>4, <1>5, <1>7

\* and bytes that are in the buffer together have different places.
LEMMA PlacesDiffer ==
  ASSUME NEW x \in Nat, NEW y \in Nat, x < y, y - x < PIPESIZE
  PROVE  x % PIPESIZE # y % PIPESIZE
<1> DEFINE m == PIPESIZE
<1>1. m \in Nat /\ m > 0
  BY PipeAssumption DEF PipeAssumption
<1>2. PICK q \in Int, r \in Int : x = m * q + r /\ r = x % m /\ 0 <= r /\ r < m
  BY <1>1, Divides
<1>3. PICK p \in Int, s \in Int : y = m * p + s /\ s = y % m /\ 0 <= s /\ s < m
  <2>1. y \in Int
    OBVIOUS
  <2> QED
    BY ONLY <1>1, <2>1, Divides
<1>4. ASSUME r = s PROVE FALSE
  <2>1. PICK d \in Int : d = p - q
    BY <1>2, <1>3
  <2>2. m * d = m * p - m * q
    BY <1>1, <1>2, <1>3, <2>1
  <2>3. m * d = y - x
    BY <1>1, <1>2, <1>3, <1>4, <2>2
  <2> QED
    BY <1>1, <2>1, <2>3, SmallMultiple
<1> QED
  BY <1>2, <1>3, <1>4

\* Where the k-th byte of the buffer is.
At(r, k) == (r + k - 1) % PIPESIZE

\* What the mapping makes of a buffer d and the counters r and w.
View(d, r, w) == [k \in 1..Count(w, r) |-> d[At(r, k)]]

LEMMA ViewIs ==
  ASSUME NEW d \in [0..PIPESIZE - 1 -> Byte], NEW r \in Word, NEW w \in Word
  PROVE  /\ View(d, r, w) \in Seq(Byte)
         /\ Len(View(d, r, w)) = Count(w, r) /\ Count(w, r) \in Nat
         /\ \A k \in 1..Count(w, r) :
              At(r, k) \in 0..PIPESIZE - 1 /\ View(d, r, w)[k] = d[At(r, k)]
<1>1. PIPESIZE \in Nat /\ PIPESIZE > 0 /\ Uint \in Nat
  BY PipeAssumption DEF PipeAssumption
<1>2. PICK c \in Nat : c = Count(w, r)
  BY <1>1, CountIs DEF Word
<1>3. \A k \in 1..c : At(r, k) \in 0..PIPESIZE - 1
  <2> SUFFICES ASSUME NEW k \in 1..c PROVE At(r, k) \in 0..PIPESIZE - 1
    OBVIOUS
  <2>1. PICK x \in Int : x = r + k - 1
    BY <1>1 DEF Word
  <2>2. x % PIPESIZE \in 0..PIPESIZE - 1
    BY <1>1
  <2> QED
    BY <2>1, <2>2 DEF At
<1>4. View(d, r, w) = [k \in 1..c |-> d[At(r, k)]]
  BY <1>2 DEF View
<1>5. \A k \in 1..c : d[At(r, k)] \in Byte
  BY <1>3
<1>6. View(d, r, w) \in Seq(Byte) /\ Len(View(d, r, w)) = c
  BY <1>4, <1>5
<1> QED
  BY <1>2, <1>3, <1>4, <1>6

\* A buffer that is not full has room,
LEMMA NotFull ==
  ASSUME NEW r \in Word, NEW w \in Word,
         Count(w, r) <= PIPESIZE, w # (r + PIPESIZE) % Uint
  PROVE  Count(w, r) < PIPESIZE
<1>1. PIPESIZE \in Nat /\ PIPESIZE > 0 /\ Uint \in Nat /\ Uint > PIPESIZE
  BY PipeAssumption DEF PipeAssumption
<1>2. Count(w, r) = IF w >= r THEN w - r ELSE w - r + Uint
  BY CountIs
<1>3. w # IF r + PIPESIZE < Uint THEN r + PIPESIZE ELSE r + PIPESIZE - Uint
  BY FullIs
<1> QED
  BY <1>1, <1>2, <1>3 DEF Word

\* and the next byte goes to a place behind those of the others;
LEMMA NextPlace ==
  ASSUME NEW r \in Word, NEW w \in Word, NEW c \in Nat, c = Count(w, r), c < PIPESIZE
  PROVE  /\ Count(Succ(w), r) = c + 1
         /\ w % PIPESIZE = At(r, c + 1)
         /\ \A k \in 1..c : At(r, k) # At(r, c + 1)
<1>1. PIPESIZE \in Nat /\ PIPESIZE > 0 /\ Uint \in Nat /\ Uint > PIPESIZE
  BY PipeAssumption DEF PipeAssumption
<1>2. r \in Nat /\ w \in Nat /\ r < Uint /\ w < Uint
  BY <1>1 DEF Word
<1>3. /\ c = IF w >= r THEN w - r ELSE w - r + Uint
      /\ w = IF r + c < Uint THEN r + c ELSE r + c - Uint
  <2>1. c = IF w >= r THEN w - r ELSE w - r + Uint
    BY CountIs
  <2> QED
    BY <1>1, <1>2, <2>1
<1>4. Count(Succ(w), r) = c + 1
  <2>1. PICK v \in Word : v = Succ(w) /\ v = IF w + 1 < Uint THEN w + 1 ELSE 0
    BY SuccIs
  <2>2. Count(v, r) = IF v >= r THEN v - r ELSE v - r + Uint
    BY CountIs
  <2> QED
    BY <1>1, <1>2, <1>3, <2>1, <2>2
<1>5. w % PIPESIZE = At(r, c + 1)
  <2>1. PICK x \in Nat : x = r + (c + 1) - 1
    BY <1>2
  <2>2. x = w \/ x = w + Uint
    BY <1>1, <1>2, <1>3, <2>1
  <2>3. (w + Uint) % PIPESIZE = w % PIPESIZE
    BY <1>2, PlaceWraps
  <2> QED
    BY <2>1, <2>2, <2>3 DEF At
<1>6. ASSUME NEW k \in 1..c PROVE At(r, k) # At(r, c + 1)
  <2>1. PICK x \in Nat : x = r + k - 1
    BY <1>2
  <2>2. PICK y \in Nat : y = r + (c + 1) - 1
    BY <1>2
  <2>3. x < y /\ y - x < PIPESIZE
    BY <1>1, <1>2, <2>1, <2>2
  <2>4. x % PIPESIZE # y % PIPESIZE
    BY <2>3, PlacesDiffer
  <2> QED
    BY <2>1, <2>2, <2>4 DEF At
<1> QED
  BY <1>4, <1>5, <1>6

\* so that a byte that is stored comes last,
LEMMA PutAppends ==
  ASSUME NEW d \in [0..PIPESIZE - 1 -> Byte], NEW r \in Word, NEW w \in Word,
         NEW b \in Byte, Count(w, r) < PIPESIZE
  PROVE  View([d EXCEPT ![w % PIPESIZE] = b], r, Succ(w)) = Append(View(d, r, w), b)
<1>1. PICK c \in Nat : c = Count(w, r)
  BY ViewIs
<1>2. PICK v \in Word : v = Succ(w)
  BY SuccIs
<1>3. PICK e \in [0..PIPESIZE - 1 -> Byte] : e = [d EXCEPT ![w % PIPESIZE] = b]
  OBVIOUS
<1>4. /\ Count(v, r) = c + 1 /\ w % PIPESIZE = At(r, c + 1)
      /\ \A k \in 1..c : At(r, k) # At(r, c + 1)
  BY <1>1, <1>2, NextPlace
<1>5. /\ View(d, r, w) \in Seq(Byte) /\ Len(View(d, r, w)) = c
      /\ \A k \in 1..c : At(r, k) \in 0..PIPESIZE - 1 /\ View(d, r, w)[k] = d[At(r, k)]
  BY <1>1, ViewIs
<1>6. /\ View(e, r, v) \in Seq(Byte) /\ Len(View(e, r, v)) = c + 1
      /\ \A k \in 1..c + 1 : At(r, k) \in 0..PIPESIZE - 1 /\ View(e, r, v)[k] = e[At(r, k)]
  <2>1. /\ View(e, r, v) \in Seq(Byte) /\ Len(View(e, r, v)) = Count(v, r)
        /\ \A k \in 1..Count(v, r) :
             At(r, k) \in 0..PIPESIZE - 1 /\ View(e, r, v)[k] = e[At(r, k)]
    BY ViewIs
  <2> QED
    BY <1>4, <2>1
<1>7. \A k \in 1..c : View(e, r, v)[k] = View(d, r, w)[k]
  <2> SUFFICES ASSUME NEW k \in 1..c PROVE View(e, r, v)[k] = View(d, r, w)[k]
    OBVIOUS
  <2>1. e[At(r, k)] = d[At(r, k)]
    BY <1>3, <1>4, <1>5
  <2>2. k \in 1..c + 1
    OBVIOUS
  <2> QED
    BY <1>5, <1>6, <2>1, <2>2
<1>8. View(e, r, v)[c + 1] = b
  <2>1. c + 1 \in 1..c + 1
    OBVIOUS
  <2>2. e[At(r, c + 1)] = b
    BY <1>3, <1>4, <1>6, <2>1
  <2> QED
    BY <1>6, <2>1, <2>2
<1>9. View(e, r, v) = Append(View(d, r, w), b)
  <2>1. PICK s \in Seq(Byte) : s = View(d, r, w)
    BY <1>5
  <2>2. PICK t \in Seq(Byte) : t = View(e, r, v)
    BY <1>6
  <2>3. /\ Append(s, b) \in Seq(Byte) /\ Len(Append(s, b)) = c + 1
        /\ \A k \in 1..c : Append(s, b)[k] = s[k]
        /\ Append(s, b)[c + 1] = b
    BY <1>5, <2>1, AppendProperties
  <2>4. \A k \in 1..Len(t) : t[k] = Append(s, b)[k]
    BY <1>6, <1>7, <1>8, <2>1, <2>2, <2>3
  <2> QED
    BY <1>6, <2>1, <2>2, <2>3, <2>4, SeqEqual
<1> QED
  BY <1>2, <1>3, <1>9

\* and the byte that is read where there is one comes first.
LEMMA GetTakes ==
  ASSUME NEW d \in [0..PIPESIZE - 1 -> Byte], NEW r \in Word, NEW w \in Word,
         Count(w, r) <= PIPESIZE, w # r
  PROVE  /\ View(d, r, w) # <<>> /\ Head(View(d, r, w)) = d[r % PIPESIZE]
         /\ View(d, Succ(r), w) = Tail(View(d, r, w))
<1>1. PIPESIZE \in Nat /\ PIPESIZE > 0 /\ Uint \in Nat /\ Uint > PIPESIZE
  BY PipeAssumption DEF PipeAssumption
<1>2. r \in Nat /\ w \in Nat /\ r < Uint /\ w < Uint
  BY <1>1 DEF Word
<1>3. PICK c \in Nat : c = Count(w, r)
  BY ViewIs
<1>4. c = IF w >= r THEN w - r ELSE w - r + Uint
  BY <1>3, CountIs
<1>5. PICK q \in Word : q = Succ(r) /\ q = IF r + 1 < Uint THEN r + 1 ELSE 0
  BY SuccIs
<1>6. c > 0 /\ Count(w, q) = c - 1
  <2>1. Count(w, q) = IF w >= q THEN w - q ELSE w - q + Uint
    BY CountIs
  <2> QED
    BY <1>1, <1>2, <1>4, <1>5, <2>1
<1>7. /\ View(d, r, w) \in Seq(Byte) /\ Len(View(d, r, w)) = c
      /\ \A k \in 1..c : View(d, r, w)[k] = d[At(r, k)]
  BY <1>3, ViewIs
<1>8. /\ View(d, q, w) \in Seq(Byte) /\ Len(View(d, q, w)) = c - 1
      /\ \A k \in 1..c - 1 : View(d, q, w)[k] = d[At(q, k)]
  <2>1. /\ View(d, q, w) \in Seq(Byte) /\ Len(View(d, q, w)) = Count(w, q)
        /\ \A k \in 1..Count(w, q) : View(d, q, w)[k] = d[At(q, k)]
    BY ViewIs
  <2> QED
    BY <1>6, <2>1
<1>9. At(r, 1) = r % PIPESIZE
  <2>1. r + 1 - 1 = r
    BY <1>2
  <2> QED
    BY <2>1 DEF At
<1>10. \A k \in 1..c - 1 : At(q, k) = At(r, k + 1)
  <2> SUFFICES ASSUME NEW k \in 1..c - 1 PROVE At(q, k) = At(r, k + 1)
    OBVIOUS
  <2>1. CASE r + 1 < Uint
    <3>1. q + k - 1 = r + (k + 1) - 1
      BY <1>2, <1>3, <1>5, <2>1
    <3> QED
      BY <3>1 DEF At
  <2>2. CASE r + 1 >= Uint
    <3>1. PICK x \in Int : x = q + k - 1
      BY <1>3, <1>5 DEF Word
    <3>2. x \in Nat /\ x + Uint = r + (k + 1) - 1
      BY <1>1, <1>2, <1>3, <1>5, <2>2, <3>1
    <3>3. (x + Uint) % PIPESIZE = x % PIPESIZE
      BY <3>2, PlaceWraps
    <3> QED
      BY <3>1, <3>2, <3>3 DEF At
  <2> QED
    BY <1>1, <1>2, <2>1, <2>2
<1>11. PICK s \in Seq(Byte) : s = View(d, r, w)
  BY <1>7
<1>12. PICK t \in Seq(Byte) : t = View(d, q, w)
  BY <1>8
<1>13. s # <<>>
  BY <1>6, <1>7, <1>11, EmptySeq
<1>14. /\ Head(s) = s[1] /\ Tail(s) \in Seq(Byte) /\ Len(Tail(s)) = c - 1
       /\ \A k \in 1..c - 1 : Tail(s)[k] = s[k + 1]
  BY <1>7, <1>11, <1>13, HeadTailProperties
<1>15. t = Tail(s)
  <2>1. \A k \in 1..c - 1 : t[k] = Tail(s)[k]
    <3> SUFFICES ASSUME NEW k \in 1..c - 1 PROVE t[k] = Tail(s)[k]
      OBVIOUS
    <3>1. k + 1 \in 1..c
      BY <1>3
    <3> QED
      BY <1>7, <1>8, <1>10, <1>11, <1>12, <1>14, <3>1
  <2> QED
    BY <1>8, <1>12, <1>14, <2>1, SeqEqual
<1>16. Head(s) = d[r % PIPESIZE]
  <2>1. 1 \in 1..c
    BY <1>3, <1>6
  <2> QED
    BY <1>7, <1>9, <1>11, <1>14, <2>1
<1> QED
  BY <1>5, <1>11, <1>12, <1>13, <1>15, <1>16

\* The buffer and its counters, as the specification types them.
LEMMA Typed ==
  ASSUME TypeOK
  PROVE  /\ data \in [0..PIPESIZE - 1 -> Byte]
         /\ nread \in Word /\ nwrite \in Word /\ Count(nwrite, nread) <= PIPESIZE
         /\ got \in [Reader -> Byte \cup {Nothing}]
BY DEF TypeOK, Word, Count

\* A new pipe is an empty channel.
LEMMA InitImplements == Init => Abstract!Init
<1> SUFFICES ASSUME Init PROVE Abstract!Init
  OBVIOUS
<1>1. TypeOK
  BY InitIInv DEF IInv
<1>2. Count(nwrite, nread) = 0
  <2>1. nwrite \in Word /\ nread \in Word /\ nwrite = nread
    BY <1>1, Typed DEF Init
  <2> QED
    BY <2>1, CountIs DEF Word
<1>3. Contents \in Seq(Byte) /\ Len(Contents) = 0
  <2>1. Contents = View(data, nread, nwrite)
    BY DEF Contents, View, Count, At
  <2> QED
    BY <1>1, <1>2, <2>1, Typed, ViewIs
<1>4. Contents = <<>>
  BY <1>3, EmptySeq
<1> QED
  BY <1>4 DEF Init, Abstract!Init

\* Storing a byte sends it, reading one receives it, and nothing else that a
\* process does shows in the channel.
LEMMA NextImplements ==
  ASSUME IInv, [Next]_vars
  PROVE  [Abstract!Next]_<<Contents, got>>
<1>1. /\ data \in [0..PIPESIZE - 1 -> Byte]
      /\ nread \in Word /\ nwrite \in Word /\ Count(nwrite, nread) <= PIPESIZE
  BY Typed DEF IInv
<1>2. Contents = View(data, nread, nwrite) /\ Contents' = View(data', nread', nwrite')
  BY DEF Contents, View, Count, At
<1>3. ASSUME NEW w \in Writer, NEW b \in Byte, Put(w, b) PROVE Abstract!Send(b)
  <2>1. /\ nwrite # (nread + PIPESIZE) % Uint
        /\ data' = [data EXCEPT ![nwrite % PIPESIZE] = b]
        /\ nwrite' = Succ(nwrite) /\ nread' = nread /\ got' = got
    BY <1>3 DEF Put, Full
  <2>2. /\ Count(nwrite, nread) < PIPESIZE
        /\ View([data EXCEPT ![nwrite % PIPESIZE] = b], nread, Succ(nwrite))
             = Append(View(data, nread, nwrite), b)
    <3>1. Count(nwrite, nread) < PIPESIZE
      BY <1>1, <2>1, NotFull
    <3> QED
      BY <1>1, <3>1, PutAppends
  <2>3. Len(Contents) = Count(nwrite, nread)
    BY <1>1, <1>2, ViewIs
  <2>4. Contents' = Append(Contents, b)
    BY <1>2, <2>1, <2>2
  <2> QED
    BY <2>1, <2>2, <2>3, <2>4 DEF Abstract!Send
<1>4. ASSUME NEW r \in Reader, Get(r) PROVE Abstract!Receive(r)
  <2>1. /\ nwrite # nread /\ data' = data /\ nwrite' = nwrite /\ nread' = Succ(nread)
        /\ got' = [got EXCEPT ![r] = data[nread % PIPESIZE]]
    BY <1>4 DEF Get, Empty
  <2>2. /\ Contents # <<>> /\ Head(Contents) = data[nread % PIPESIZE]
        /\ Contents' = Tail(Contents)
    BY <1>1, <1>2, <2>1, GetTakes
  <2> QED
    BY <2>1, <2>2 DEF Abstract!Receive
<1>5. ASSUME UNCHANGED <<buffer, got>> PROVE UNCHANGED <<Contents, got>>
  BY <1>2, <1>5 DEF buffer
<1>6. CASE \E w \in Writer, b \in Byte : Put(w, b)
  BY <1>3, <1>6 DEF Abstract!Next
<1>7. CASE \E r \in Reader : Get(r)
  BY <1>4, <1>7 DEF Abstract!Next
<1>8. CASE UNCHANGED <<buffer, got>>
  BY <1>5, <1>8
<1> QED
  <2>1. CASE UNCHANGED vars
    BY <1>8, <2>1 DEF vars, buffer
  <2>2. CASE \E p \in Proc : Lock(p) \/ Sleep(p) \/ Kill(p) \/ \E m \in 0..MaxN : Call(p, m)
    BY <1>8, <2>2 DEF Lock, Sleep, Kill, Call
  <2>3. CASE \E w \in Writer : WriteWaits(w) \/ WriteFails(w) \/ WriteEnds(w) \/ CloseWrite(w)
    BY <1>8, <2>3 DEF WriteWaits, WriteFails, WriteEnds, CloseWrite
  <2>4. CASE \E r \in Reader : \/ ReadWaits(r) \/ ReadFails(r) \/ ReadGoesOn(r)
                              \/ ReadEnds(r) \/ CloseRead(r)
    BY <1>8, <2>4 DEF ReadWaits, ReadFails, ReadGoesOn, ReadEnds, CloseRead
  <2> QED
    BY <1>6, <1>7, <2>1, <2>2, <2>3, <2>4 DEF Next, Inside, Write, Read

\* pipewrite and piperead move the bytes through the buffer in order, each
\* once, across the wrap of nread and nwrite, whoever sleeps, is killed or
\* closes an end.
THEOREM Implementation == Spec => ImplementsChannel
<1>1. Init => Abstract!Init
  BY InitImplements
<1>2. IInv /\ [Next]_vars => [Abstract!Next]_<<Contents, got>>
  BY NextImplements
<1> QED
  BY <1>1, <1>2, Invariant, PTL DEF Spec, ImplementsChannel, Abstract!Spec

-----------------------------------------------------------------------------
(***************************************************************************)
(* The connections of the file server and its clients, which are byte      *)
(* streams too, but keep no borders between messages.                      *)
(*                                                                         *)
(* A client has one request under way at most, behind uploads only, and    *)
(* nothing has been answered while it is there (Requests).  What a read    *)
(* runs together with a message before it is lost and not answered late,   *)
(* and a connection that waits for accept has been greeted by nobody       *)
(* (Queued), so what comes is what was asked for.                          *)
(***************************************************************************)

Uploads == {"upload", "empty"}

NetTypes ==
  /\ slot \in [Index -> Client \cup {Nobody}]
  /\ ready \subseteq Client
  /\ backlog \in Seq(Client)
  /\ at \in [Client -> {"start", "greet", "command", "read", "gone"}]
  /\ sock \in [Client -> {"none", "open", "closed", "dead"}]
  /\ asked \in [Client -> File \cup {Nobody}]
  /\ in \in [Client -> Seq(File \cup Uploads)]
  /\ out \in [Client -> Seq(File \cup {"welcome"})]

\* A connection that waits for accept has been sent nothing, and waits once.
Queued ==
  \A k \in 1..Len(backlog) :
    /\ at[backlog[k]] = "greet" /\ out[backlog[k]] = <<>> /\ sock[backlog[k]] = "open"
    /\ \A l \in 1..Len(backlog) : backlog[k] = backlog[l] => k = l

\* The entries of client_socket are of different connections, that the server
\* has accepted and not closed; the loop turns to none but them.
TableTrue ==
  /\ \A a, b \in Index : slot[a] = slot[b] /\ slot[a] # Nobody => a = b
  /\ \A a \in Index : slot[a] # Nobody => up /\ sock[slot[a]] \in {"open", "closed"}
  /\ \A k \in 1..Len(backlog) : up /\ backlog[k] \notin Slotted
  /\ ready \subseteq Slotted

\* What select has found is still there when the loop comes to it.
Found == \A c \in ready : in[c] # <<>> \/ sock[c] = "closed"

\* What a client that reads an answer has sent: its request is the last message
\* and has not been answered.
Requests(c) ==
  \A k \in 1..Len(in[c]) :
    in[c][k] \in Uploads \/ (k = Len(in[c]) /\ in[c][k] = asked[c] /\ out[c] = <<>>)

Connection(c) ==
  /\ at[c] = "start" => sock[c] = "none"
  /\ sock[c] = "none" => in[c] = <<>> /\ out[c] = <<>> /\ at[c] # "greet"
  /\ sock[c] = "closed" => at[c] = "gone"
  /\ sock[c] = "dead" => in[c] = <<>>
  /\ sock[c] \in {"open", "dead"} => at[c] \in {"greet", "command", "read"}
  /\ at[c] \in {"start", "greet"} => in[c] = <<>>
  /\ at[c] \in {"start", "command", "gone"} => out[c] = <<>>
  /\ at[c] = "greet" => out[c] \in {<<>>, <<"welcome">>}
  /\ at[c] # "read" => \A k \in 1..Len(in[c]) : in[c][k] \in Uploads
  /\ at[c] = "read" => asked[c] \in File /\ out[c] \in {<<>>, <<asked[c]>>} /\ Requests(c)

Connections == \A c \in Client : Connection(c)

NetInv == NetTypes /\ Queued /\ TableTrue /\ Found /\ Connections

LEMMA LeastIndex ==
  ASSUME NEW S \in SUBSET Nat, S # {}
  PROVE  Min(S) \in S
<1> DEFINE Less == {ss \in Nat \X Nat : ss[1] < ss[2]}
<1>1. IsWellFoundedOn(Less, Nat)
  BY NatLessThanWellFounded DEF OpToRel
<1> HIDE DEF Less
<1>2. PICK x \in S : \A y \in S : ~(<<y, x>> \in Less)
  BY <1>1, WFMin
<1>3. ASSUME NEW y \in S PROVE x <= y
  <2>1. x \in Nat /\ y \in Nat /\ ~(<<y, x>> \in Less)
    BY <1>2
  <2>2. ~(y < x)
    BY <2>1 DEF Less
  <2> QED
    BY <2>1, <2>2
<1> QED
  BY <1>3 DEF Min

\* A queue of one message.
LEMMA OneMessage ==
  ASSUME NEW m
  PROVE  /\ Append(<<>>, m) = <<m>> /\ Tail(<<m>>) = <<>> /\ <<m>> # <<>>
         /\ \A S : m \in S => <<m>> \in Seq(S)
OBVIOUS

\* What a read leaves in the connection.
LEMMA ReadLeaves ==
  ASSUME NEW S, NEW s \in Seq(S), NEW m \in 1..Len(s)
  PROVE  /\ SubSeq(s, m + 1, Len(s)) \in Seq(S)
         /\ Len(SubSeq(s, m + 1, Len(s))) = Len(s) - m
         /\ \A k \in 1..(Len(s) - m) : SubSeq(s, m + 1, Len(s))[k] = s[m + k]
OBVIOUS

\* Nobody waits for accept: only ready changes.
LEMMA SelectFinds ==
  ASSUME NetInv, Select, backlog = <<>>
  PROVE  NetInv'
<1> USE SocketsAssumption DEF SocketsAssumption, NetInv, Uploads
<1>1. /\ UNCHANGED <<up, slot, backlog, at, sock, asked, in, out>>
      /\ ready' \subseteq Slotted /\ \A c \in ready' : in[c] # <<>> \/ sock[c] = "closed"
  BY DEF Select, Readable
<1>2. Slotted \subseteq Client
  BY DEF NetTypes, Slotted
<1>3. NetTypes'
  BY <1>1, <1>2 DEF NetTypes
<1>4. Queued'
  BY <1>1, <1>2 DEF NetTypes, Queued
<1>5. TableTrue'
  BY <1>1 DEF Queued, TableTrue, Slotted
<1>6. Found'
  BY <1>1 DEF Found
<1>7. Connections'
  BY <1>1 DEF Found, Connections, Connection, Requests
<1> QED
  BY <1>3, <1>4, <1>5, <1>6, <1>7

\* The first that waits is greeted, and gets a free entry if there is one.
LEMMA SelectAccepts ==
  ASSUME NetInv, Select, backlog # <<>>
  PROVE  NetInv'
<1> USE SocketsAssumption DEF SocketsAssumption, NetInv, Uploads
<1>1. PICK h : /\ h = Head(backlog) /\ h \in Client /\ h = backlog[1]
               /\ Len(backlog) \in Nat \ {0}
               /\ Tail(backlog) \in Seq(Client) /\ Len(Tail(backlog)) = Len(backlog) - 1
               /\ \A k \in 1..Len(Tail(backlog)) : Tail(backlog)[k] = backlog[k + 1]
  BY HeadTailProperties, EmptySeq DEF NetTypes
<1>2. at[h] = "greet" /\ out[h] = <<>> /\ sock[h] = "open" /\ up /\ h \notin Slotted /\ h # Nobody
  BY <1>1 DEF Queued, TableTrue
<1>3. /\ backlog' = Tail(backlog)
      /\ out' = [out EXCEPT ![h] = <<"welcome">>]
      /\ UNCHANGED <<up, at, sock, asked, in>>
  BY <1>1, <1>2, OneMessage DEF Select
<1>4. slot' = slot \/ \E a \in Index : slot[a] = Nobody /\ slot' = [slot EXCEPT ![a] = h]
  <2>1. FreeIndex \in SUBSET Nat
    BY DEF FreeIndex, Index
  <2>2. CASE FreeIndex = {}
    BY <2>2 DEF Select
  <2>3. CASE FreeIndex # {}
    <3>1. PICK a \in FreeIndex : a = Min(FreeIndex)
      BY <2>1, <2>3, LeastIndex
    <3> QED
      BY <1>1, <2>3, <3>1 DEF FreeIndex, Select
  <2> QED
    BY <2>2, <2>3
<1>5. ready' \subseteq Slotted /\ \A c \in ready' : in[c] # <<>> \/ sock[c] = "closed"
  BY DEF Select, Readable
<1>6. Slotted \subseteq Client /\ Slotted \subseteq Slotted'
  BY <1>4 DEF NetTypes, Slotted
<1>7. \A k \in 1..Len(backlog') : /\ backlog'[k] # h /\ backlog'[k] \in Client
                                   /\ k + 1 \in 1..Len(backlog) /\ backlog'[k] = backlog[k + 1]
  <2> SUFFICES ASSUME NEW k \in 1..Len(backlog')
               PROVE  /\ backlog'[k] # h /\ backlog'[k] \in Client
                      /\ k + 1 \in 1..Len(backlog) /\ backlog'[k] = backlog[k + 1]
    OBVIOUS
  <2>1. k + 1 \in 1..Len(backlog) /\ 1 \in 1..Len(backlog) /\ k + 1 # 1 /\ backlog'[k] = backlog[k + 1]
    BY <1>3
  <2>2. backlog[k + 1] \in Client
    BY <2>1, ElementOfSeq DEF NetTypes
  <2> QED
    BY <1>1, <2>1, <2>2 DEF Queued
<1>8. NetTypes'
  <2>1. slot' \in [Index -> Client \cup {Nobody}]
    <3>1. slot \in [Index -> Client \cup {Nobody}] /\ h \in Client \cup {Nobody}
      BY <1>1 DEF NetTypes
    <3> QED
      BY <1>4, <3>1
  <2> QED
    BY <1>1, <1>3, <1>5, <1>6, <2>1 DEF NetTypes
<1>9. Queued'
  BY <1>2, <1>3, <1>4, <1>6, <1>7 DEF Queued
<1>10. TableTrue'
  <2>1. \A a, b \in Index : slot'[a] = slot'[b] /\ slot'[a] # Nobody => a = b
    <3>1. \A a \in Index : slot[a] # h
      BY <1>2 DEF Slotted
    <3>2. CASE slot' = slot
      BY <3>2 DEF TableTrue
    <3>3. ASSUME NEW z \in Index, slot[z] = Nobody, slot' = [slot EXCEPT ![z] = h]
          PROVE  \A a, b \in Index : slot'[a] = slot'[b] /\ slot'[a] # Nobody => a = b
      <4>1. \A a \in Index : slot'[a] = IF a = z THEN h ELSE slot[a]
        BY <3>3 DEF NetTypes
      <4> QED
        BY <3>1, <4>1 DEF TableTrue
    <3> QED
      BY <1>4, <3>2, <3>3
  <2>2. \A a \in Index : slot'[a] # Nobody => up' /\ sock'[slot'[a]] \in {"open", "closed"}
    BY <1>2, <1>3, <1>4 DEF NetTypes, TableTrue
  <2>3. Slotted' \subseteq Slotted \cup {h}
    BY <1>4 DEF NetTypes, Slotted
  <2>4. \A k \in 1..Len(backlog') : up' /\ backlog'[k] \notin Slotted'
    BY <1>2, <1>3, <1>7, <2>3 DEF TableTrue
  <2> QED
    BY <1>5, <1>6, <2>1, <2>2, <2>4 DEF TableTrue
<1>11. Found'
  BY <1>1, <1>2, <1>3, <1>4, <1>5, <1>6 DEF Found
<1>12. Connections'
  BY <1>2, <1>3, <1>5, <1>6, <1>7 DEF Found, Connections, Connection, Requests
<1> QED
  BY <1>8, <1>9, <1>10, <1>11, <1>12

\* The connection that ends has left nothing to read.
LEMMA HangupNet ==
  ASSUME NetInv, NEW c \in Client, Hangup(c)
  PROVE  NetInv'
<1> USE SocketsAssumption DEF SocketsAssumption, NetInv, Uploads, Hangup, Without, Rest
<1>1. NetTypes'
  BY DEF NetTypes, Queued
<1>2. Queued'
  BY DEF NetTypes, Queued, Found
<1>3. TableTrue'
  BY DEF Queued, TableTrue, Slotted
<1>4. Found'
  BY DEF Found
<1>5. Connections'
  BY DEF Found, Connections, Connection, Requests
<1> QED
  BY <1>1, <1>2, <1>3, <1>4, <1>5

\* Nothing is left of the server, and nothing in the connections to it.
LEMMA StopNet ==
  ASSUME NetInv, Stop, UNCHANGED out
  PROVE  NetInv'
<1> USE SocketsAssumption DEF SocketsAssumption, NetInv, Uploads, Stop, NoSlots
<1>1. NetTypes'
  BY DEF NetTypes, Queued
<1>2. Queued'
  BY DEF NetTypes, Queued
<1>3. TableTrue'
  BY DEF Queued, TableTrue
<1>4. Found'
  BY DEF Found
<1>5. Connections'
  BY DEF Found, Connections, Connection, Requests
<1> QED
  BY <1>1, <1>2, <1>3, <1>4, <1>5

\* What is answered is the last message, and the request.
LEMMA ReadNet ==
  ASSUME NetInv, NEW c \in Client, NEW m \in 1..Len(in[c]), c \in ready,
         in[c] # <<>>,
         out' = IF Head(in[c]) \in Uploads THEN out ELSE [out EXCEPT ![c] = Append(@, Head(in[c]))],
         in' = [in EXCEPT ![c] = SubSeq(@, m + 1, Len(@))],
         ready' = ready \ {c},
         UNCHANGED <<up, slot, backlog, at, sock, asked>>
  PROVE  NetInv'
<1> USE SocketsAssumption DEF SocketsAssumption, NetInv, Uploads
<1>1. /\ in[c] \in Seq(File \cup Uploads) /\ Len(in[c]) \in Nat \ {0}
      /\ Head(in[c]) = in[c][1] /\ in[c][1] \in File \cup Uploads
  BY EmptySeq, ElementOfSeq, HeadTailProperties DEF NetTypes
<1>2. /\ in'[c] \in Seq(File \cup Uploads) /\ Len(in'[c]) = Len(in[c]) - m
      /\ \A k \in 1..Len(in'[c]) : in'[c][k] = in[c][m + k]
      /\ (m = Len(in[c]) => in'[c] = <<>>)
      /\ \A d \in Client \ {c} : in'[d] = in[d]
  <2>1. in'[c] = SubSeq(in[c], m + 1, Len(in[c])) /\ \A d \in Client \ {c} : in'[d] = in[d]
    BY DEF NetTypes
  <2>2. /\ in'[c] \in Seq(File \cup Uploads) /\ Len(in'[c]) = Len(in[c]) - m
        /\ \A k \in 1..(Len(in[c]) - m) : in'[c][k] = in[c][m + k]
    BY <1>1, <2>1
  <2> QED
    BY <2>2
<1>3. in[c][1] \notin Uploads => /\ at[c] = "read" /\ Len(in[c]) = 1 /\ in[c][1] = asked[c]
                                 /\ out[c] = <<>>
  <2>1. 1 \in 1..Len(in[c]) /\ Connection(c)
    BY DEF Connections
  <2> QED
    BY <2>1 DEF Connection, Requests
<1>4. in' \in [Client -> Seq(File \cup Uploads)]
  BY <1>1, <1>2 DEF NetTypes
<1>5. CASE in[c][1] \in Uploads
  <2>1. out' = out
    BY <1>5
  <2>2. NetTypes'
    BY <2>1 DEF NetTypes
  <2>3. Connection(c)'
    <3>1. Connection(c)
      BY DEF Connections
    <3>2. at[c] = "read" => Requests(c)'
      <4> SUFFICES ASSUME at[c] = "read", NEW k \in 1..Len(in'[c])
                   PROVE  \/ in'[c][k] \in Uploads
                          \/ k = Len(in'[c]) /\ in'[c][k] = asked[c] /\ out[c] = <<>>
        BY <2>1 DEF Requests
      <4>1. m + k \in 1..Len(in[c]) /\ in'[c][k] = in[c][m + k]
            /\ (m + k = Len(in[c]) => k = Len(in'[c]))
        BY <1>1, <1>2
      <4> QED
        BY <3>1, <4>1 DEF Connection, Requests
    <3> QED
      BY <2>1, <3>1, <3>2 DEF Connection
  <2>4. Connections'
    BY <1>2, <2>1, <2>3 DEF Connections, Connection, Requests
  <2>5. Queued'
    BY <2>1 DEF Queued
  <2>6. TableTrue'
    BY DEF TableTrue, Slotted
  <2>7. Found'
    BY <1>2 DEF NetTypes, Found
  <2> QED
    BY <2>2, <2>4, <2>5, <2>7, <2>6
<1>6. CASE in[c][1] \notin Uploads
  <2>1. /\ at[c] = "read" /\ out[c] = <<>> /\ Head(in[c]) # "upload"
        /\ Head(in[c]) = asked[c] /\ asked[c] \in File
    BY <1>1, <1>3, <1>6
  <2>2. m = Len(in[c])
    <3>1. Len(in[c]) = 1 /\ m \in 1..Len(in[c])
      BY <1>3, <1>6
    <3> QED
      BY <3>1
  <2>3. out' = [out EXCEPT ![c] = <<asked[c]>>]
    BY <2>1, OneMessage
  <2>4. out' = [out EXCEPT ![c] = <<asked[c]>>] /\ in'[c] = <<>> /\ asked[c] \in File /\ at[c] = "read"
    BY <1>2, <2>1, <2>2, <2>3
  <2>5. NetTypes'
    BY <1>4 DEF NetTypes
  <2>6. Queued'
    BY <2>4 DEF Queued
  <2>7. Connection(c)'
    <3>1. Connection(c) /\ Len(in'[c]) = 0 /\ out'[c] = <<asked[c]>>
      BY <2>4 DEF NetTypes, Connections
    <3>2. Requests(c)' /\ sock[c] # "none"
      BY <3>1 DEF Requests, Connection
    <3> QED
      BY <2>4, <3>1, <3>2 DEF Connection
  <2>8. Connections'
    BY <2>7 DEF Connections, Connection, Requests
  <2>9. TableTrue'
    BY DEF TableTrue, Slotted
  <2>10. Found'
    BY <1>2 DEF NetTypes, Found
  <2> QED
    BY <2>5, <2>6, <2>8, <2>9, <2>10
<1> QED
  BY <1>5, <1>6

LEMMA RestartNet ==
  ASSUME NetInv, Restart
  PROVE  NetInv'
<1> USE SocketsAssumption DEF SocketsAssumption, NetInv, Uploads, Restart
<1>1. NetTypes'
  BY DEF NetTypes, Queued
<1>2. Queued'
  BY DEF NetTypes, Queued
<1>3. TableTrue'
  BY DEF Queued, TableTrue, Slotted
<1>4. Found'
  BY DEF Found
<1>5. Connections'
  BY DEF Found, Connections, Connection, Requests
<1> QED
  BY <1>1, <1>2, <1>3, <1>4, <1>5

\* A new connection is the last to wait for accept.
LEMMA ConnectsNet ==
  ASSUME NetInv, NEW c \in Client, at[c] = "start", up,
         backlog' = Append(backlog, c), sock' = [sock EXCEPT ![c] = "open"],
         at' = [at EXCEPT ![c] = "greet"], UNCHANGED <<up, slot, ready, asked, in, out>>
  PROVE  NetInv'
<1> USE SocketsAssumption DEF SocketsAssumption, NetInv, Uploads
<1>1. Len(backlog) \in Nat /\ \A k \in 1..Len(backlog) : backlog[k] \in Client /\ backlog[k] # c
  BY LenProperties, ElementOfSeq DEF NetTypes, Queued
<1>2. sock[c] = "none" /\ in[c] = <<>> /\ out[c] = <<>> /\ c \notin Slotted
  BY DEF Connections, Connection, TableTrue, Slotted
<1>3. /\ backlog' \in Seq(Client) /\ Len(backlog') = Len(backlog) + 1
      /\ backlog'[Len(backlog) + 1] = c
      /\ \A k \in 1..Len(backlog) : backlog'[k] = backlog[k]
  BY AppendProperties DEF NetTypes
<1>4. sock'[c] = "open" /\ at'[c] = "greet" /\ \A d \in Client \ {c} : sock'[d] = sock[d] /\ at'[d] = at[d]
  BY DEF NetTypes
<1>5. NetTypes'
  BY <1>1 DEF NetTypes
<1>6. Queued'
  <2> SUFFICES ASSUME NEW k \in 1..Len(backlog')
               PROVE  /\ at'[backlog'[k]] = "greet" /\ out'[backlog'[k]] = <<>> /\ sock'[backlog'[k]] = "open"
                      /\ \A l \in 1..Len(backlog') : backlog'[k] = backlog'[l] => k = l
    BY DEF Queued
  <2>1. CASE k = Len(backlog) + 1
    BY <1>1, <1>2, <1>4, <2>1
  <2>2. CASE k \in 1..Len(backlog)
    BY <1>1, <1>3, <1>4, <2>2 DEF Queued
  <2> QED
    BY <2>1, <2>2
<1>7. TableTrue'
  BY <1>2 DEF TableTrue, Slotted
<1>8. Found'
  BY DEF TableTrue, Found, Connections, Connection
<1>9. Connections'
  <2>1. Connection(c)'
    BY <1>2, <1>4 DEF Connection
  <2>2. \A d \in Client \ {c} : Connection(d)'
    BY <1>4 DEF Connections, Connection, Requests
  <2> QED
    BY <2>1, <2>2 DEF Connections
<1> QED
  BY <1>5, <1>6, <1>7, <1>8, <1>9

\* A client that goes on without a connection, or not at all.
LEMMA AloneNet ==
  ASSUME NetInv, NEW c \in Client, at[c] = "start", NEW x \in {"gone", "command"},
         at' = [at EXCEPT ![c] = x], UNCHANGED <<server, sock, asked, in, out>>
  PROVE  NetInv'
<1> USE SocketsAssumption DEF SocketsAssumption, NetInv, Uploads, server
<1>1. NetTypes'
  BY DEF NetTypes, Queued
<1>2. Queued'
  BY DEF NetTypes, Queued, Found
<1>3. TableTrue'
  BY DEF Queued, TableTrue, Slotted
<1>4. Found'
  BY DEF Found
<1>5. Connections'
  BY DEF Found, Connections, Connection, Requests
<1> QED
  BY <1>1, <1>2, <1>3, <1>4, <1>5

\* A client that leaves has no request under way.
LEMMA LeavesNet ==
  ASSUME NetInv, NEW c \in Client,
         at[c] = "command" \/ (sock[c] = "dead" /\ out[c] = <<>>),
         Leave(c), asked' \in [Client -> File \cup {Nobody}],
         \A d \in Client \ {c} : asked'[d] = asked[d], UNCHANGED <<server, in, out>>
  PROVE  NetInv'
<1> USE SocketsAssumption DEF SocketsAssumption, NetInv, Uploads, Leave, Goes, server
<1>1. NetTypes'
  BY DEF NetTypes, Queued
<1>2. Queued'
  BY DEF NetTypes, Queued
<1>3. TableTrue'
  BY DEF Queued, TableTrue, Connections, Connection, Slotted
<1>4. Found'
  BY DEF Found, Connections, Connection
<1>5. Connections'
  BY DEF NetTypes, Found, Connections, Connection, Requests
<1> QED
  BY <1>1, <1>2, <1>3, <1>4, <1>5

\* A message that goes to the terminal, or nowhere.
LEMMA MovesNet ==
  ASSUME NetInv, NEW c \in Client, at[c] = "command", sock[c] \in {"none", "dead"},
         at' = at \/ (at' = [at EXCEPT ![c] = "read"] /\ asked'[c] \in File),
         asked' \in [Client -> File \cup {Nobody}],
         \A d \in Client \ {c} : asked'[d] = asked[d], UNCHANGED <<server, sock, in, out>>
  PROVE  NetInv'
<1> USE SocketsAssumption DEF SocketsAssumption, NetInv, Uploads, server
<1>1. NetTypes'
  BY DEF NetTypes, Queued
<1>2. Queued'
  BY DEF NetTypes, Queued, Found
<1>3. TableTrue'
  BY DEF NetTypes, Queued, TableTrue, Slotted
<1>4. Found'
  BY DEF Found
<1>5. Connections'
  BY DEF NetTypes, Found, Connections, Connection, Requests
<1> QED
  BY <1>1, <1>2, <1>3, <1>4, <1>5

\* A request is sent behind uploads.
LEMMA SendsNet ==
  ASSUME NetInv, NEW c \in Client, at[c] = "command", sock[c] = "open", NEW m \in File \cup Uploads,
         in' = [in EXCEPT ![c] = Append(@, m)],
         \/ m \in Uploads /\ at' = at
         \/ m \in File /\ at' = [at EXCEPT ![c] = "read"] /\ asked'[c] = m,
         asked' \in [Client -> File \cup {Nobody}],
         \A d \in Client \ {c} : asked'[d] = asked[d], UNCHANGED <<server, sock, out>>
  PROVE  NetInv'
<1> USE SocketsAssumption DEF SocketsAssumption, NetInv, Uploads, server
<1>1. Len(in[c]) \in Nat /\ in[c] \in Seq(File \cup Uploads)
  BY LenProperties DEF NetTypes
<1>2. /\ in'[c] \in Seq(File \cup Uploads) /\ in'[c] # <<>> /\ Len(in'[c]) = Len(in[c]) + 1
      /\ \A k \in 1..Len(in[c]) : in'[c][k] = in[c][k]
      /\ in'[c][Len(in[c]) + 1] = m
      /\ \A d \in Client \ {c} : in'[d] = in[d]
  <2>1. in'[c] = Append(in[c], m) /\ \A d \in Client \ {c} : in'[d] = in[d]
    BY DEF NetTypes
  <2> QED
    BY <1>1, <2>1
<1>3. out[c] = <<>> /\ \A k \in 1..Len(in[c]) : in[c][k] \in Uploads
  BY DEF Connections, Connection
<1>4. NetTypes'
  BY <1>1, <1>2 DEF NetTypes
<1>5. Queued'
  <2>1. \A d \in Client : at[d] = "greet" => at'[d] = at[d]
    BY DEF NetTypes
  <2>2. \A k \in 1..Len(backlog) : backlog[k] \in Client
    BY DEF NetTypes
  <2> QED
    BY <2>1, <2>2 DEF Queued
<1>6. TableTrue'
  BY DEF NetTypes, Queued, TableTrue, Slotted
<1>7. Found'
  BY <1>2 DEF Found
<1>8. Connections'
  <2>1. CASE m \in Uploads
    BY <2>1 DEF Connections, Connection, Requests
  <2>2. CASE m \notin Uploads
    <3>1. Requests(c)'
      BY <1>1, <1>3 DEF Requests
    <3>2. Connection(c)'
      BY <3>1 DEF NetTypes, Connections, Connection
    <3>3. \A d \in Client \ {c} : at'[d] = at[d]
      BY DEF NetTypes
    <3>4. \A d \in Client \ {c} : Connection(d)'
      BY <3>3 DEF Connections, Connection, Requests
    <3> QED
      BY <3>2, <3>4 DEF Connections
  <2> QED
    BY <2>1, <2>2
<1> QED
  BY <1>4, <1>5, <1>6, <1>7, <1>8

\* What has come is one message.
LEMMA TakesNet ==
  ASSUME NetInv, NEW c \in Client, at[c] \in {"greet", "read"},
         out' = [out EXCEPT ![c] = <<>>],
         at' = [at EXCEPT ![c] = "command"],
         out[c] # <<>> \/ sock[c] = "none" \/ (at[c] = "greet" /\ sock[c] = "dead"),
         asked' \in [Client -> File \cup {Nobody}],
         \A d \in Client \ {c} : asked'[d] = asked[d], UNCHANGED <<server, sock, in>>
  PROVE  NetInv'
<1> USE SocketsAssumption DEF SocketsAssumption, NetInv, Uploads, server
<1>1. <<>> \in Seq(File \cup {"welcome"})
  OBVIOUS
<1>2. NetTypes'
  BY <1>1 DEF NetTypes
<1>3. Queued'
  BY <1>1 DEF NetTypes, Queued
<1>4. TableTrue'
  BY DEF Queued, TableTrue, Slotted
<1>5. Found'
  BY DEF Found
<1>6. Connections'
  BY DEF NetTypes, Found, Connections, Connection, Requests
<1> QED
  BY <1>2, <1>3, <1>4, <1>5, <1>6

LEMMA RerunNet ==
  ASSUME NetInv, NEW c \in Client, Rerun(c)
  PROVE  NetInv'
<1> USE SocketsAssumption DEF SocketsAssumption, NetInv, Uploads, Rerun, Goes, server
<1>1. NetTypes'
  BY DEF NetTypes, Queued
<1>2. Queued'
  BY DEF NetTypes, Queued
<1>3. TableTrue'
  BY DEF Queued, TableTrue, Slotted
<1>4. Found'
  BY DEF Found, Connections, Connection
<1>5. Connections'
  BY DEF Found, Connections, Connection, Requests
<1> QED
  BY <1>1, <1>2, <1>3, <1>4, <1>5

\* A write of a client that has nothing under way (Send), in its three ways.
LEMMA WriteNet ==
  ASSUME NetInv, NEW c \in Client, at[c] = "command",
         NEW m \in File \cup Uploads, NEW there, Send(c, m, there),
         \/ m \in Uploads /\ there = "command"
         \/ m \in File /\ there = "read" /\ asked'[c] = m,
         asked' \in [Client -> File \cup {Nobody}],
         \A d \in Client \ {c} : asked'[d] = asked[d], UNCHANGED <<server, out>>
  PROVE  NetInv'
<1>1. CASE sock[c] = "open" /\ in' = [in EXCEPT ![c] = Append(@, m)] /\ Goes(c, there) /\ UNCHANGED sock
  <2>1. \/ m \in Uploads /\ at' = at
        \/ m \in File /\ at' = [at EXCEPT ![c] = "read"] /\ asked'[c] = m
    BY <1>1 DEF Goes, NetInv, NetTypes
  <2> QED
    BY <1>1, <2>1, SendsNet
<1>2. CASE sock[c] \in {"none", "dead"} /\ Goes(c, there) /\ UNCHANGED <<sock, in>>
  <2>1. at' = at \/ (at' = [at EXCEPT ![c] = "read"] /\ asked'[c] \in File)
    BY <1>2 DEF Goes, NetInv, NetTypes
  <2> QED
    BY <1>2, <2>1, MovesNet
<1>3. CASE sock[c] = "dead" /\ Leave(c) /\ UNCHANGED in
  BY <1>3, LeavesNet
<1> QED
  BY <1>1, <1>2, <1>3 DEF Send

LEMMA UploadNet ==
  ASSUME NetInv, NEW c \in Client, Upload(c)
  PROVE  NetInv'
<1>1. at[c] = "command" /\ UNCHANGED <<server, asked, out>>
  BY DEF Upload
<1>2. asked' \in [Client -> File \cup {Nobody}] /\ \A d \in Client \ {c} : asked'[d] = asked[d]
  BY <1>1 DEF NetInv, NetTypes
<1>3. ASSUME NEW m \in {"upload", "empty"}, Send(c, m, "command")
      PROVE  NetInv'
  <2>1. m \in File \cup Uploads /\ m \in Uploads
    BY DEF Uploads
  <2> QED
    BY <1>1, <1>2, <1>3, <2>1, WriteNet
<1>4. CASE Leave(c) /\ UNCHANGED in
  BY <1>1, <1>2, <1>4, LeavesNet
<1> QED
  BY <1>3, <1>4 DEF Upload

LEMMA DownloadNet ==
  ASSUME NetInv, NEW c \in Client, Download(c)
  PROVE  NetInv'
<1>1. PICK f \in File : Send(c, f, "read") /\ asked' = [asked EXCEPT ![c] = f]
  BY DEF Download
<1>2. at[c] = "command" /\ UNCHANGED <<server, out>>
  BY DEF Download
<1>3. /\ asked' \in [Client -> File \cup {Nobody}] /\ asked'[c] = f
      /\ \A d \in Client \ {c} : asked'[d] = asked[d]
  BY <1>1 DEF NetInv, NetTypes
<1> QED
  BY <1>1, <1>2, <1>3, WriteNet

\* A queue of one message is empty when it has been taken.
LEMMA TakenIsAll ==
  ASSUME NetInv, NEW c \in Client, at[c] \in {"greet", "read"}, out[c] # <<>>
  PROVE  Tail(out[c]) = <<>>
<1>1. out[c] = <<"welcome">> \/ out[c] = <<asked[c]>>
  BY DEF NetInv, Connections, Connection
<1> QED
  BY <1>1, OneMessage

LEMMA GreetNet ==
  ASSUME NetInv, NEW c \in Client, Greet(c)
  PROVE  NetInv'
<1>1. at[c] = "greet" /\ UNCHANGED <<server, asked, in>>
  BY DEF Greet
<1>2. asked' \in [Client -> File \cup {Nobody}] /\ \A d \in Client \ {c} : asked'[d] = asked[d]
  BY <1>1 DEF NetInv, NetTypes
<1>3. CASE out[c] # <<>> /\ out' = [out EXCEPT ![c] = Tail(@)] /\ Goes(c, "command") /\ UNCHANGED sock
  <2>1. out' = [out EXCEPT ![c] = <<>>] /\ at' = [at EXCEPT ![c] = "command"]
    BY <1>1, <1>3, TakenIsAll DEF Goes
  <2> QED
    BY <1>1, <1>2, <1>3, <2>1, TakesNet
<1>4. CASE out[c] = <<>> /\ sock[c] = "dead" /\ Goes(c, "command") /\ UNCHANGED <<out, sock>>
  <2>1. out' = [out EXCEPT ![c] = <<>>] /\ at' = [at EXCEPT ![c] = "command"]
    BY <1>4 DEF Goes, NetInv, NetTypes
  <2> QED
    BY <1>1, <1>2, <1>4, <2>1, TakesNet
<1>5. CASE out[c] = <<>> /\ sock[c] = "dead" /\ Leave(c) /\ UNCHANGED out
  BY <1>1, <1>2, <1>5, LeavesNet
<1> QED
  BY <1>3, <1>4, <1>5 DEF Greet

LEMMA AnswerNet ==
  ASSUME NetInv, NEW c \in Client, Receive(c)
  PROVE  NetInv'
<1>1. at[c] = "read" /\ UNCHANGED <<server, in>> /\ asked' = [asked EXCEPT ![c] = Nobody]
  BY DEF Receive
<1>2. asked' \in [Client -> File \cup {Nobody}] /\ \A d \in Client \ {c} : asked'[d] = asked[d]
  BY <1>1 DEF NetInv, NetTypes
<1>3. CASE out[c] # <<>> /\ out' = [out EXCEPT ![c] = Tail(@)] /\ Goes(c, "command") /\ UNCHANGED sock
  <2>1. out' = [out EXCEPT ![c] = <<>>] /\ at' = [at EXCEPT ![c] = "command"]
    BY <1>1, <1>3, TakenIsAll DEF Goes
  <2> QED
    BY <1>1, <1>2, <1>3, <2>1, TakesNet
<1>4. CASE sock[c] = "none" /\ Goes(c, "command") /\ UNCHANGED <<out, sock>>
  <2>1. out[c] = <<>>
    BY <1>4 DEF NetInv, Connections, Connection
  <2>2. out' = [out EXCEPT ![c] = <<>>] /\ at' = [at EXCEPT ![c] = "command"]
    BY <1>4, <2>1 DEF Goes, NetInv, NetTypes
  <2> QED
    BY <1>1, <1>2, <1>4, <2>2, TakesNet
<1>5. CASE out[c] = <<>> /\ sock[c] = "dead" /\ Leave(c) /\ UNCHANGED out
  BY <1>1, <1>2, <1>5, LeavesNet
<1> QED
  BY <1>3, <1>4, <1>5 DEF Receive

LEMMA StartNet ==
  ASSUME NetInv, NEW c \in Client, Start(c)
  PROVE  NetInv'
<1>1. at[c] = "start" /\ UNCHANGED <<up, slot, ready, asked, in, out>>
  BY DEF Start
<1>2. CASE /\ up /\ backlog' = Append(backlog, c)
           /\ sock' = [sock EXCEPT ![c] = "open"] /\ Goes(c, "greet")
  BY <1>1, <1>2, ConnectsNet DEF Goes
<1>3. ASSUME NEW x \in {"gone", "command"}, Goes(c, x), UNCHANGED <<backlog, sock>>
      PROVE  NetInv'
  BY <1>1, <1>3, AloneNet DEF Goes, server
<1> QED
  BY <1>2, <1>3 DEF Start

LEMMA ObeyNet ==
  ASSUME NetInv, NEW c \in Client, Obey(c)
  PROVE  NetInv'
<1>1. PICK m \in 1..Len(in[c]) :
        \/ Head(in[c]) = "empty" /\ m = 1 /\ Stop /\ UNCHANGED out
        \/ /\ ~(Head(in[c]) = "empty" /\ m = 1)
           /\ out' = IF Head(in[c]) \in Uploads THEN out
                     ELSE [out EXCEPT ![c] = Append(@, Head(in[c]))]
           /\ in' = [in EXCEPT ![c] = SubSeq(@, m + 1, Len(@))]
           /\ ready' = ready \ {c}
           /\ UNCHANGED <<up, slot, backlog, at, sock, asked>>
  BY DEF Obey, AnswerTo, Rest, Uploads
<1>2. c \in ready /\ in[c] # <<>>
  BY DEF Obey
<1> QED
  BY <1>1, <1>2, StopNet, ReadNet

\* No connections, no messages.
LEMMA NetStarts ==
  ASSUME InitNet
  PROVE  NetInv
<1> USE SocketsAssumption DEF InitNet, NoSlots, SocketsAssumption
<1>1. NetTypes
  BY EmptySeq DEF NetTypes
<1> QED
  BY <1>1 DEF NetInv, Queued, TableTrue, Found, Connections, Connection

LEMMA NetStep ==
  ASSUME NetInv, [NetNext]_netVars
  PROVE  NetInv'
<1>1. CASE UNCHANGED netVars
  BY <1>1 DEF netVars, server, NetInv, NetTypes, Queued, TableTrue, Found, Connections,
     Connection, Requests, Slotted
<1>2. CASE Select
  BY <1>2, SelectFinds, SelectAccepts
<1>3. CASE Crash
  BY <1>3, StopNet DEF Crash
<1>4. CASE Restart
  BY <1>4, RestartNet
<1>5. CASE \E c \in Client : Hangup(c) \/ Obey(c)
  BY <1>5, HangupNet, ObeyNet
<1>6. CASE \E c \in Client : \/ Start(c) \/ Greet(c) \/ Upload(c)
                             \/ Download(c) \/ Receive(c) \/ Rerun(c)
  BY <1>6, StartNet, GreetNet, UploadNet, DownloadNet, AnswerNet, RerunNet
<1> QED
  BY <1>1, <1>2, <1>3, <1>4, <1>5, <1>6 DEF NetNext, ServerStep

\* The invariant of the connections, the table and the loop of the server.
THEOREM NetInvariant == NetSpec => []NetInv
BY NetStarts, NetStep, PTL DEF NetSpec

\* A client reads the answer to what it has asked for and nothing else (server.c
\* main, client.c handle_command): for any number of clients and entries, through
\* reads that run messages together, crashes and restarts of the server.
THEOREM AnswersAreOwn == NetSpec => []AnswersOwnRequest
<1>1. NetInv => AnswersOwnRequest
  BY DEF NetInv, Connections, Connection, AnswersOwnRequest
<1> QED
  BY <1>1, NetInvariant, PTL

\* client_socket never names a connection twice, one that is closed, or one that
\* still waits for accept, and the loop over it reads from none but those it names.
THEOREM TableStaysTrue == NetSpec => []TableTrue
BY NetInvariant, PTL DEF NetInv
=============================================================================
