------------------------- MODULE LabScheduler_proofs -------------------------
(***************************************************************************)
(* The scheduler of the scheduling lab, for every table, clock and word    *)
(* size: the type invariant, and that allocproc's draw loop ends.          *)
(*                                                                         *)
(* The draw of allocproc is the remainder of an odd number by an even one, *)
(* so it is odd and never 0.  This is a matter of the constants only: MULT *)
(* is even, ADD is odd, and the 60 tickets and the size of a word are      *)
(* even.  The rest is an invariant of the pass.                            *)
(***************************************************************************)
EXTENDS LabScheduler, TLAPS, FiniteSetTheorems, WellFoundedInduction

\* A number keeps its parity when it is taken modulo an even one.
LEMMA ModKeepsParity ==
  ASSUME NEW x \in Int, NEW m \in Nat \ {0}, m % 2 = 0
  PROVE  x % m \in Int /\ (x % m) % 2 = x % 2
<1>1. m > 0
  OBVIOUS
<1>2. PICK h \in Int : m = 2 * h
  <2>1. m = 2 * (m \div 2) /\ m \div 2 \in Int
    OBVIOUS
  <2> QED
    BY <2>1
<1>3. x % m \in Int /\ x \div m \in Int
  BY <1>1
<1>4. x = m * (x \div m) + (x % m)
  BY <1>1, Z3
<1>5. PICK q \in Int : m * (x \div m) = 2 * q
  <2>1. m * (x \div m) = 2 * (h * (x \div m)) /\ h * (x \div m) \in Int
    BY <1>2, <1>3
  <2> QED
    BY <2>1
<1>6. PICK r \in Int : r = x % m
  BY <1>3
<1>7. x = 2 * q + r
  BY <1>4, <1>5, <1>6
<1>8. r % 2 = x % 2
  BY <1>7
<1> QED
  BY <1>6, <1>8

\* So the value that an odd word has as an int is odd.
LEMMA ToIntKeepsOdd ==
  ASSUME NEW x \in Int, x % 2 = 1
  PROVE  ToInt(x) \in Int /\ ToInt(x) % 2 = 1
<1>1. WordSize \in Nat \ {0} /\ WordSize % 2 = 0
  BY LabAssumption DEF LabAssumption
<1>2. PICK h \in Int : h = WordSize \div 2
  BY <1>1
<1>3. PICK y \in Int : y = x + h
  OBVIOUS
<1>4. PICK r \in Int : r = y % WordSize /\ r % 2 = y % 2
  BY <1>1, ModKeepsParity
<1>5. (r - h) % 2 = 1
  BY <1>3, <1>4
<1> QED
  BY <1>2, <1>3, <1>4, <1>5 DEF ToInt

\* generate_random(60) is never 0, whatever ticks is.
LEMMA DrawIsNotZero ==
  ASSUME NEW t \in Int
  PROVE  Draw(t, DrawnTickets) \in Int \ {0}
<1> DEFINE n == DrawnTickets
<1>1. n \in Nat \ {0} /\ n % 2 = 0
  BY LabAssumption DEF LabAssumption
<1>2. PICK x \in Int : x = t * MULT + ADD /\ x % 2 = 1
  <2>1. PICK h \in Int : MULT = 2 * h
    <3>1. MULT = 2 * (MULT \div 2) /\ MULT \div 2 \in Int
      BY LabAssumption DEF LabAssumption
    <3> QED
      BY <3>1
  <2>2. PICK k \in Int : k = t * h
    BY <2>1
  <2>3. t * MULT + ADD = 2 * k + ADD
    BY <2>1, <2>2
  <2>4. ADD \in Int /\ (2 * k + ADD) % 2 = 1
    BY LabAssumption DEF LabAssumption
  <2> QED
    BY <2>3, <2>4
<1>3. PICK a \in Int : a = ToInt(x) /\ a % 2 = 1
  BY <1>2, ToIntKeepsOdd
<1>4. PICK r \in Int : r = a % n /\ r % 2 = 1
  BY <1>1, <1>3, ModKeepsParity
<1>5. PICK s \in Int : s = (-a) % n /\ s % 2 = 1
  <2>1. PICK b \in Int : b = -a /\ b % 2 = 1
    BY <1>3
  <2>2. b % n \in Int /\ (b % n) % 2 = 1
    BY <1>1, <2>1, ModKeepsParity
  <2> QED
    BY <2>1, <2>2
<1>6. Abs(n) = n
  BY <1>1 DEF Abs
<1>7. Remainder(a, n) = IF a < 0 THEN -s ELSE r
  BY <1>4, <1>5, <1>6 DEF Remainder
<1>8. Draw(t, n) = Remainder(a, n)
  BY <1>1, <1>2, <1>3 DEF Draw
<1> QED
  BY <1>4, <1>5, <1>7, <1>8

-----------------------------------------------------------------------------
\* The sum of tickets, which getTotal counts, as a sum of the values of a
\* function over a finite set.
OneOf(s) == CHOOSE x \in s : TRUE
IsSum(g, f, D) == g = [s \in D |-> IF s = {} THEN 0 ELSE f[OneOf(s)] + g[s \ {OneOf(s)}]]
SumOver(f, S) == (CHOOSE g : IsSum(g, f, SUBSET S))[S]

LEMMA SumTicketsIs ==
  ASSUME NEW S
  PROVE  SumTickets(S) = SumOver(tickets, S)
BY DEF SumTickets, SumOver, IsSum, OneOf, MapThenSumSet, MapThenFoldSet

\* A nonempty set of numbers has a least one.
LEMMA HasLeast ==
  ASSUME NEW S \in SUBSET Nat, S # {}
  PROVE  \E x \in S : \A y \in S : x <= y
<1> DEFINE Less == {ss \in Nat \X Nat : ss[1] < ss[2]}
<1>1. IsWellFoundedOn(Less, Nat)
  BY NatLessThanWellFounded DEF OpToRel
<1> HIDE DEF Less
<1>2. PICK x \in S : \A y \in S : ~(<<y, x>> \in Less)
  BY <1>1, WFMin
<1>3. ASSUME NEW y \in S PROVE x <= y
  <2>1. x \in Nat /\ y \in Nat /\ ~(<<y, x>> \in Less)
    BY <1>2
  <2>2. ~(y < x)
    BY <2>1 DEF Less
  <2> QED
    BY <2>1, <2>2
<1> QED
  BY <1>3

LEMMA MinIsLeast ==
  ASSUME NEW S \in SUBSET Nat, S # {}
  PROVE  Min(S) \in S
<1>1. \E x \in S : \A y \in S : x <= y
  BY HasLeast
<1> QED
  BY <1>1 DEF Min

\* One element less to sum over.
LEMMA OneLess ==
  ASSUME NEW s, IsFiniteSet(s), s # {}
  PROVE  /\ OneOf(s) \in s
         /\ Cardinality(s) \in Nat \ {0}
         /\ IsFiniteSet(s \ {OneOf(s)})
         /\ Cardinality(s \ {OneOf(s)}) = Cardinality(s) - 1
<1>1. OneOf(s) \in s
  BY DEF OneOf
<1>2. Cardinality(s) \in Nat /\ Cardinality(s) # 0
  BY FS_CardinalityType, FS_EmptySet
<1> QED
  BY <1>1, <1>2, FS_RemoveElement

\* The sets of at most n elements have sums.
LEMMA SmallSums ==
  ASSUME NEW S, IsFiniteSet(S), NEW f, NEW n \in Nat
  PROVE  \E g : IsSum(g, f, {s \in SUBSET S : Cardinality(s) <= n})
<1> DEFINE D(k) == {s \in SUBSET S : Cardinality(s) <= k}
           Bad == {k \in Nat : \A g : ~IsSum(g, f, D(k))}
<1>0. \A s \in SUBSET S : IsFiniteSet(s) /\ Cardinality(s) \in Nat
  BY FS_Subset, FS_CardinalityType
<1>1. SUFFICES ASSUME Bad # {} PROVE FALSE
  OBVIOUS
<1>2. PICK k \in Bad : \A j \in Bad : k <= j
  BY <1>1, HasLeast
<1>3. k # 0
  <2> SUFFICES ASSUME k = 0 PROVE FALSE
    OBVIOUS
  <2> DEFINE g == [s \in D(0) |-> 0]
  <2>1. D(0) = {{}}
    BY <1>0, FS_EmptySet
  <2>2. IsSum(g, f, D(0))
    BY <2>1 DEF IsSum
  <2> QED
    BY <1>2, <2>2
<1>4. k - 1 \in Nat /\ k - 1 \notin Bad
  BY <1>2, <1>3
<1>5. PICK g : IsSum(g, f, D(k - 1))
  BY <1>4
<1> DEFINE h == [s \in D(k) |-> IF s = {} THEN 0 ELSE f[OneOf(s)] + g[s \ {OneOf(s)}]]
<1>6. ASSUME NEW s \in D(k), s # {}
      PROVE  s \ {OneOf(s)} \in D(k - 1) /\ s \ {OneOf(s)} \in D(k)
  BY <1>0, <1>6, OneLess
<1>7. ASSUME NEW s \in D(k - 1) PROVE h[s] = g[s]
  <2>1. s \in D(k)
    BY <1>0
  <2> QED
    BY <1>5, <2>1 DEF IsSum
<1>8. h = [s \in D(k) |-> IF s = {} THEN 0 ELSE f[OneOf(s)] + h[s \ {OneOf(s)}]]
  <2>1. \A s \in D(k) : s # {} => h[s \ {OneOf(s)}] = g[s \ {OneOf(s)}]
    BY <1>6, <1>7
  <2> HIDE DEF D
  <2> QED
    BY <2>1
<1>9. IsSum(h, f, D(k))
  BY <1>8 DEF IsSum
<1> QED
  BY <1>2, <1>9

\* What SumOver says, for a finite set: an integer, and 0 for nothing.
LEMMA SumIsInt ==
  ASSUME NEW S, IsFiniteSet(S), NEW f, \A x \in S : f[x] \in Int
  PROVE  SumOver(f, S) \in Int
<1>0. \A s \in SUBSET S : IsFiniteSet(s) /\ Cardinality(s) \in Nat
  BY FS_Subset, FS_CardinalityType
<1>1. PICK n \in Nat : {s \in SUBSET S : Cardinality(s) <= n} = SUBSET S
  <2>1. Cardinality(S) \in Nat /\ \A s \in SUBSET S : Cardinality(s) <= Cardinality(S)
    BY FS_Subset, FS_CardinalityType
  <2> QED
    BY <2>1
<1>2. \E g : IsSum(g, f, SUBSET S)
  <2>1. \E g : IsSum(g, f, {s \in SUBSET S : Cardinality(s) <= n})
    BY SmallSums
  <2> QED
    BY <1>1, <2>1
<1> DEFINE g == CHOOSE g : IsSum(g, f, SUBSET S)
<1>3. IsSum(g, f, SUBSET S)
  BY <1>2
<1> HIDE DEF g
<1> DEFINE Bad == {k \in Nat : \E s \in SUBSET S : Cardinality(s) = k /\ g[s] \notin Int}
<1>4. Bad = {}
  <2> SUFFICES ASSUME Bad # {} PROVE FALSE
    OBVIOUS
  <2>1. PICK k \in Bad : \A m \in Bad : k <= m
    BY HasLeast
  <2>2. PICK s \in SUBSET S : Cardinality(s) = k /\ g[s] \notin Int
    BY <2>1
  <2>3. s # {}
    BY <1>3, <2>2 DEF IsSum
  <2>4. g[s] = f[OneOf(s)] + g[s \ {OneOf(s)}]
    BY <1>3, <2>3 DEF IsSum
  <2>5. /\ OneOf(s) \in s /\ k \in Nat \ {0}
        /\ Cardinality(s \ {OneOf(s)}) = k - 1
    BY <1>0, <2>2, <2>3, OneLess
  <2>6. s \ {OneOf(s)} \in SUBSET S /\ k - 1 \in Nat /\ k - 1 \notin Bad
    BY <2>1, <2>5
  <2>7. g[s \ {OneOf(s)}] \in Int
    BY <2>5, <2>6
  <2> QED
    BY <2>2, <2>4, <2>5, <2>7
<1>5. g[S] \in Int
  BY <1>0, <1>4
<1> QED
  BY <1>5 DEF SumOver, g

-----------------------------------------------------------------------------
State == {"UNUSED", "EMBRYO", "SLEEPING", "RUNNABLE", "RUNNING", "ZOMBIE"}
Part == {"draw", "lottery", "hrrn", "srpf", "end"}

\* The fields of the table, the clock and the scheduler.
Types ==
  /\ state \in [Slot -> State] /\ level \in [Slot -> Level] /\ tickets \in [Slot -> Int]
  /\ ticks \in 0..(WordSize - 1)
  /\ cpu \in Slot \cup {None}
  /\ at \in Part
  /\ rnd \in Int
  /\ found \subseteq Level
  /\ locked \in BOOLEAN /\ ticked \in BOOLEAN
  /\ np \in [Slot -> Slot \cup {None}]

\* A fork under way has a slot of its own.
Forks ==
  /\ \A p \in Slot : np[p] # None => state[np[p]] = "EMBRYO"
  /\ \A p, q \in Slot : np[p] = np[q] /\ np[p] # None => p = q

\* The process that is RUNNING is the one on the CPU.
OneRuns == \A p \in Slot : state[p] = "RUNNING" <=> p = cpu

\* No process is on the CPU before the scan has picked one; who leaves it
\* finds the scan where it was.  HRRN has its turn only without LOTTERY, so
\* that a pass never finds both.
Pass ==
  /\ at \in {"draw", "lottery"} => cpu = None /\ found = {}
  /\ at = "hrrn" => found \subseteq {"LOTTERY"}
  /\ ~({"HRRN", "LOTTERY"} \subseteq found)
  /\ cpu = None => (locked <=> at \in {"hrrn", "srpf", "end"})
  /\ AllocReturns

IInv == Types /\ Forks /\ OneRuns /\ Pass

\* What the constants are.
LEMMA Consts ==
  /\ WordSize \in Nat \ {0} /\ MULT \in Nat /\ ADD \in Nat
  /\ Slot \subseteq Nat /\ IsFiniteSet(Slot)
  /\ None \notin Slot /\ initproc \in Slot
  /\ ExecTickets \in Int /\ DrawnTickets \in Int /\ SetTickets \subseteq Int /\ Settable \subseteq Slot
BY LabAssumption, FS_Interval DEF LabAssumption, Slot, None, initproc

\* The sums are integers.
LEMMA TicketsAddUp ==
  ASSUME Types, NEW S \in SUBSET Slot
  PROVE  SumTickets(S) \in Int
<1>1. IsFiniteSet(S) /\ \A p \in S : tickets[p] \in Int
  BY Consts, FS_Subset DEF Types
<1>2. SumOver(tickets, S) \in Int
  BY <1>1, SumIsInt
<1> QED
  BY <1>2, SumTicketsIs

\* A draw is an int.
LEMMA DrawIsInt ==
  ASSUME NEW t \in Int, NEW n \in Int
  PROVE  Draw(t, n) \in Int
<1>1. PICK x \in Int : x = t * MULT + ADD
  BY Consts
<1>2. PICK a \in Int : a = ToInt(x)
  BY Consts DEF ToInt
<1>3. PICK m \in Nat : m = Abs(n) /\ (n # 0 => m > 0)
  BY DEF Abs
<1>4. CASE n = 0
  BY <1>4 DEF Draw
<1>5. CASE n # 0
  <2>1. PICK r \in Int, s \in Int : r = a % m /\ s = (-a) % m
    BY <1>3, <1>5
  <2>2. Remainder(a, n) = IF a < 0 THEN -s ELSE r
    BY <1>3, <2>1 DEF Remainder
  <2>3. Draw(t, n) = Remainder(a, n)
    BY <1>1, <1>2, <1>5 DEF Draw
  <2> QED
    BY <2>1, <2>2, <2>3
<1> QED
  BY <1>4, <1>5

\* allocproc takes a slot that is UNUSED.
LEMMA FreeSlotIs ==
  FreeSlot = None \/ (FreeSlot \in Slot /\ state[FreeSlot] = "UNUSED")
<1>1. InState("UNUSED") # {} => Min(InState("UNUSED")) \in InState("UNUSED")
  BY Consts, MinIsLeast DEF InState
<1> QED
  BY <1>1 DEF FreeSlot, InState

-----------------------------------------------------------------------------
LEMMA InitIInv == Init => IInv
<1> SUFFICES ASSUME Init PROVE IInv
  OBVIOUS
<1>1. Types
  <2>1. ticks \in 0..(WordSize - 1)
    BY Consts DEF Init
  <2>2. state \in [Slot -> State] /\ level \in [Slot -> Level]
    BY DEF Init, State, Level
  <2>3. tickets \in [Slot -> Int] /\ np \in [Slot -> Slot \cup {None}]
    BY Consts DEF Init
  <2>4. at \in Part /\ rnd \in Int /\ found \subseteq Level
    BY DEF Init, Part
  <2> QED
    BY <2>1, <2>2, <2>3, <2>4 DEF Init, Types
<1>3. Forks /\ OneRuns
  BY Consts DEF Init, Forks, OneRuns
<1>2. Pass
  BY Consts DEF Init, Pass, AllocReturns, None
<1> QED
  BY <1>1, <1>2, <1>3 DEF IInv

LEMMA DrawTicketKeeps == IInv /\ DrawTicket => IInv'
<1> SUFFICES ASSUME IInv, DrawTicket PROVE IInv'
  OBVIOUS
<1>0. Types /\ Forks /\ OneRuns /\ Pass
  BY DEF IInv
<1>1. Types'
  <2>1. Total \in Int /\ ticks \in Int
    <3>1. SumTickets(Counted) \in Int
      BY <1>0, TicketsAddUp DEF Counted, OfLevel
    <3> QED
      BY <1>0, <3>1, Consts DEF Types, Total, ToInt
  <2>2. rnd' \in Int
    BY <2>1, DrawIsInt DEF DrawTicket
  <2> QED
    BY <1>0, <2>2 DEF Types, DrawTicket, procvars, Part
<1>2. Forks'
  BY <1>0, Consts DEF Forks, Types, DrawTicket, procvars
<1>3. OneRuns'
  BY <1>0, Consts DEF OneRuns, Types, DrawTicket, procvars
<1>4. Pass'
  BY <1>0, Consts DEF Pass, Types, Part, AllocReturns, DrawTicket, procvars
<1> QED
  BY <1>1, <1>2, <1>3, <1>4 DEF IInv

\* The scan picks a process that is runnable, or keeps the lock.
LEMMA LotteryKeeps == IInv /\ Lottery => IInv'
<1> SUFFICES ASSUME IInv, Lottery PROVE IInv'
  OBVIOUS
<1>0. Types /\ Forks /\ OneRuns /\ Pass
  BY DEF IInv
<1>6. Named # {} => Min(Named) \in Slot /\ state[Min(Named)] = "RUNNABLE"
  <2>1. Named # {} => Min(Named) \in Named
    BY Consts, MinIsLeast DEF Named, Runnable, InState
  <2> QED
    BY <2>1 DEF Named, Runnable, InState
<1>1. Types'
  <2>1. CASE Named = {}
    BY <1>0, <2>1 DEF Types, Lottery, State, Part, Level
  <2>2. CASE Named # {}
    <3>1. cpu' \in Slot /\ state' \in [Slot -> State] /\ locked' = FALSE
      BY <1>0, <1>6, <2>2 DEF Types, Lottery, Dispatch, State
    <3>2. found' \subseteq Level /\ at' \in Part /\ rnd' = 0
          /\ UNCHANGED <<level, tickets, ticks, np, ticked>>
      BY DEF Lottery, Part, Level
    <3>3. level' \in [Slot -> Level] /\ tickets' \in [Slot -> Int] /\ np' \in [Slot -> Slot \cup {None}]
      BY <1>0, <3>2 DEF Types
    <3>4. ticks' \in 0..(WordSize - 1) /\ ticked' \in BOOLEAN
      BY <1>0, <3>2 DEF Types
    <3>5. cpu' \in Slot \cup {None}
      BY <3>1
    <3>6. locked' \in BOOLEAN
      BY <3>1
    <3>7. rnd' \in Int
      BY <3>2
    <3> QED
      BY <3>1, <3>2, <3>3, <3>4, <3>5, <3>6, <3>7, Zenon DEF Types
  <2> QED
    BY <2>1, <2>2
<1>2. Forks'
  BY <1>0, <1>6, Consts DEF Forks, Types, Lottery, Dispatch, passvars
<1>3. OneRuns'
  BY <1>0, <1>6, Consts DEF OneRuns, Types, Lottery, Dispatch, passvars
<1>4. Pass'
  BY <1>0, <1>6, Consts DEF Pass, Types, Part, AllocReturns, Lottery, Dispatch, None
<1> QED
  BY <1>1, <1>2, <1>3, <1>4 DEF IInv

\* A lower level picks one of its runnable processes.
LEMMA HrrnKeeps == IInv /\ Hrrn => IInv'
<1> SUFFICES ASSUME IInv, Hrrn PROVE IInv'
  OBVIOUS
<1>0. Types /\ Forks /\ OneRuns /\ Pass
  BY DEF IInv
<1>6. /\ cpu = None /\ locked /\ at = "hrrn" /\ at' = "srpf"
      /\ level' = level /\ tickets' = tickets /\ ticks' = ticks /\ rnd' = rnd /\ np' = np /\ ticked' = ticked
  BY DEF Hrrn, Choose
<1>7. \/ UNCHANGED <<cpu, state, locked, found>>
      \/ /\ \E p \in Slot : /\ state[p] = "RUNNABLE" /\ cpu' = p
                             /\ state' = [state EXCEPT ![p] = "RUNNING"]
         /\ locked' = FALSE /\ found' = found \cup {"HRRN"} /\ "LOTTERY" \notin found
  BY DEF Hrrn, Choose, Dispatch, Runnable, InState, HrrnTurn
<1>1. Types'
  <2>1. state' \in [Slot -> State] /\ cpu' \in Slot \cup {None}
    BY <1>0, <1>7 DEF Types, State
  <2> QED
    BY <1>0, <1>6, <1>7, <2>1 DEF Types, Part, Level
<1>2. Forks'
  BY <1>0, <1>6, <1>7, Consts DEF Forks, Types
<1>3. OneRuns'
  <2>1. CASE UNCHANGED <<cpu, state, locked, found>>
    BY <1>0, <1>6, <2>1 DEF OneRuns
  <2>2. CASE ~UNCHANGED <<cpu, state, locked, found>>
    <3>1. PICK q \in Slot : state[q] = "RUNNABLE" /\ cpu' = q /\ state' = [state EXCEPT ![q] = "RUNNING"]
      BY <1>7, <2>2
    <3> QED
      BY <1>0, <1>6, <3>1, Consts DEF OneRuns, Types
  <2> QED
    BY <2>1, <2>2
<1>4. Pass'
  BY <1>0, <1>6, <1>7, Consts DEF Pass, Types, Part, AllocReturns
<1> QED
  BY <1>1, <1>2, <1>3, <1>4 DEF IInv

LEMMA SrpfKeeps == IInv /\ Srpf => IInv'
<1> SUFFICES ASSUME IInv, Srpf PROVE IInv'
  OBVIOUS
<1>0. Types /\ Forks /\ OneRuns /\ Pass
  BY DEF IInv
<1>6. /\ cpu = None /\ locked /\ at = "srpf" /\ at' = "end"
      /\ level' = level /\ tickets' = tickets /\ ticks' = ticks /\ rnd' = rnd /\ np' = np /\ ticked' = ticked
  BY DEF Srpf, Choose
<1>7. \/ UNCHANGED <<cpu, state, locked, found>>
      \/ /\ \E p \in Slot : /\ state[p] = "RUNNABLE" /\ cpu' = p
                             /\ state' = [state EXCEPT ![p] = "RUNNING"]
         /\ locked' = FALSE /\ found' = found \cup {"SRPF"} 
  BY DEF Srpf, Choose, Dispatch, Runnable, InState
<1>1. Types'
  BY <1>0, <1>6, <1>7, Consts DEF Types, State, Part, Level
<1>2. Forks'
  BY <1>0, <1>6, <1>7, Consts DEF Forks, Types
<1>3. OneRuns'
  <2>1. CASE UNCHANGED <<cpu, state, locked, found>>
    BY <1>0, <1>6, <2>1 DEF OneRuns
  <2>2. CASE ~UNCHANGED <<cpu, state, locked, found>>
    <3>1. PICK q \in Slot : state[q] = "RUNNABLE" /\ cpu' = q /\ state' = [state EXCEPT ![q] = "RUNNING"]
      BY <1>7, <2>2
    <3> QED
      BY <1>0, <1>6, <3>1, Consts DEF OneRuns, Types
  <2> QED
    BY <2>1, <2>2
<1>4. Pass'
  BY <1>0, <1>6, <1>7, Consts DEF Pass, Types, Part, AllocReturns
<1> QED
  BY <1>1, <1>2, <1>3, <1>4 DEF IInv

LEMMA EndPassKeeps == IInv /\ EndPass => IInv'
<1> SUFFICES ASSUME IInv, EndPass PROVE IInv'
  OBVIOUS
<1>0. Types /\ Forks /\ OneRuns /\ Pass
  BY DEF IInv
<1>1. Types'
  BY <1>0, Consts DEF Types, EndPass, procvars, Part, KeepsLock
<1>2. Forks'
  BY <1>0, Consts DEF Forks, Types, EndPass, procvars
<1>3. OneRuns'
  BY <1>0, Consts DEF OneRuns, Types, EndPass, procvars
<1>4. Pass'
  BY <1>0, Consts DEF Pass, Types, Part, AllocReturns, EndPass, KeepsLock
<1> QED
  BY <1>1, <1>2, <1>3, <1>4 DEF IInv

\* The timer takes the CPU from a process, or interrupts the scheduler.
LEMMA TimerYieldKeeps == IInv /\ TimerYield => IInv'
<1> SUFFICES ASSUME IInv, TimerYield PROVE IInv'
  OBVIOUS
<1>0. Types /\ Forks /\ OneRuns /\ Pass
  BY DEF IInv
<1>1. Types'
  BY <1>0, Consts DEF Types, TimerYield, Wake, InState, passvars, State, NextTick
<1>2. Forks'
  BY <1>0, Consts DEF Forks, OneRuns, Types, TimerYield, Wake, InState, passvars
<1>3. OneRuns'
  BY <1>0, Consts DEF OneRuns, Types, TimerYield, Wake, InState, passvars
<1>4. Pass'
  BY <1>0, Consts DEF Pass, Types, Part, AllocReturns, TimerYield, Wake, InState, passvars
<1> QED
  BY <1>1, <1>2, <1>3, <1>4 DEF IInv

LEMMA TimerIdleKeeps == IInv /\ TimerIdle => IInv'
<1> SUFFICES ASSUME IInv, TimerIdle PROVE IInv'
  OBVIOUS
<1>0. Types /\ Forks /\ OneRuns /\ Pass
  BY DEF IInv
<1>1. Types'
  BY <1>0, Consts DEF Types, TimerIdle, Wake, InState, passvars, State, NextTick
<1>2. Forks'
  BY <1>0, Consts DEF Forks, Types, TimerIdle, Wake, InState, passvars
<1>3. OneRuns'
  BY <1>0, Consts DEF OneRuns, Types, TimerIdle, Wake, InState, passvars
<1>4. Pass'
  BY <1>0, Consts DEF Pass, Types, Part, AllocReturns, TimerIdle, Wake, InState, passvars
<1> QED
  BY <1>1, <1>2, <1>3, <1>4 DEF IInv

LEMMA WakeupKeeps == IInv /\ Wakeup => IInv'
<1> SUFFICES ASSUME IInv, Wakeup PROVE IInv'
  OBVIOUS
<1>0. Types /\ Forks /\ OneRuns /\ Pass
  BY DEF IInv
<1>1. Types'
  BY <1>0, Consts DEF Types, Wakeup, Wake, InState, passvars, State
<1>2. Forks'
  BY <1>0, Consts DEF Forks, Types, Wakeup, Wake, InState, passvars
<1>3. OneRuns'
  BY <1>0, Consts DEF OneRuns, Types, Wakeup, Wake, InState, passvars
<1>4. Pass'
  BY <1>0, Consts DEF Pass, Types, Part, AllocReturns, Wakeup, Wake, InState, passvars
<1> QED
  BY <1>1, <1>2, <1>3, <1>4 DEF IInv

\* What processes do.
LEMMA SleepKeeps == IInv /\ Sleep => IInv'
<1> SUFFICES ASSUME IInv, Sleep PROVE IInv'
  OBVIOUS
<1>0. Types /\ Forks /\ OneRuns /\ Pass
  BY DEF IInv
<1>1. Types'
  BY <1>0, Consts DEF Types, Sleep, Acts, GiveUp, passvars, State
<1>2. Forks'
  BY <1>0, Consts DEF Forks, OneRuns, Types, Sleep, Acts, GiveUp, passvars
<1>3. OneRuns'
  BY <1>0, Consts DEF OneRuns, Types, Sleep, Acts, GiveUp, passvars
<1>4. Pass'
  BY <1>0, Consts DEF Pass, Types, Part, AllocReturns, Sleep, Acts, GiveUp, passvars
<1> QED
  BY <1>1, <1>2, <1>3, <1>4 DEF IInv

LEMMA ExitKeeps == IInv /\ Exit => IInv'
<1> SUFFICES ASSUME IInv, Exit PROVE IInv'
  OBVIOUS
<1>0. Types /\ Forks /\ OneRuns /\ Pass
  BY DEF IInv
<1>1. Types'
  BY <1>0, Consts DEF Types, Exit, Acts, GiveUp, passvars, State
<1>2. Forks'
  BY <1>0, Consts DEF Forks, OneRuns, Types, Exit, Acts, GiveUp, passvars
<1>3. OneRuns'
  BY <1>0, Consts DEF OneRuns, Types, Exit, Acts, GiveUp, passvars
<1>4. Pass'
  BY <1>0, Consts DEF Pass, Types, Part, AllocReturns, Exit, Acts, GiveUp, passvars
<1> QED
  BY <1>1, <1>2, <1>3, <1>4 DEF IInv

LEMMA ReapKeeps == IInv /\ Reap => IInv'
<1> SUFFICES ASSUME IInv, Reap PROVE IInv'
  OBVIOUS
<1>0. Types /\ Forks /\ OneRuns /\ Pass
  BY DEF IInv
<1>1. Types'
  BY <1>0, Consts DEF Types, Reap, Acts, InState, passvars, State
<1>2. Forks'
  BY <1>0, Consts DEF Forks, Types, Reap, Acts, InState, passvars
<1>3. OneRuns'
  BY <1>0, Consts DEF OneRuns, Types, Reap, Acts, InState, passvars
<1>4. Pass'
  BY <1>0, Consts DEF Pass, Types, Part, AllocReturns, Reap, Acts, InState, passvars
<1> QED
  BY <1>1, <1>2, <1>3, <1>4 DEF IInv

LEMMA AllocKeeps == IInv /\ Alloc => IInv'
<1> SUFFICES ASSUME IInv, Alloc PROVE IInv'
  OBVIOUS
<1>0. Types /\ Forks /\ OneRuns /\ Pass
  BY DEF IInv
<1>6. /\ Draw(ticks, DrawnTickets) \in Int
      /\ Draw(ticks, DrawnTickets) # 0
  <2>1. ticks \in Int
    BY <1>0, Consts DEF Types
  <2> QED
    BY <2>1, DrawIsNotZero
<1>7. PICK n \in Slot : n = FreeSlot /\ state[n] = "UNUSED"
  BY FreeSlotIs DEF Alloc
<1>8. /\ state' = [state EXCEPT ![n] = "EMBRYO"]
      /\ level' = [level EXCEPT ![n] = "LOTTERY"]
      /\ tickets' = [tickets EXCEPT ![n] = Draw(ticks, DrawnTickets)]
      /\ np' = [np EXCEPT ![cpu] = n]
      /\ cpu # None /\ np[cpu] = None
      /\ UNCHANGED <<ticks, cpu, at, rnd, found, locked, ticked>>
  BY <1>6, <1>7 DEF Alloc, Acts, passvars
<1>1. Types'
  BY <1>0, <1>6, <1>7, <1>8, Consts DEF Types, State, Level
<1>2. Forks'
  BY <1>0, <1>6, <1>7, <1>8, Consts DEF Forks, Types
<1>3. OneRuns'
  BY <1>0, <1>6, <1>7, <1>8, Consts DEF OneRuns, Types
<1>4. Pass'
  BY <1>0, <1>6, <1>7, <1>8, Consts DEF Pass, Types, Part, AllocReturns
<1> QED
  BY <1>1, <1>2, <1>3, <1>4 DEF IInv

LEMMA EndForkKeeps == IInv /\ EndFork => IInv'
<1> SUFFICES ASSUME IInv, EndFork PROVE IInv'
  OBVIOUS
<1>0. Types /\ Forks /\ OneRuns /\ Pass
  BY DEF IInv
<1>1. Types'
  BY <1>0, Consts DEF Types, EndFork, passvars, State
<1>2. Forks'
  BY <1>0, Consts DEF Forks, Types, EndFork, passvars
<1>3. OneRuns'
  BY <1>0, Consts DEF OneRuns, Types, Forks, EndFork, passvars
<1>4. Pass'
  BY <1>0, Consts DEF Pass, Types, Part, AllocReturns, EndFork, passvars
<1> QED
  BY <1>1, <1>2, <1>3, <1>4 DEF IInv

LEMMA ExecKeeps == IInv /\ Exec => IInv'
<1> SUFFICES ASSUME IInv, Exec PROVE IInv'
  OBVIOUS
<1>0. Types /\ Forks /\ OneRuns /\ Pass
  BY DEF IInv
<1>1. Types'
  BY <1>0, Consts DEF Types, Exec, Acts, passvars
<1>2. Forks'
  BY <1>0, Consts DEF Forks, Types, Exec, Acts, passvars
<1>3. OneRuns'
  BY <1>0, Consts DEF OneRuns, Types, Exec, Acts, passvars
<1>4. Pass'
  BY <1>0, Consts DEF Pass, Types, Part, AllocReturns, Exec, Acts, passvars
<1> QED
  BY <1>1, <1>2, <1>3, <1>4 DEF IInv

LEMMA SetTicketsOfKeeps == IInv /\ SetTicketsOf => IInv'
<1> SUFFICES ASSUME IInv, SetTicketsOf PROVE IInv'
  OBVIOUS
<1>0. Types /\ Forks /\ OneRuns /\ Pass
  BY DEF IInv
<1>1. Types'
  BY <1>0, Consts DEF Types, SetTicketsOf, Target, Acts, passvars
<1>2. Forks'
  BY <1>0, Consts DEF Forks, Types, SetTicketsOf, Target, Acts, passvars
<1>3. OneRuns'
  BY <1>0, Consts DEF OneRuns, Types, SetTicketsOf, Target, Acts, passvars
<1>4. Pass'
  BY <1>0, Consts DEF Pass, Types, Part, AllocReturns, SetTicketsOf, Target, Acts, passvars
<1> QED
  BY <1>1, <1>2, <1>3, <1>4 DEF IInv

LEMMA ChangeQueueKeeps == IInv /\ ChangeQueue => IInv'
<1> SUFFICES ASSUME IInv, ChangeQueue PROVE IInv'
  OBVIOUS
<1>0. Types /\ Forks /\ OneRuns /\ Pass
  BY DEF IInv
<1>1. Types'
  BY <1>0, Consts DEF Types, ChangeQueue, Target, Acts, passvars
<1>2. Forks'
  BY <1>0, Consts DEF Forks, Types, ChangeQueue, Target, Acts, passvars
<1>3. OneRuns'
  BY <1>0, Consts DEF OneRuns, Types, ChangeQueue, Target, Acts, passvars
<1>4. Pass'
  BY <1>0, Consts DEF Pass, Types, Part, AllocReturns, ChangeQueue, Target, Acts, passvars
<1> QED
  BY <1>1, <1>2, <1>3, <1>4 DEF IInv

-----------------------------------------------------------------------------
LEMMA NextIInv == IInv /\ [Next]_vars => IInv'
<1> SUFFICES ASSUME IInv, [Next]_vars PROVE IInv'
  OBVIOUS
<1>1. CASE UNCHANGED vars
  <2> USE <1>1 DEF vars, procvars, passvars
  <2>1. Types' /\ Forks' /\ OneRuns'
    BY DEF IInv, Types, Forks, OneRuns
  <2>2. Pass'
    BY DEF IInv, Pass, AllocReturns
  <2> QED
    BY <2>1, <2>2 DEF IInv
<1>2. CASE Scheduler
  BY <1>2, DrawTicketKeeps, LotteryKeeps, HrrnKeeps, SrpfKeeps, EndPassKeeps DEF Scheduler
<1>3. CASE TimerYield \/ TimerIdle \/ Wakeup
  BY <1>3, TimerYieldKeeps, TimerIdleKeeps, WakeupKeeps
<1>4. CASE Running
  BY <1>4, SleepKeeps, ExitKeeps, ReapKeeps, AllocKeeps, EndForkKeeps, ExecKeeps, SetTicketsOfKeeps, ChangeQueueKeeps DEF Running
<1> QED
  BY <1>1, <1>2, <1>3, <1>4 DEF Next

\* The scheduler's invariant, over all its passes and the calls of processes.
THEOREM Invariant == Spec => []IInv
<1> QED
  BY InitIInv, NextIInv, PTL DEF Spec

\* One process at most is RUNNING, a fork's slot is an EMBRYO of its own, and
\* ptable.lock is the scheduler's exactly from the scan to the end of a pass.
THEOREM TypeCorrect == Spec => []TypeOK
<1>1. IInv => TypeOK
  <2> SUFFICES ASSUME IInv PROVE TypeOK
    OBVIOUS
  <2>1. InState("RUNNING") = {cpu} \ {None}
    BY Consts DEF IInv, Types, OneRuns, InState
  <2> QED
    BY <2>1 DEF IInv, Types, Forks, Pass, TypeOK, State, Part
<1> QED
  BY <1>1, Invariant, PTL

\* allocproc's loop always ends: a process that has the CPU has not got
\* ptable.lock for good, as the draw that would keep it there never comes.
THEOREM AllocAlwaysReturns == Spec => []AllocReturns
<1>1. IInv => AllocReturns
  BY DEF IInv, Pass
<1> QED
  BY <1>1, Invariant, PTL

=============================================================================
