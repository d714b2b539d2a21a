---------------------------- MODULE Transactions ----------------------------
(***************************************************************************)
(* What log.c promises to the file system above it: the updates of the     *)
(* system calls reach the disk in groups of whole calls.  A crash undoes   *)
(* the calls since the last group, and never a part of one.                *)
(***************************************************************************)
CONSTANTS
  Block,  \* the disk blocks of the file system
  Value,  \* what a block may contain
  Proc,   \* who makes file system calls
  Blank   \* what mkfs has put into the blocks

VARIABLES
  durable,  \* the contents that survive a crash
  current,  \* the contents that the calls see
  active    \* the processes inside begin_op and end_op

Init ==
  /\ durable = [b \in Block |-> Blank]
  /\ current = durable
  /\ active = {}

Begin(p) ==
  /\ p \notin active
  /\ active' = active \cup {p}
  /\ UNCHANGED <<durable, current>>

Write(p, b, v) ==
  /\ p \in active
  /\ current' = [current EXCEPT ![b] = v]
  /\ UNCHANGED <<durable, active>>

End(p) ==
  /\ p \in active
  /\ active' = active \ {p}
  /\ UNCHANGED <<durable, current>>

Commit ==
  /\ active = {}
  /\ durable' = current
  /\ UNCHANGED <<current, active>>

Crash ==
  /\ current' = durable
  /\ active' = {}
  /\ UNCHANGED durable

Next ==
  \/ \E p \in Proc :
       Begin(p) \/ End(p) \/ \E b \in Block, v \in Value : Write(p, b, v)
  \/ Commit
  \/ Crash

Spec == Init /\ [][Next]_<<durable, current, active>>
=============================================================================
