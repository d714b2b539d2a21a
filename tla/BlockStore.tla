----------------------------- MODULE BlockStore -----------------------------
(***************************************************************************)
(* What the buffer cache and the disk driver promise to the log and the    *)
(* file system: blocks that one process at a time has, that keep what is   *)
(* put into them, and that a synchronous write makes durable.              *)
(***************************************************************************)
CONSTANTS
  Block,    \* the blocks of the disk
  Value,    \* what a block may contain
  Initial,  \* what the blocks contain at first
  Client,   \* who uses blocks
  Nobody    \* the owner of a block that nobody uses

VARIABLES
  contents,  \* what a process finds in each block
  durable,   \* what it would find after a crash
  owner      \* who has the block

Init ==
  /\ contents = Initial
  /\ durable = Initial
  /\ owner = [b \in Block |-> Nobody]

Take(p, b) ==
  /\ owner[b] = Nobody
  /\ owner' = [owner EXCEPT ![b] = p]
  /\ UNCHANGED <<contents, durable>>

Change(b, v) ==
  /\ owner[b] # Nobody
  /\ contents' = [contents EXCEPT ![b] = v]
  /\ UNCHANGED <<durable, owner>>

Sync(b) ==
  /\ owner[b] # Nobody
  /\ durable' = [durable EXCEPT ![b] = contents[b]]
  /\ UNCHANGED <<contents, owner>>

Give(b) ==
  /\ owner[b] # Nobody
  /\ owner' = [owner EXCEPT ![b] = Nobody]
  /\ UNCHANGED <<contents, durable>>

Crash ==
  /\ contents' = durable
  /\ owner' = [b \in Block |-> Nobody]
  /\ UNCHANGED durable

Next ==
  \/ \E b \in Block :
       \/ Sync(b) \/ Give(b)
       \/ \E p \in Client : Take(p, b)
       \/ \E v \in Value : Change(b, v)
  \/ Crash

Spec == Init /\ [][Next]_<<contents, durable, owner>>
=============================================================================
