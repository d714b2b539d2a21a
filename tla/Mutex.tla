------------------------------- MODULE Mutex -------------------------------
(***************************************************************************)
(* What a lock of this kernel promises, whatever it is made of: each lock  *)
(* has at most one owner, an owner takes it only when it is free, and only *)
(* its owner frees it.                                                     *)
(***************************************************************************)
CONSTANTS
  Lock,    \* the locks
  Agent,   \* who may own one
  Nobody   \* the owner of a free lock

VARIABLE owner

Init == owner = [l \in Lock |-> Nobody]

Take(a, l) ==
  /\ owner[l] = Nobody
  /\ owner' = [owner EXCEPT ![l] = a]

Give(a, l) ==
  /\ owner[l] = a
  /\ owner' = [owner EXCEPT ![l] = Nobody]

Next == \E a \in Agent, l \in Lock : Take(a, l) \/ Give(a, l)

Spec == Init /\ [][Next]_owner
=============================================================================
