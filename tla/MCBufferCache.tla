---------------------------- MODULE MCBufferCache ----------------------------
(***************************************************************************)
(* Three clients, and two buffers for three blocks: clients meet at a      *)
(* buffer, buffers are recycled, and bget may find none.                   *)
(***************************************************************************)
EXTENDS BufferCache

CONSTANTS c1, c2, b1, b2, b3, x, y, p1, p2, p3

Two == {c1, c2}
Order == <<c2, c1>>
Three == {b1, b2, b3}
Changing == {b1}
XY == {x, y}
MkfsContents == [b \in Three |-> IF b = b2 THEN y ELSE x]
ThreeClients == {p1, p2, p3}
=============================================================================
