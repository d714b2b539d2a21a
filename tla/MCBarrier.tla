------------------------------ MODULE MCBarrier ------------------------------
(* An instance of Barrier: a group as large as the number it waits for. *)
EXTENDS Barrier

CONSTANTS p1, p2, p3

Three == {p1, p2, p3}
=============================================================================
