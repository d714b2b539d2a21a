-------------------------------- MODULE MCLog --------------------------------
(* An instance of Log: two processes, three blocks and two contents. *)
EXTENDS Log, TLC

CONSTANTS b1, b2, b3, x, y, p1, p2

Three == {b1, b2, b3}
XY == {x, y}
TwoProc == {p1, p2}

Symmetry == Permutations(Block) \cup Permutations(Proc)
=============================================================================
