------------------------------- MODULE MCPipe -------------------------------
(* An instance of Pipe: a buffer of two bytes, counters that wrap at four. *)
EXTENDS Pipe, TLC

CONSTANTS r1, w1, w2, a, b

OneReader == {r1}
TwoWriters == {w1, w2}
AB == {a, b}

Symmetry == Permutations(Writer)
=============================================================================
