------------------------------ MODULE MCInodes ------------------------------
(***************************************************************************)
(* Two processes and three inodes: the root, and mostly a directory with   *)
(* an entry of its own and a file, that can get a second name in the root. *)
(***************************************************************************)
EXTENDS Inodes, TLC

CONSTANTS a, b

MCName == {a, b}

One(name, path) == [name |-> name, rest |-> path]

MCRequests ==
  {One("mkdir", <<a>>), One("create", <<a, b>>), One("open", <<b>>),
   One("unlink", <<a>>), One("unlink", <<b>>), One("unlink", <<a, b>>),
   [name |-> "link", rest |-> <<a, b>>, new |-> <<b>>]}

MCSymmetry == Permutations(Proc)
=============================================================================
