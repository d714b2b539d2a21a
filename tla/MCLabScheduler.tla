--------------------------- MODULE MCLabScheduler ---------------------------
(***************************************************************************)
(* Three slots, the first of them init's, and a word of four bits.         *)
(***************************************************************************)
EXTENDS LabScheduler
=============================================================================
