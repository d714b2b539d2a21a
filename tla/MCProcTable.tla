---------------------------- MODULE MCProcTable ----------------------------
(***************************************************************************)
(* Small tables and one or two CPUs.                                       *)
(***************************************************************************)
EXTENDS ProcTable

CONSTANT cpu1
=============================================================================
