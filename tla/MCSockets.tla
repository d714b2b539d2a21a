------------------------------ MODULE MCSockets ------------------------------
(***************************************************************************)
(* Three clients and two entries in the server's table, so that one client *)
(* may be forgotten; two messages fit in a connection.                     *)
(***************************************************************************)
EXTENDS Sockets
=============================================================================
