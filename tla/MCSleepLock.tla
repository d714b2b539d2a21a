----------------------------- MODULE MCSleepLock -----------------------------
(* Four processes that compete for one sleep lock. *)
EXTENDS SleepLock

CONSTANTS p1, p2, p3, p4

Four == {p1, p2, p3, p4}
=============================================================================
