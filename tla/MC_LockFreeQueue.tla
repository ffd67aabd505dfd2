-------------------------- MODULE MC_LockFreeQueue --------------------------
(* Small instances of LockFreeQueue. *)
EXTENDS LockFreeQueue

CONSTANTS m1, m2
=============================================================================
