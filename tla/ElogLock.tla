------------------------------ MODULE ElogLock ------------------------------
(***************************************************************************)
(* The lock of EasyLogger's output that can be disabled, to log from an    *)
(* exception handler (elog.c:372-391, 757-769), and the same code in the   *)
(* flash plugin (elog_flash.c:273-308).  One flow of control locks,        *)
(* unlocks and switches.  A handler runs in the middle of it: it may       *)
(* switch the lock between a lock and its unlock, and log there.           *)
(*                                                                         *)
(* A definition whose comment calls it a fault stands before the one it    *)
(* is a faulty variant of; nothing uses it but the mutants of the runs.    *)
(***************************************************************************)
EXTENDS Naturals

CONSTANTS MaxSwitches,  \* bound: switches
          MaxDepth      \* bound: depth

VARIABLES enabled,          \* output_lock_enabled
          before_enable,    \* output_is_locked_before_enable
          before_disable,   \* output_is_locked_before_disable
          port,             \* the lock of the port is held
          depth,            \* the locks that the flow has not unlocked yet
          last,             \* the last call was a lock
          used,             \* there was a call since the last switch
          settled,          \* and one before each switch
          switches          \* how often the lock was disabled

vars == <<enabled, before_enable, before_disable, port, depth, last, used, settled, switches>>

(* elog_init enables the lock and clears the flags. *)
Init ==
    /\ enabled = TRUE /\ before_enable = FALSE /\ before_disable = FALSE
    /\ port = FALSE /\ depth = 0
    /\ last = FALSE /\ used = TRUE /\ settled = TRUE /\ switches = 0

(* A held lock of the port is waited for: no step, and for ever if the     *)
(* flow itself holds it, until a handler disables the lock.                *)
Lock ==
    /\ enabled => ~ port
    /\ depth < MaxDepth /\ depth' = depth + 1
    /\ last' = TRUE /\ used' = TRUE
    /\ IF enabled THEN port' = TRUE /\ before_disable' = TRUE /\ UNCHANGED before_enable
       ELSE before_enable' = TRUE /\ UNCHANGED <<port, before_disable>>
    /\ UNCHANGED <<enabled, settled, switches>>

Unlock ==
    /\ depth > 0 /\ depth' = depth - 1
    /\ last' = FALSE /\ used' = TRUE
    /\ IF enabled THEN port' = FALSE /\ before_disable' = FALSE /\ UNCHANGED before_enable
       ELSE before_enable' = FALSE /\ UNCHANGED <<port, before_disable>>
    /\ UNCHANGED <<enabled, settled, switches>>

Disable ==
    /\ enabled /\ switches < MaxSwitches
    /\ enabled' = FALSE /\ switches' = switches + 1
    /\ settled' = (settled /\ used) /\ used' = FALSE
    /\ UNCHANGED <<before_enable, before_disable, port, depth, last>>

(* Fault: only a lock that is due is taken, one that is not is not given back. *)
SettledUpwards == port \/ (~ before_disable /\ before_enable)

Settled == IF before_disable = before_enable THEN port ELSE before_enable

(* A lock of the port that is due is not held by others here. *)
Enable ==
    /\ ~ enabled
    /\ enabled' = TRUE /\ port' = Settled
    /\ settled' = (settled /\ used) /\ used' = FALSE
    /\ UNCHANGED <<before_enable, before_disable, depth, last, switches>>

Next == Lock \/ Unlock \/ Disable \/ Enable

Spec == Init /\ [][Next]_vars

---------------------------------------------------------------------------
(* However often the lock is disabled and enabled, as long as there is a   *)
(* call of lock or unlock between any two switches: when the lock is       *)
(* enabled, the lock of the port is held if the last call was a lock, and  *)
(* free if it was an unlock, whichever of them the lock was enabled for    *)
(* (elog.c:757-769).  The flags are not brought up to date by the switch   *)
(* itself, so nothing of the kind holds after two switches in a row.       *)
LockSettled == enabled /\ settled => (port <=> last)

(* elog.c:753: the lock may be disabled to "output system exception log".  *)
(* When it is enabled again after such logs, the lock of the port that was *)
(* held before is held while the flow is inside, as elog.c:765 says: "the  *)
(* output lock is locked before disable, and the lock will locking after   *)
(* enable".  It is not: the unlock of the exception's log is taken for     *)
(* that of the flow.                                                       *)
HeldWhileInside ==
    enabled /\ settled /\ ~ used /\ before_disable /\ depth > 0 => port
=============================================================================
