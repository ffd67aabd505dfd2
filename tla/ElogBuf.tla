------------------------------- MODULE ElogBuf ------------------------------
(***************************************************************************)
(* Buffered output of EasyLogger (elog_buf.c): logs gather in log_buf and  *)
(* go to elog_port_output when it overflows or is flushed.  elog_output    *)
(* calls elog_buf_output with the output locked; elog_flush looks at the   *)
(* buffer first and locks then.  Bytes are numbered as they are logged.    *)
(*                                                                         *)
(* A definition whose comment calls it a fault stands before the one it    *)
(* is a faulty variant of; nothing uses it but the mutants of the runs.    *)
(***************************************************************************)
EXTENDS Integers, Sequences

CONSTANTS BufSize,      \* ELOG_BUF_OUTPUT_BUF_SIZE
          LogSizes,     \* lengths of the lines that are logged
          MaxBytes      \* bound: bytes logged

ElogBufAssumption == BufSize \in Nat \ {0} /\ LogSizes \subseteq Nat /\ MaxBytes \in Nat

VARIABLES is_enabled,
          log_buf,      \* its first buf_write_size bytes
          port,         \* what elog_port_output was given
          flush,        \* where elog_flush is: "none", "lock", "reset"
          logged,       \* number of bytes logged
          switched      \* the mode was switched off with logs in the buffer

vars == <<is_enabled, log_buf, port, flush, logged, switched>>

Init ==
    /\ is_enabled = FALSE /\ log_buf = <<>> /\ port = <<>>
    /\ flush = "none" /\ logged = 0 /\ switched = FALSE

Bytes(size) == [k \in 1 .. size |-> logged + k]

(* elog_buf_output, the output locked: as often as what is buffered and    *)
(* logged exceeds the buffer, a whole buffer goes out.                     *)
Output(size) ==
    LET all == log_buf \o Bytes(size)
        out == IF all = <<>> THEN 0 ELSE BufSize * ((Len(all) - 1) \div BufSize)
    IN  /\ flush # "reset" /\ logged + size <= MaxBytes
        /\ logged' = logged + size
        /\ IF is_enabled
           THEN /\ port' = port \o SubSeq(all, 1, out)
                /\ log_buf' = SubSeq(all, out + 1, Len(all))
           ELSE port' = port \o Bytes(size) /\ UNCHANGED log_buf
        /\ UNCHANGED <<is_enabled, flush, switched>>

FlushTest ==
    /\ flush = "none" /\ log_buf # <<>>
    /\ flush' = "lock"
    /\ UNCHANGED <<is_enabled, log_buf, port, logged, switched>>

(* Fault: the lock is given back before the buffer is reset. *)
FlushPrintUnlocks ==
    /\ flush = "lock"
    /\ port' = port \o log_buf
    /\ flush' = "unlocked"
    /\ UNCHANGED <<is_enabled, log_buf, logged, switched>>

FlushPrint ==
    /\ flush = "lock"
    /\ port' = port \o log_buf
    /\ flush' = "reset"
    /\ UNCHANGED <<is_enabled, log_buf, logged, switched>>

FlushReset ==
    /\ flush \notin {"none", "lock"}
    /\ log_buf' = <<>>
    /\ flush' = "none"
    /\ UNCHANGED <<is_enabled, port, logged, switched>>

(* elog_buf_enabled, from elog_start and elog_stop: nothing is flushed. *)
BufEnabled(enabled) ==
    /\ is_enabled' = enabled
    /\ switched' = (switched \/ (~ enabled /\ log_buf # <<>>))
    /\ UNCHANGED <<log_buf, port, flush, logged>>

Next ==
    \/ \E size \in LogSizes : Output(size)
    \/ FlushTest \/ FlushPrint \/ FlushReset
    \/ \E enabled \in BOOLEAN : BufEnabled(enabled)

Spec == Init /\ [][Next]_vars

---------------------------------------------------------------------------
(* Every byte that was logged has been printed or is in the buffer, once   *)
(* (elog_buf.c:62-77, 83-94), and, unless the mode was switched off with   *)
(* logs in the buffer, which later ones then overtake, in order.           *)
PrintedOnce ==
    LET seen == IF flush = "reset" THEN port ELSE port \o log_buf
    IN  /\ Len(seen) = logged
        /\ {seen[k] : k \in 1 .. Len(seen)} = 1 .. logged
        /\ ~ switched => \A k \in 1 .. Len(seen) : seen[k] = k
=============================================================================
