------------------------------ MODULE ElogFlash -----------------------------
(***************************************************************************)
(* The flash plugin of EasyLogger in its buffered mode (elog_flash.c):     *)
(* logs gather in log_buf, under a lock, and go to the flash in whole      *)
(* words.  A write that overflows the buffer gives up the lock to flush,   *)
(* so other writers get in between.  The flash (EasyFlash) is external:    *)
(* it appends words, is read and is cleaned.                               *)
(*                                                                         *)
(* A definition whose comment calls it a fault stands before the one it    *)
(* is a faulty variant of; nothing uses it but the mutants of the runs.    *)
(***************************************************************************)
EXTENDS Integers, Sequences

CONSTANTS Writers, Nobody,
          Word,         \* 4 bytes
          BufSize,      \* ELOG_FLASH_BUF_SIZE
          ReadSize,     \* bytes of the buffer of elog_flash_output
          LogSizes,
          MaxBytes      \* bound: bytes a writer writes

ElogFlashAssumption ==
    /\ Nobody \notin Writers
    /\ Word \in Nat \ {0} /\ BufSize \in Nat \ {0} /\ ReadSize \in Nat \ {0}
    /\ BufSize % Word = 0 /\ ReadSize % Word = 0 /\ LogSizes \subseteq Nat

VARIABLES lock,         \* who holds the lock of the flash log buffer
          log_buf,      \* its first cur_buf_size bytes
          flash,        \* the words that were written, as bytes
          writer        \* where each writer is, what is left to write, its bytes so far

vars == <<lock, log_buf, flash, writer>>

Pad == <<Nobody, 0>>        \* '\r'
Idle == "idle"

(* elog_flash_init *)
Init ==
    /\ lock = Nobody /\ log_buf = <<>> /\ flash = <<>>
    /\ writer = [w \in Writers |-> [pc |-> Idle, left |-> <<>>, count |-> 0]]

Fill(s) == [k \in 1 .. (Word - (Len(s) % Word)) % Word |-> Pad]

WriteCall(w, size) ==
    LET me == writer[w]
    IN  /\ me.pc = Idle /\ me.count + size <= MaxBytes
        /\ writer' = [writer EXCEPT ![w] =
               [pc |-> "write", left |-> [k \in 1 .. size |-> <<w, me.count + k>>],
                count |-> me.count + size]]
        /\ UNCHANGED <<lock, log_buf, flash>>

Lock(w) ==
    /\ writer[w].pc \in {"write", "flush"} /\ lock = Nobody
    /\ lock' = w
    /\ UNCHANGED <<log_buf, flash, writer>>

(* Fault: what just filled the buffer is not counted in its size. *)
WriteFillKeepsSize(w) ==
    LET me == writer[w]
        room == BufSize - Len(log_buf)
    IN  /\ lock = w /\ me.pc = "write" /\ Len(me.left) > room
        /\ writer' = [writer EXCEPT ![w].pc = "flush",
                                    ![w].left = SubSeq(@, room + 1, Len(@))]
        /\ lock' = Nobody
        /\ UNCHANGED <<flash, log_buf>>

(* elog_flash_write: a turn that overflows, up to the flush. *)
WriteFill(w) ==
    LET me == writer[w]
        room == BufSize - Len(log_buf)
    IN  /\ lock = w /\ me.pc = "write" /\ Len(me.left) > room
        /\ log_buf' = log_buf \o SubSeq(me.left, 1, room)
        /\ writer' = [writer EXCEPT ![w].pc = "flush",
                                    ![w].left = SubSeq(@, room + 1, Len(@))]
        /\ lock' = Nobody
        /\ UNCHANGED flash

(* The last turn. *)
WriteRest(w) ==
    LET me == writer[w]
    IN  /\ lock = w /\ me.pc = "write" /\ Len(me.left) <= BufSize - Len(log_buf)
        /\ log_buf' = log_buf \o me.left
        /\ writer' = [writer EXCEPT ![w].pc = Idle, ![w].left = <<>>]
        /\ lock' = Nobody
        /\ UNCHANGED flash

FlushCall(w) ==
    /\ writer[w].pc = Idle
    /\ writer' = [writer EXCEPT ![w].pc = "flush"]
    /\ UNCHANGED <<lock, log_buf, flash>>

(* elog_flash_flush: of a write, which goes on, or of its own. *)
Flush(w) ==
    /\ lock = w /\ writer[w].pc = "flush"
    /\ flash' = flash \o log_buf \o Fill(log_buf)
    /\ log_buf' = <<>>
    /\ writer' = [writer EXCEPT ![w].pc = IF writer[w].left = <<>> THEN Idle ELSE "write"]
    /\ lock' = Nobody

(* elog_flash_clean, which waits for the lock and gives it back. *)
Clean ==
    /\ lock = Nobody /\ flash # <<>>
    /\ flash' = <<>> /\ log_buf' = <<>>
    /\ UNCHANGED <<lock, writer>>

WriterStep(w) ==
    \/ Lock(w) \/ WriteFill(w) \/ WriteRest(w) \/ Flush(w) \/ FlushCall(w)
    \/ \E size \in LogSizes : WriteCall(w, size)

Next == (\E w \in Writers : WriterStep(w)) \/ Clean

Spec == Init /\ [][Next]_vars

---------------------------------------------------------------------------
(* elog_flash_output: what is printed of size bytes from index, ReadSize   *)
(* bytes at a time; the last of them is printed from over bytes behind its *)
(* beginning.                                                              *)
Printed(index, size) ==
    LET from == Word * (index \div Word)
        turns == IF size = 0 THEN 0 ELSE (size - 1) \div ReadSize
        over == (Word - ((size - turns * ReadSize) % Word)) % Word
    IN  IF from + size > Len(flash) THEN <<>>
        ELSE SubSeq(flash, from + 1, from + turns * ReadSize)
               \o SubSeq(flash, from + turns * ReadSize + over + 1, from + size + over)

(* elog_flash_output_recent *)
PrintedRecent(size) ==
    IF size = 0 \/ size > Len(flash) THEN <<>> ELSE Printed(Len(flash) - size, size)

Recent(size) == SubSeq(flash, Len(flash) - size + 1, Len(flash))

(* Of what w has put in the buffer, s has the bytes in order, each of them *)
(* followed by all later ones.                                             *)
InOrder(s, w) ==
    LET put == writer[w].count - Len(writer[w].left)
    IN  \A j \in 1 .. Len(s) : s[j][1] = w =>
            /\ s[j][2] \in 1 .. put
            /\ \A k \in j + 1 .. Len(s) : s[k][1] = w => s[j][2] < s[k][2]
            /\ \A n \in s[j][2] .. put : \E k \in j .. Len(s) : s[k] = <<w, n>>

(* The bytes of each writer are in the flash, then in the buffer, then in  *)
(* what it has yet to write: in order, without one missing since the last  *)
(* clean, and padding stands only at the end of a word that was begun,     *)
(* whichever writers flush each other's bytes meanwhile                    *)
(* (elog_flash.c:178-196, 224).                                            *)
FlashKeepsLogs ==
    /\ Len(flash) % Word = 0
    /\ \A w \in Writers :
         /\ InOrder(flash \o log_buf, w)
         /\ \A k \in 1 .. Len(writer[w].left) :
                writer[w].left[k] = <<w, writer[w].count - Len(writer[w].left) + k>>
    /\ \A k \in 1 .. Len(log_buf) : log_buf[k] # Pad
    /\ \A k \in 1 .. Len(flash) : flash[k] = Pad =>
         (k - 1) % Word # 0 /\ (k % Word # 0 => flash[k + 1] = Pad)

(* The last size bytes are what elog_flash_output_recent prints, if they   *)
(* are whole words or fit one read (elog_flash.c:105-123, 150); otherwise  *)
(* it begins a few bytes early and leaves as many out in the middle.       *)
PrintsRecent ==
    \A size \in 1 .. Len(flash) :
        size % Word = 0 \/ size <= ReadSize => PrintedRecent(size) = Recent(size)
=============================================================================
