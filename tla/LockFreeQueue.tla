--------------------------- MODULE LockFreeQueue ----------------------------
(***************************************************************************)
(* osal_lock_free_queue: a ring of total_size = msg_size * msg_max bytes,  *)
(* with one thread that pushes and one that pops, and no lock.  Offsets    *)
(* are in bytes, as in the code, and as stored in uint32_t.                *)
(*                                                                         *)
(* A message is a sequence of msg_size bytes; <<m, k>> is byte k of m.     *)
(*                                                                         *)
(* A definition whose comment calls it a fault stands before the one it    *)
(* is a faulty variant of; nothing uses it but the mutants of the runs.    *)
(***************************************************************************)
EXTENDS Integers, Sequences

CONSTANTS Messages,      \* the messages pushed
          NoMessage,     \* a message no one pushed: bytes never written
          msg_size,      \* bytes of a message
          msg_max,       \* osal_lock_free_queue_init's argument
          Uint32         \* number of values of a uint32_t

(* msg_size * msg_max must fit the 32 bits in which init computes it.      *)
ASSUME LockFreeQueueAssumption ==
    /\ NoMessage \notin Messages
    /\ msg_size \in Nat \ {0}
    /\ msg_max \in Nat \ {0}
    /\ Uint32 \in Nat
    /\ msg_size * msg_max < Uint32

VARIABLES read, write,   \* byte offsets
          buffer,        \* the bytes of the ring
          push,          \* the pushing thread: its place, message, result
          pop            \* the popping thread: its place, bytes, result

vars == <<read, write, buffer, push, pop>>

total_size == (msg_size * msg_max) % Uint32
Offsets    == 0 .. total_size - 1
Bytes      == (Messages \cup {NoMessage}) \X (1 .. msg_size)

Whole(m) == [k \in 1 .. msg_size |-> <<m, k>>]

---------------------------------------------------------------------------
(* osal_lock_free_queue_init *)
Init ==
    /\ read = 0 /\ write = 0
    /\ buffer = [o \in Offsets |-> <<NoMessage, 1>>]
    /\ push = [at |-> "idle", msg |-> NoMessage, ret |-> 0]
    /\ pop = [at |-> "idle", msg |-> Whole(NoMessage), ret |-> 0]

(* Fault: the test does not wrap. *)
IsFullNoWrap == write + msg_size = read

IsFull  == ((write + msg_size) % Uint32) % total_size = read
IsEmpty == read = write

(* Fault: the offset does not wrap. *)
AdvanceNoWrap(o) == o + msg_size

(* Fault: the offset advances by one byte too few. *)
AdvanceShort(o) == (o + msg_size - 1) % total_size

Advance(o) == ((o + msg_size) % Uint32) % total_size

(* A message at offset o is copied by one memcpy up to the end of the      *)
(* buffer and by a second one, from its start, for the bytes left over.    *)
HeadLength(o) == IF total_size - o < msg_size THEN total_size - o ELSE msg_size

(* Where byte k of a message at offset o is. *)
Place(o, k) == IF k <= HeadLength(o) THEN o + k - 1 ELSE k - HeadLength(o) - 1

Region(o) == {Place(o, k) : k \in 1 .. msg_size}

---------------------------------------------------------------------------
(* osal_lock_free_queue_push: test, copy, store to write.                  *)

PushCall(m) ==
    /\ push.at = "idle"
    /\ push' = [at |-> "test", msg |-> m, ret |-> 0]
    /\ UNCHANGED <<read, write, buffer, pop>>

PushTest ==
    /\ push.at = "test"
    /\ push' = IF IsFull THEN [push EXCEPT !.at = "return", !.ret = -1]
                        ELSE [push EXCEPT !.at = "copy"]
    /\ UNCHANGED <<read, write, buffer, pop>>

PushCopy ==
    /\ push.at = "copy"
    /\ buffer' = [o \in Offsets |->
                    IF \E k \in 1 .. msg_size : Place(write, k) = o
                    THEN <<push.msg, CHOOSE k \in 1 .. msg_size : Place(write, k) = o>>
                    ELSE buffer[o]]
    /\ push' = [push EXCEPT !.at = "publish"]
    /\ UNCHANGED <<read, write, pop>>

PushPublish ==
    /\ push.at = "publish"
    /\ write' = Advance(write)
    /\ push' = [push EXCEPT !.at = "return"]
    /\ UNCHANGED <<read, buffer, pop>>

PushReturn ==
    /\ push.at = "return"
    /\ push' = [push EXCEPT !.at = "idle"]
    /\ UNCHANGED <<read, write, buffer, pop>>

---------------------------------------------------------------------------
(* osal_lock_free_queue_pop, which does not look at its msg_size.          *)

PopCall ==
    /\ pop.at = "idle"
    /\ pop' = [at |-> "test", msg |-> Whole(NoMessage), ret |-> 0]
    /\ UNCHANGED <<read, write, buffer, push>>

PopTest ==
    /\ pop.at = "test"
    /\ pop' = IF IsEmpty THEN [pop EXCEPT !.at = "return", !.ret = -1]
                        ELSE [pop EXCEPT !.at = "copy"]
    /\ UNCHANGED <<read, write, buffer, push>>

(* Fault: the last byte is not copied. *)
PopCopyShort ==
    /\ pop.at = "copy"
    /\ pop' = [pop EXCEPT !.at = "publish",
                          !.msg = [k \in 1 .. msg_size |->
                                     IF k < msg_size THEN buffer[Place(read, k)] ELSE @[k]]]
    /\ UNCHANGED <<read, write, buffer, push>>

PopCopy ==
    /\ pop.at = "copy"
    /\ pop' = [pop EXCEPT !.at = "publish",
                          !.msg = [k \in 1 .. msg_size |-> buffer[Place(read, k)]]]
    /\ UNCHANGED <<read, write, buffer, push>>

PopPublish ==
    /\ pop.at = "publish"
    /\ read' = Advance(read)
    /\ pop' = [pop EXCEPT !.at = "return"]
    /\ UNCHANGED <<write, buffer, push>>

PopReturn ==
    /\ pop.at = "return"
    /\ pop' = [pop EXCEPT !.at = "idle"]
    /\ UNCHANGED <<read, write, buffer, push>>

---------------------------------------------------------------------------
Next ==
    \/ \E m \in Messages : PushCall(m)
    \/ PushTest \/ PushCopy \/ PushPublish \/ PushReturn
    \/ PopCall \/ PopTest \/ PopCopy \/ PopPublish \/ PopReturn

Spec == Init /\ [][Next]_vars

---------------------------------------------------------------------------
At == {"idle", "test", "copy", "publish", "return"}

(* Type invariant: the offsets stay inside the buffer. *)
TypeOK ==
    /\ read \in Offsets /\ write \in Offsets
    /\ buffer \in [Offsets -> Bytes]
    /\ push \in [at : At, msg : Messages \cup {NoMessage}, ret : {0, -1}]
    /\ pop \in [at : At, msg : [1 .. msg_size -> Bytes], ret : {0, -1}]

(* No message is ever split over the end of the buffer: the second memcpy  *)
(* of push and pop (osal_lock_free_queue.c:75-78, 102-105) copies nothing. *)
NeverSplit == HeadLength(read) = msg_size /\ HeadLength(write) = msg_size

(* While a message is copied in, no byte of it is copied out: without a    *)
(* lock, only the slot that is_full keeps free separates the two threads   *)
(* (osal_lock_free_queue.c:35, 65, 92).                                    *)
CopiesDisjoint ==
    push.at = "copy" /\ pop.at \in {"copy", "publish"} =>
        Region(write) \cap Region(read) = {}

---------------------------------------------------------------------------
(* The ring as a queue of messages.  Bytes that are not those of one       *)
(* message, in order, are no message.                                      *)

MessageOf(bytes) ==
    IF \E m \in Messages : bytes = Whole(m) THEN bytes[1][1] ELSE NoMessage

Count == ((write - read + total_size) % total_size) \div msg_size

Contents ==
    [i \in 1 .. Count |->
        MessageOf([k \in 1 .. msg_size |->
            buffer[(read + (i - 1) * msg_size + k - 1) % total_size]])]

PushCallOf ==
    CASE push.at \in {"test", "copy", "publish"} -> [op |-> "send", msg |-> push.msg]
      [] push.at = "return" ->
            [op |-> "done", result |-> IF push.ret = 0 THEN "OK" ELSE "FAIL", msg |-> push.msg]
      [] OTHER -> [op |-> "idle"]

PopCallOf ==
    CASE pop.at \in {"test", "copy", "publish"} -> [op |-> "recv", timeout |-> "poll"]
      [] pop.at = "return" ->
            [op |-> "done", result |-> IF pop.ret = 0 THEN "OK" ELSE "TIMEDOUT",
             msg |-> MessageOf(pop.msg)]
      [] OTHER -> [op |-> "idle"]

Abstract == INSTANCE MessageQueue WITH
    Senders   <- {"pusher"},
    Receivers <- {"popper"},
    Capacity  <- msg_max - 1,
    queue     <- Contents,
    closed    <- FALSE,
    call      <- [t \in {"pusher", "popper"} |->
                    IF t = "pusher" THEN PushCallOf ELSE PopCallOf]

(* Pushes and pops of two threads that share no lock are those of a FIFO   *)
(* of msg_max - 1 messages: each comes out once, with all of its bytes and *)
(* in order, and a push or a pop fails only when the queue is full or      *)
(* empty.                                                                  *)
ImplementsMessageQueue == Abstract!Spec
=============================================================================
