------------------------ MODULE LockFreeQueue_proofs ------------------------
(***************************************************************************)
(* Proofs about LockFreeQueue, for every size and number of messages whose *)
(* product fits a uint32_t.                                                *)
(***************************************************************************)
EXTENDS LockFreeQueue, TLAPS

(* The offset of slot k. *)
OffsetOf(k) == k * msg_size

Slots == 0 .. msg_max - 1

(* An offset at which a message begins. *)
Aligned(o) == \E k \in Slots : o = OffsetOf(k)

LEMMA TotalSize == total_size = msg_size * msg_max /\ total_size \in Nat \ {0}
<1>1. msg_size * msg_max \in Nat \ {0}
  BY LockFreeQueueAssumption
<1>. QED
  BY <1>1, LockFreeQueueAssumption DEF total_size

(* A slot ends where the next one begins, or at the end of the buffer. *)
LEMMA SlotFits ==
  ASSUME NEW k \in Slots
  PROVE  /\ OffsetOf(k) \in Nat
         /\ OffsetOf(k) + msg_size = (k + 1) * msg_size
         /\ (k + 1) * msg_size <= total_size
         /\ k + 1 # msg_max => (k + 1) * msg_size + msg_size <= total_size
<1> USE LockFreeQueueAssumption, TotalSize DEF Slots, OffsetOf
<1>1. OffsetOf(k) \in Nat /\ OffsetOf(k) + msg_size = (k + 1) * msg_size
  OBVIOUS
<1>2. \A j \in Nat : j <= msg_max => j * msg_size <= msg_max * msg_size
  OBVIOUS
<1>3. (k + 1) * msg_size <= total_size
  BY <1>2
<1>4. ASSUME k + 1 # msg_max
      PROVE  (k + 1) * msg_size + msg_size <= total_size
  <2>1. (k + 2) * msg_size <= total_size
    BY <1>2, <1>4
  <2>2. (k + 2) * msg_size = (k + 1) * msg_size + msg_size
    OBVIOUS
  <2>. QED
    BY <2>1, <2>2
<1>. QED
  BY <1>1, <1>3, <1>4

(* Advancing goes to the next slot, and from the last to the first. *)
LEMMA AdvanceSlot ==
  ASSUME NEW k \in Slots
  PROVE  Advance(OffsetOf(k)) = OffsetOf(IF k + 1 = msg_max THEN 0 ELSE k + 1)
<1> USE LockFreeQueueAssumption, TotalSize
<1>1. OffsetOf(k) + msg_size = (k + 1) * msg_size /\ (k + 1) * msg_size <= total_size
  BY SlotFits
<1>2. (OffsetOf(k) + msg_size) % Uint32 = (k + 1) * msg_size
  <2>1. (k + 1) * msg_size \in Nat /\ (k + 1) * msg_size < Uint32
    BY <1>1 DEF Slots
  <2>. QED
    BY <1>1, <2>1
<1>3. CASE k + 1 = msg_max
  <2>1. (k + 1) * msg_size = total_size
    BY <1>3
  <2>2. total_size % total_size = 0
    OBVIOUS
  <2>. QED
    BY <1>2, <1>3, <2>1, <2>2 DEF Advance, OffsetOf
<1>4. CASE k + 1 # msg_max
  <2>1. (k + 1) * msg_size \in Nat /\ (k + 1) * msg_size < total_size
    BY <1>4, SlotFits DEF Slots
  <2>2. ((k + 1) * msg_size) % total_size = (k + 1) * msg_size
    BY <2>1
  <2>. QED
    BY <1>2, <1>4, <2>2 DEF Advance, OffsetOf
<1>. QED
  BY <1>3, <1>4

LEMMA AdvanceAligned == \A o : Aligned(o) => Aligned(Advance(o))
<1> SUFFICES ASSUME NEW k \in Slots
             PROVE  Aligned(Advance(OffsetOf(k)))
  BY DEF Aligned
<1>1. (IF k + 1 = msg_max THEN 0 ELSE k + 1) \in Slots
  BY LockFreeQueueAssumption DEF Slots
<1>. QED
  BY <1>1, AdvanceSlot DEF Aligned

(* A message at an aligned offset lies in one piece inside the buffer. *)
LEMMA AlignedFits ==
  ASSUME NEW o, Aligned(o)
  PROVE  /\ o \in Offsets
         /\ HeadLength(o) = msg_size
         /\ \A k \in 1 .. msg_size : Place(o, k) = o + k - 1 /\ Place(o, k) \in Offsets
<1> USE LockFreeQueueAssumption, TotalSize
<1>1. PICK k \in Slots : o = OffsetOf(k)
  BY DEF Aligned
<1>2. o \in Nat /\ o + msg_size <= total_size
  BY <1>1, SlotFits
<1>. QED
  BY <1>2 DEF HeadLength, Place, Offsets

(* Messages at two different aligned offsets have no byte in common. *)
LEMMA AlignedDisjoint ==
  ASSUME NEW o, NEW p, Aligned(o), Aligned(p), o # p
  PROVE  Region(o) \cap Region(p) = {}
<1> USE LockFreeQueueAssumption
<1>1. PICK j \in Slots : o = OffsetOf(j)
  BY DEF Aligned
<1>2. PICK k \in Slots : p = OffsetOf(k)
  BY DEF Aligned
<1>3. o \in Nat /\ p \in Nat
  BY <1>1, <1>2, SlotFits
<1>4. o + msg_size <= p \/ p + msg_size <= o
  <2>1. \A a, b \in Slots : a < b => (a + 1) * msg_size <= b * msg_size
    BY DEF Slots
  <2>2. j < k \/ k < j
    BY <1>1, <1>2 DEF Slots
  <2>3. o + msg_size = (j + 1) * msg_size /\ p + msg_size = (k + 1) * msg_size
    BY <1>1, <1>2, SlotFits
  <2>. QED
    BY <1>1, <1>2, <2>1, <2>2, <2>3 DEF OffsetOf
<1>5. \A i \in 1 .. msg_size : Place(o, i) = o + i - 1 /\ Place(p, i) = p + i - 1
  BY AlignedFits
<1>. QED
  BY <1>3, <1>4, <1>5 DEF Region

---------------------------------------------------------------------------
(* The inductive invariant: both offsets begin a slot, and between its     *)
(* test and its store each thread knows that the two are apart.            *)
IInv ==
    /\ Aligned(read) /\ Aligned(write)
    /\ push.at \in {"copy", "publish"} => Advance(write) # read
    /\ pop.at \in {"copy", "publish"} => read # write

LEMMA IInvInit == Init => IInv
<1> SUFFICES ASSUME Init
             PROVE  IInv
  OBVIOUS
<1>1. 0 \in Slots /\ OffsetOf(0) = 0
  BY LockFreeQueueAssumption DEF Slots, OffsetOf
<1>. QED
  BY <1>1 DEF Init, IInv, Aligned

(* Different slots have different successors. *)
LEMMA AdvanceInjective ==
  ASSUME NEW o, NEW p, Aligned(o), Aligned(p), Advance(o) = Advance(p)
  PROVE  o = p
<1> USE LockFreeQueueAssumption
<1>1. PICK j \in Slots : o = OffsetOf(j)
  BY DEF Aligned
<1>2. PICK k \in Slots : p = OffsetOf(k)
  BY DEF Aligned
<1>3. \A a, b \in Nat : a * msg_size = b * msg_size => a = b
  OBVIOUS
<1> DEFINE next(i) == IF i + 1 = msg_max THEN 0 ELSE i + 1
<1>4. next(j) = next(k)
  <2>1. next(j) \in Nat /\ next(k) \in Nat
    BY DEF Slots
  <2>2. OffsetOf(next(j)) = OffsetOf(next(k))
    BY <1>1, <1>2, AdvanceSlot
  <2>. QED
    BY <1>3, <2>1, <2>2 DEF OffsetOf
<1>5. j = k
  BY <1>4 DEF Slots
<1>. QED
  BY <1>1, <1>2, <1>5

(* An alternative of Next changes one of the two threads and what it owns. *)
LEMMA IInvStep == IInv /\ [Next]_vars => IInv'
<1> SUFFICES ASSUME IInv, [Next]_vars
             PROVE  IInv'
  OBVIOUS
<1> USE DEF IInv
<1>1. ASSUME NEW m \in Messages, PushCall(m)
      PROVE  IInv'
  BY <1>1 DEF PushCall, Advance
<1>2. CASE PushTest
  BY <1>2 DEF PushTest, IsFull, Advance
<1>3. CASE PushCopy
  BY <1>3 DEF PushCopy, Advance
<1>4. CASE PushPublish
  <2>1. write' = Advance(write) /\ push'.at = "return" /\ UNCHANGED <<read, pop>>
        /\ Advance(write) # read
    BY <1>4 DEF PushPublish
  <2>. QED
    BY <2>1, AdvanceAligned
<1>5. CASE PushReturn
  BY <1>5 DEF PushReturn
<1>6. CASE PopCall
  BY <1>6 DEF PopCall, Advance
<1>7. CASE PopTest
  BY <1>7 DEF PopTest, IsEmpty, Advance
<1>8. CASE PopCopy
  BY <1>8 DEF PopCopy, Advance
<1>9. CASE PopPublish
  <2>1. read' = Advance(read) /\ pop'.at = "return" /\ UNCHANGED <<write, push>>
        /\ read # write
    BY <1>9 DEF PopPublish
  <2>2. Advance(write)' = Advance(write)
    BY <2>1 DEF Advance
  <2>3. Advance(write) # Advance(read)
    BY <2>1, AdvanceInjective
  <2>. QED
    BY <2>1, <2>2, <2>3, AdvanceAligned
<1>10. CASE PopReturn
  BY <1>10 DEF PopReturn, Advance
<1>11. CASE UNCHANGED vars
  BY <1>11 DEF vars, Advance
<1>. QED
  BY <1>1, <1>2, <1>3, <1>4, <1>5, <1>6, <1>7, <1>8, <1>9, <1>10, <1>11 DEF Next

(* Theorem: a message is never split over the end of the buffer, so that   *)
(* the second memcpy of push and pop (osal_lock_free_queue.c:75-78,        *)
(* 102-105) never copies anything.                                         *)
THEOREM NeverSplitHolds == Spec => []NeverSplit
<1>1. IInv => NeverSplit
  BY AlignedFits DEF IInv, NeverSplit
<1>. QED
  BY <1>1, IInvInit, IInvStep, PTL DEF Spec

(* Theorem: although the two threads share no lock, no byte is copied out  *)
(* while it is copied in; the slot is_full keeps free                      *)
(* (osal_lock_free_queue.c:35) is between them.                            *)
THEOREM CopiesDisjointHolds == Spec => []CopiesDisjoint
<1>1. IInv => CopiesDisjoint
  BY AlignedDisjoint DEF IInv, CopiesDisjoint
<1>. QED
  BY <1>1, IInvInit, IInvStep, PTL DEF Spec

---------------------------------------------------------------------------
(* Type correctness: the offsets stay inside the buffer because they are   *)
(* aligned.                                                                *)
LEMMA InitTypeOK == Init => TypeOK
<1> SUFFICES ASSUME Init
             PROVE  TypeOK
  OBVIOUS
<1>1. Aligned(read) /\ Aligned(write)
  BY IInvInit DEF IInv
<1>2. 1 \in 1 .. msg_size
  BY LockFreeQueueAssumption
<1>. QED
  BY <1>1, <1>2, AlignedFits DEF Init, TypeOK, At, Bytes, Whole

LEMMA StepTypeOK == TypeOK /\ IInv /\ [Next]_vars => TypeOK'
<1> SUFFICES ASSUME TypeOK, IInv, [Next]_vars
             PROVE  TypeOK'
  OBVIOUS
<1> USE DEF TypeOK, At
<1>1. (read \in Offsets /\ write \in Offsets)'
  <2>1. Aligned(read)' /\ Aligned(write)'
    BY IInvStep DEF IInv
  <2>2. \A o : Aligned(o) => o \in Offsets
    BY AlignedFits
  <2>. QED
    BY <2>1, <2>2 DEF Aligned, Offsets, OffsetOf, Slots, total_size
<1>2. (buffer \in [Offsets -> Bytes])'
  <2>1. CASE PushCopy
    BY <2>1 DEF PushCopy, Bytes
  <2>2. CASE ~ PushCopy
    BY <2>2 DEF Next, PushCall, PushTest, PushPublish, PushReturn, PopCall, PopTest, PopCopy,
                PopPublish, PopReturn, vars
  <2>. QED
    BY <2>1, <2>2
<1>3. (push \in [at : At, msg : Messages \cup {NoMessage}, ret : {0, -1}])'
  <2>1. CASE PushTest
    BY <2>1 DEF PushTest
  <2>2. CASE PushCopy \/ PushPublish \/ PushReturn
    BY <2>2 DEF PushCopy, PushPublish, PushReturn
  <2>3. CASE ~ PushTest /\ ~ PushCopy /\ ~ PushPublish /\ ~ PushReturn
    BY <2>3 DEF Next, PushCall, PopCall, PopTest, PopCopy, PopPublish, PopReturn, vars
  <2>. QED
    BY <2>1, <2>2, <2>3
<1>4. (pop \in [at : At, msg : [1 .. msg_size -> Bytes], ret : {0, -1}])'
  <2>1. CASE PopCopy
    <3>1. \A k \in 1 .. msg_size : buffer[Place(read, k)] \in Bytes
      BY AlignedFits DEF IInv
    <3>. QED
      BY <2>1, <3>1 DEF PopCopy
  <2>2. CASE PopCall
    BY <2>2 DEF PopCall, Whole, Bytes
  <2>3. CASE ~ PopCopy /\ ~ PopCall
    BY <2>3 DEF Next, PushCall, PushTest, PushCopy, PushPublish, PushReturn, PopTest,
                PopPublish, PopReturn, vars
  <2>. QED
    BY <2>1, <2>2, <2>3
<1>. QED
  BY <1>1, <1>2, <1>3, <1>4

(* Theorem: the offsets and the bytes are always what the code declares.   *)
THEOREM TypeCorrect == Spec => []TypeOK
BY InitTypeOK, StepTypeOK, IInvInit, IInvStep, PTL DEF Spec

---------------------------------------------------------------------------
(* The ring as a sequence, slot by slot.                                   *)

Successor(k) == IF k + 1 = msg_max THEN 0 ELSE k + 1

CountOf(r, w) == (w - r + msg_max) % msg_max

(* The message in slot k of the bytes buf. *)
MessageIn(buf, k) == MessageOf([i \in 1 .. msg_size |-> buf[OffsetOf(k) + i - 1]])

QueueOf(r, w, buf) ==
    [i \in 1 .. CountOf(r, w) |-> MessageIn(buf, (r + i - 1) % msg_max)]

LEMMA SlotArithmetic ==
  ASSUME NEW r \in Slots, NEW w \in Slots
  PROVE  /\ CountOf(r, w) \in 0 .. msg_max - 1
         /\ CountOf(r, w) = IF w >= r THEN w - r ELSE w - r + msg_max
         /\ r # w => CountOf(Successor(r), w) = CountOf(r, w) - 1 /\ CountOf(r, w) > 0
         /\ Successor(w) # r => /\ CountOf(r, Successor(w)) = CountOf(r, w) + 1
                                /\ CountOf(r, w) < msg_max - 1
         /\ Successor(w) = r => CountOf(r, w) = msg_max - 1
         /\ (r + CountOf(r, w)) % msg_max = w
         /\ Successor(r) \in Slots
BY LockFreeQueueAssumption DEF Slots, CountOf, Successor

(* Byte k of the message that is j slots after slot r. *)
LEMMA BytePlace ==
  ASSUME NEW r \in Slots, NEW j \in Slots, NEW k \in 1 .. msg_size
  PROVE  (OffsetOf(r) + j * msg_size + k - 1) % total_size
            = OffsetOf((r + j) % msg_max) + k - 1
<1> USE LockFreeQueueAssumption, TotalSize
<1> DEFINE o == OffsetOf(r) + j * msg_size + k - 1
<1>1. o = (r + j) * msg_size + k - 1
  BY DEF OffsetOf, Slots
<1>2. \A s \in Slots : s * msg_size + k - 1 \in 0 .. total_size - 1
  <2>1. SUFFICES ASSUME NEW s \in Slots
                 PROVE  s * msg_size + k - 1 \in 0 .. total_size - 1
    OBVIOUS
  <2>2. OffsetOf(s) \in Nat /\ OffsetOf(s) + msg_size <= total_size
    BY SlotFits
  <2>. QED
    BY <2>2 DEF OffsetOf
<1>3. CASE r + j < msg_max
  <2>1. (r + j) % msg_max = r + j /\ r + j \in Slots
    BY <1>3 DEF Slots
  <2>2. o \in 0 .. total_size - 1
    BY <1>1, <1>2, <2>1
  <2>3. o % total_size = o
    BY <2>2
  <2>. QED
    BY <1>1, <2>1, <2>3 DEF OffsetOf
<1>4. CASE r + j >= msg_max
  <2> DEFINE s == r + j - msg_max
  <2>1. (r + j) % msg_max = s /\ s \in Slots
    BY <1>4 DEF Slots
  <2>2. s * msg_size + k - 1 \in 0 .. total_size - 1
    BY <1>2, <2>1
  <2>3. o = s * msg_size + k - 1 + total_size
    BY <1>1 DEF Slots
  <2>4. o % total_size = s * msg_size + k - 1
    <3> HIDE DEF o, s
    <3>1. \A x \in 0 .. total_size - 1 : (x + total_size) % total_size = x
      OBVIOUS
    <3>. QED
      BY <2>2, <2>3, <3>1
  <2>. QED
    BY <2>1, <2>4 DEF OffsetOf
<1>. QED
  BY <1>3, <1>4 DEF Slots

(* The number of messages, from the offsets. *)
LEMMA CountPlace ==
  ASSUME NEW r \in Slots, NEW w \in Slots
  PROVE  ((OffsetOf(w) - OffsetOf(r) + total_size) % total_size) \div msg_size = CountOf(r, w)
<1> USE LockFreeQueueAssumption, TotalSize
<1> DEFINE n == CountOf(r, w)
<1>1. n \in Slots /\ n = IF w >= r THEN w - r ELSE w - r + msg_max
  BY SlotArithmetic DEF Slots
<1>2. n * msg_size \in 0 .. total_size - 1
  <2>1. OffsetOf(n) \in Nat /\ OffsetOf(n) + msg_size <= total_size
    BY <1>1, SlotFits
  <2>. QED
    BY <2>1 DEF OffsetOf
<1>3. (OffsetOf(w) - OffsetOf(r) + total_size) % total_size = n * msg_size
  <2>1. CASE w >= r
    <3>1. OffsetOf(w) - OffsetOf(r) + total_size = n * msg_size + total_size
      BY <1>1, <2>1 DEF OffsetOf, Slots
    <3>2. \A x \in 0 .. total_size - 1 : (x + total_size) % total_size = x
      OBVIOUS
    <3>. QED
      BY <1>2, <3>1, <3>2
  <2>2. CASE w < r
    <3>1. OffsetOf(w) - OffsetOf(r) + total_size = n * msg_size
      BY <1>1, <2>2 DEF OffsetOf, Slots
    <3>2. \A x \in 0 .. total_size - 1 : x % total_size = x
      OBVIOUS
    <3>. QED
      BY <1>2, <3>1, <3>2
  <2>. QED
    BY <2>1, <2>2 DEF Slots
<1>4. (n * msg_size) \div msg_size = n
  BY <1>1 DEF Slots
<1>. QED
  BY <1>3, <1>4

LEMMA ContentsBySlot ==
  ASSUME NEW r \in Slots, NEW w \in Slots, NEW buf
  PROVE  LET n == ((OffsetOf(w) - OffsetOf(r) + total_size) % total_size) \div msg_size
         IN  [i \in 1 .. n |->
                MessageOf([k \in 1 .. msg_size |->
                    buf[(OffsetOf(r) + (i - 1) * msg_size + k - 1) % total_size]])]
               = QueueOf(r, w, buf)
<1>1. ASSUME NEW i \in 1 .. CountOf(r, w), NEW k \in 1 .. msg_size
      PROVE  (OffsetOf(r) + (i - 1) * msg_size + k - 1) % total_size
                = OffsetOf((r + i - 1) % msg_max) + k - 1
  <2>1. i - 1 \in Slots /\ r + (i - 1) = r + i - 1
    BY SlotArithmetic, LockFreeQueueAssumption DEF Slots
  <2>. QED
    BY <2>1, BytePlace
<1>2. ASSUME NEW i \in 1 .. CountOf(r, w)
      PROVE  [k \in 1 .. msg_size |->
                 buf[(OffsetOf(r) + (i - 1) * msg_size + k - 1) % total_size]]
               = [k \in 1 .. msg_size |-> buf[OffsetOf((r + i - 1) % msg_max) + k - 1]]
  BY <1>1
<1>. QED
  BY <1>2, CountPlace DEF QueueOf, MessageIn

(* What a push and a pop do to the sequence. *)
LEMMA QueueAppend ==
  ASSUME NEW r \in Slots, NEW w \in Slots, NEW buf, Successor(w) # r
  PROVE  /\ QueueOf(r, Successor(w), buf) = Append(QueueOf(r, w, buf), MessageIn(buf, w))
         /\ Len(QueueOf(r, w, buf)) < msg_max - 1
<1> DEFINE n == CountOf(r, w)
           Q == QueueOf(r, w, buf)
<1>1. n \in Nat /\ n < msg_max - 1 /\ CountOf(r, Successor(w)) = n + 1
      /\ (r + n) % msg_max = w
  BY SlotArithmetic
<1>2. Len(Q) = n
  BY <1>1 DEF QueueOf
<1>3. Append(Q, MessageIn(buf, w))
        = [i \in 1 .. n + 1 |-> IF i = n + 1 THEN MessageIn(buf, w) ELSE Q[i]]
  BY <1>1, <1>2 DEF QueueOf
<1>4. QueueOf(r, Successor(w), buf)
        = [i \in 1 .. n + 1 |-> MessageIn(buf, (r + i - 1) % msg_max)]
  BY <1>1 DEF QueueOf
<1>5. r + (n + 1) - 1 = r + n
  BY <1>1 DEF Slots
<1>. QED
  BY <1>1, <1>2, <1>3, <1>4, <1>5 DEF QueueOf

LEMMA QueueTail ==
  ASSUME NEW r \in Slots, NEW w \in Slots, NEW buf, r # w
  PROVE  /\ QueueOf(r, w, buf) # <<>>
         /\ Head(QueueOf(r, w, buf)) = MessageIn(buf, r)
         /\ Tail(QueueOf(r, w, buf)) = QueueOf(Successor(r), w, buf)
<1> DEFINE n == CountOf(r, w)
           Q == QueueOf(r, w, buf)
<1>1. n \in Nat /\ n > 0 /\ CountOf(Successor(r), w) = n - 1
  BY SlotArithmetic
<1>2. Q = [i \in 1 .. n |-> MessageIn(buf, (r + i - 1) % msg_max)] /\ Len(Q) = n
  BY <1>1 DEF QueueOf
<1>3. Q # <<>> /\ Head(Q) = Q[1] /\ Tail(Q) = [i \in 1 .. n - 1 |-> Q[i + 1]]
  BY <1>1, <1>2
<1>4. (r + 1 - 1) % msg_max = r
  BY LockFreeQueueAssumption DEF Slots
<1>5. ASSUME NEW i \in 1 .. n - 1
      PROVE  (r + (i + 1) - 1) % msg_max = (Successor(r) + i - 1) % msg_max
  <2>1. i \in 1 .. msg_max - 1
    <3>1. n \in 0 .. msg_max - 1
      BY SlotArithmetic
    <3>. QED
      BY <3>1, LockFreeQueueAssumption
  <2>2. CASE r + 1 = msg_max
    <3>1. r + (i + 1) - 1 = (i - 1) + msg_max /\ Successor(r) + i - 1 = i - 1
      BY <2>1, <2>2 DEF Slots, Successor
    <3>2. \A x \in Slots : (x + msg_max) % msg_max = x % msg_max
      BY LockFreeQueueAssumption DEF Slots
    <3>3. i - 1 \in Slots
      BY <2>1, LockFreeQueueAssumption DEF Slots
    <3>4. ((i - 1) + msg_max) % msg_max = (i - 1) % msg_max
      BY <3>2, <3>3
    <3>. QED
      BY ONLY <3>1, <3>4
  <2>3. CASE r + 1 # msg_max
    <3>1. r + (i + 1) - 1 = Successor(r) + i - 1
      BY <2>1, <2>3, LockFreeQueueAssumption DEF Slots, Successor
    <3>. QED
      BY ONLY <3>1
  <2>. QED
    BY <2>2, <2>3
<1>6. QueueOf(Successor(r), w, buf)
        = [i \in 1 .. n - 1 |-> MessageIn(buf, (Successor(r) + i - 1) % msg_max)]
  BY <1>1 DEF QueueOf
<1>7. Head(Q) = MessageIn(buf, r)
  BY <1>1, <1>2, <1>3, <1>4
<1>8. ASSUME NEW i \in 1 .. n - 1
      PROVE  Q[i + 1] = MessageIn(buf, (Successor(r) + i - 1) % msg_max)
  <2>1. i + 1 \in 1 .. n
    BY <1>1
  <2>. QED
    BY <1>2, <1>5, <2>1
<1>9. Tail(Q) = QueueOf(Successor(r), w, buf)
  <2> HIDE DEF n, Q
  <2>. QED
    BY <1>3, <1>6, <1>8
<1>. QED
  BY <1>3, <1>7, <1>9

(* A copy into the free slot w changes no message of the sequence. *)
LEMMA QueueKept ==
  ASSUME NEW r \in Slots, NEW w \in Slots, NEW buf, NEW copied,
         \A s \in Slots \ {w} : MessageIn(copied, s) = MessageIn(buf, s)
  PROVE  QueueOf(r, w, copied) = QueueOf(r, w, buf)
<1>1. ASSUME NEW i \in 1 .. CountOf(r, w)
      PROVE  (r + i - 1) % msg_max \in Slots \ {w}
  BY LockFreeQueueAssumption DEF Slots, CountOf
<1>. QED
  BY <1>1 DEF QueueOf

(* Different slots begin at different offsets. *)
LEMMA OffsetInjective ==
  ASSUME NEW j \in Slots, NEW k \in Slots, OffsetOf(j) = OffsetOf(k)
  PROVE  j = k
BY LockFreeQueueAssumption DEF OffsetOf, Slots

---------------------------------------------------------------------------
(* LockFreeQueue implements MessageQueue.                                  *)

(* The bytes of a message at offset o. *)
BytesAt(o) == [k \in 1 .. msg_size |-> buffer[o + k - 1]]

(* What the two threads carry at each of their places. *)
Carried ==
    /\ push.at \in {"test", "copy", "publish"} => push.msg \in Messages /\ push.ret = 0
    /\ push.at = "publish" => BytesAt(write) = Whole(push.msg)
    /\ pop.at \in {"test", "copy", "publish"} => pop.ret = 0
    /\ pop.at = "test" => pop.msg = Whole(NoMessage)
    /\ pop.at = "publish" => pop.msg = BytesAt(read)

LEMMA CarriedInit == Init => Carried
BY DEF Init, Carried

(* The copy of a push fills the slot at write, and changes no other. *)
LEMMA CopyIn ==
  ASSUME IInv, PushCopy
  PROVE  /\ BytesAt(write)' = Whole(push.msg)
         /\ \A o : Aligned(o) /\ o # write =>
              \A k \in 1 .. msg_size : buffer'[o + k - 1] = buffer[o + k - 1]
<1> USE DEF IInv
<1>1. \A k \in 1 .. msg_size : Place(write, k) = write + k - 1 /\ Place(write, k) \in Offsets
  BY AlignedFits
<1>2. write \in Nat
  BY AlignedFits DEF Offsets
<1>3. \A j, k \in 1 .. msg_size : Place(write, j) = Place(write, k) => j = k
  BY <1>1, <1>2, LockFreeQueueAssumption
<1>4. ASSUME NEW k \in 1 .. msg_size
      PROVE  buffer'[write + k - 1] = <<push.msg, k>>
  <2>1. (CHOOSE j \in 1 .. msg_size : Place(write, j) = write + k - 1) = k
    BY <1>1, <1>3
  <2>2. \E j \in 1 .. msg_size : Place(write, j) = write + k - 1
    BY <1>1
  <2>3. write + k - 1 \in Offsets
    BY <1>1
  <2>. QED
    BY <2>1, <2>2, <2>3 DEF PushCopy
<1>5. BytesAt(write)' = Whole(push.msg)
  BY <1>4 DEF PushCopy, BytesAt, Whole
<1>6. ASSUME NEW o, Aligned(o), o # write, NEW k \in 1 .. msg_size
      PROVE  buffer'[o + k - 1] = buffer[o + k - 1]
  <2>1. Place(o, k) = o + k - 1 /\ Place(o, k) \in Offsets
    BY <1>6, AlignedFits
  <2>2. ~ \E j \in 1 .. msg_size : Place(write, j) = o + k - 1
    BY <1>6, <2>1, AlignedDisjoint DEF Region
  <2>. QED
    BY <2>1, <2>2 DEF PushCopy
<1>. QED
  BY <1>5, <1>6

LEMMA CarriedStep == IInv /\ Carried /\ [Next]_vars => Carried'
<1> SUFFICES ASSUME IInv, Carried, [Next]_vars
             PROVE  Carried'
  OBVIOUS
<1> USE DEF Carried
<1>1. ASSUME NEW m \in Messages, PushCall(m)
      PROVE  Carried'
  BY <1>1 DEF PushCall, BytesAt
<1>2. CASE PushTest
  BY <1>2 DEF PushTest, BytesAt
<1>3. CASE PushCopy
  <2>1. push' = [push EXCEPT !.at = "publish"] /\ UNCHANGED <<read, write, pop>>
        /\ push.at = "copy"
    BY <1>3 DEF PushCopy
  <2>2. push'.at = "publish" /\ push'.msg = push.msg /\ push'.ret = push.ret
    BY <2>1
  <2>3. BytesAt(write)' = Whole(push'.msg)
    BY <1>3, <2>2, CopyIn
  <2>4. ASSUME pop.at = "publish"
        PROVE  BytesAt(read)' = BytesAt(read)
    <3>1. read # write /\ Aligned(read)
      BY <2>4 DEF IInv
    <3>. QED
      BY <1>3, <2>1, <3>1, CopyIn DEF BytesAt
  <2>. QED
    BY <2>1, <2>2, <2>3, <2>4 DEF Whole
<1>4. CASE PushPublish
  BY <1>4 DEF PushPublish, BytesAt
<1>5. CASE PushReturn
  BY <1>5 DEF PushReturn, BytesAt
<1>6. CASE PopCall
  BY <1>6 DEF PopCall, BytesAt
<1>7. CASE PopTest
  BY <1>7 DEF PopTest, BytesAt
<1>8. CASE PopCopy
  <2>1. \A k \in 1 .. msg_size : Place(read, k) = read + k - 1
    BY AlignedFits DEF IInv
  <2>2. [k \in 1 .. msg_size |-> buffer[Place(read, k)]] = BytesAt(read)
    BY <2>1 DEF BytesAt
  <2>. QED
    BY <1>8, <2>2 DEF PopCopy, BytesAt
<1>9. CASE PopPublish
  BY <1>9 DEF PopPublish, BytesAt
<1>10. CASE PopReturn
  BY <1>10 DEF PopReturn, BytesAt
<1>11. CASE UNCHANGED vars
  BY <1>11 DEF vars, BytesAt
<1>. QED
  BY <1>1, <1>2, <1>3, <1>4, <1>5, <1>6, <1>7, <1>8, <1>9, <1>10, <1>11 DEF Next

(* The contents, when both offsets begin slots. *)
LEMMA ContentsAt ==
  ASSUME NEW r \in Slots, NEW w \in Slots, read = OffsetOf(r), write = OffsetOf(w)
  PROVE  Contents = QueueOf(r, w, buffer)
BY ContentsBySlot DEF Contents, Count

LEMMA ContentsAtNext ==
  ASSUME NEW r \in Slots, NEW w \in Slots, read' = OffsetOf(r), write' = OffsetOf(w)
  PROVE  Contents' = QueueOf(r, w, buffer')
BY ContentsBySlot DEF Contents, Count

(* A message is the one its bytes say. *)
LEMMA MessageOfWhole ==
  /\ \A m \in Messages : MessageOf(Whole(m)) = m
  /\ MessageOf(Whole(NoMessage)) = NoMessage
<1>1. 1 \in 1 .. msg_size
  BY LockFreeQueueAssumption
<1>2. \A m : Whole(m)[1] = <<m, 1>>
  BY <1>1 DEF Whole
<1>3. \A m, n : Whole(m) = Whole(n) => m = n
  BY <1>2
<1>. QED
  BY <1>2, <1>3, LockFreeQueueAssumption DEF MessageOf

(* What each step does to the contents. *)
LEMMA CopyKeepsContents ==
  ASSUME IInv, PushCopy
  PROVE  Contents' = Contents
<1>1. PICK r \in Slots, w \in Slots : read = OffsetOf(r) /\ write = OffsetOf(w)
  BY DEF IInv, Aligned
<1>2. UNCHANGED <<read, write>>
  BY DEF PushCopy
<1>3. ASSUME NEW s \in Slots \ {w}
      PROVE  MessageIn(buffer', s) = MessageIn(buffer, s)
  <2>1. Aligned(OffsetOf(s)) /\ OffsetOf(s) # write
    BY <1>1, OffsetInjective DEF Aligned
  <2>2. \A k \in 1 .. msg_size : buffer'[OffsetOf(s) + k - 1] = buffer[OffsetOf(s) + k - 1]
    BY <2>1, CopyIn
  <2>. QED
    BY <2>2 DEF MessageIn
<1>. QED
  BY <1>1, <1>2, <1>3, ContentsAt, ContentsAtNext, QueueKept

LEMMA PublishAppends ==
  ASSUME IInv, Carried, PushPublish
  PROVE  /\ Contents' = Append(Contents, push.msg)
         /\ Len(Contents) < msg_max - 1
<1>1. PICK r \in Slots, w \in Slots : read = OffsetOf(r) /\ write = OffsetOf(w)
  BY DEF IInv, Aligned
<1>2. Advance(write) = OffsetOf(Successor(w)) /\ Successor(w) \in Slots
  BY <1>1, AdvanceSlot, SlotArithmetic DEF Successor
<1>3. Successor(w) # r
  BY <1>1, <1>2 DEF IInv, PushPublish
<1>4. write' = OffsetOf(Successor(w)) /\ read' = OffsetOf(r) /\ buffer' = buffer
  BY <1>1, <1>2 DEF PushPublish
<1>5. MessageIn(buffer, w) = push.msg
  BY <1>1, MessageOfWhole DEF Carried, PushPublish, BytesAt, MessageIn
<1>6. Contents = QueueOf(r, w, buffer) /\ Contents' = QueueOf(r, Successor(w), buffer)
  BY <1>1, <1>2, <1>4, ContentsAt, ContentsAtNext
<1>. QED
  BY <1>3, <1>5, <1>6, QueueAppend

LEMMA PublishRemoves ==
  ASSUME IInv, Carried, PopPublish
  PROVE  /\ Contents # <<>>
         /\ Head(Contents) = MessageOf(pop.msg)
         /\ Contents' = Tail(Contents)
<1>1. PICK r \in Slots, w \in Slots : read = OffsetOf(r) /\ write = OffsetOf(w)
  BY DEF IInv, Aligned
<1>2. Advance(read) = OffsetOf(Successor(r)) /\ Successor(r) \in Slots
  BY <1>1, AdvanceSlot, SlotArithmetic DEF Successor
<1>3. r # w
  BY <1>1 DEF IInv, PopPublish
<1>4. read' = OffsetOf(Successor(r)) /\ write' = OffsetOf(w) /\ buffer' = buffer
  BY <1>1, <1>2 DEF PopPublish
<1>5. MessageIn(buffer, r) = MessageOf(pop.msg)
  BY <1>1 DEF Carried, PopPublish, BytesAt, MessageIn
<1>6. Contents = QueueOf(r, w, buffer) /\ Contents' = QueueOf(Successor(r), w, buffer)
  BY <1>1, <1>2, <1>4, ContentsAt, ContentsAtNext
<1>. QED
  BY <1>3, <1>5, <1>6, QueueTail

LEMMA FullEmpty ==
  ASSUME IInv
  PROVE  /\ IsFull => Len(Contents) = msg_max - 1
         /\ IsEmpty => Contents = <<>>
<1>1. PICK r \in Slots, w \in Slots : read = OffsetOf(r) /\ write = OffsetOf(w)
  BY DEF IInv, Aligned
<1>2. Contents = QueueOf(r, w, buffer) /\ CountOf(r, w) \in Nat
  BY <1>1, ContentsAt, SlotArithmetic, LockFreeQueueAssumption
<1>3. Len(Contents) = CountOf(r, w)
  BY <1>2 DEF QueueOf
<1>4. ASSUME IsFull
      PROVE  Len(Contents) = msg_max - 1
  <2>1. Advance(write) = OffsetOf(Successor(w)) /\ Successor(w) \in Slots
    BY <1>1, AdvanceSlot, SlotArithmetic DEF Successor
  <2>2. Successor(w) = r
    BY <1>1, <1>4, <2>1, OffsetInjective DEF IsFull, Advance
  <2>. QED
    BY <1>3, <2>2, SlotArithmetic
<1>5. ASSUME IsEmpty
      PROVE  Contents = <<>>
  <2>1. r = w
    BY <1>1, <1>5, OffsetInjective DEF IsEmpty
  <2>2. CountOf(r, w) = 0
    BY <2>1, SlotArithmetic DEF Slots
  <2>. QED
    BY <1>2, <2>2 DEF QueueOf
<1>. QED
  BY <1>4, <1>5

(* A step of one thread is a step of its abstract call. *)
LEMMA PushChanges ==
  ASSUME NEW from, NEW to, PushCallOf = from, PushCallOf' = to, UNCHANGED pop
  PROVE  Abstract!Becomes("pusher", from, to)
BY DEF Abstract!Becomes, PopCallOf, MessageOf, Whole

LEMMA PopChanges ==
  ASSUME NEW from, NEW to, PopCallOf = from, PopCallOf' = to, UNCHANGED push
  PROVE  Abstract!Becomes("popper", from, to)
BY DEF Abstract!Becomes, PushCallOf

LEMMA PushSteps ==
  ASSUME IInv, Carried
  PROVE  /\ \A m \in Messages : PushCall(m) => Abstract!CallSend("pusher", m)
         /\ PushTest => \/ UNCHANGED Abstract!vars
                        \/ Abstract!Reject("pusher", push.msg)
         /\ PushCopy => UNCHANGED Abstract!vars
         /\ PushPublish => Abstract!Accept("pusher", push.msg)
         /\ PushReturn => Abstract!Return("pusher")
<1>1. ASSUME NEW m \in Messages, PushCall(m)
      PROVE  Abstract!CallSend("pusher", m)
  <2>1. Abstract!Becomes("pusher", [op |-> "idle"], [op |-> "send", msg |-> m])
    BY <1>1, PushChanges DEF PushCall, PushCallOf
  <2>2. Contents' = Contents
    BY <1>1 DEF PushCall, Contents, Count, MessageOf, Whole, total_size
  <2>. QED
    BY <2>1, <2>2 DEF Abstract!CallSend, Abstract!Idle, Abstract!Sending
<1>2. ASSUME PushTest
      PROVE  \/ UNCHANGED Abstract!vars
             \/ Abstract!Reject("pusher", push.msg)
  <2>1. Contents' = Contents
    BY <1>2 DEF PushTest, Contents, Count, MessageOf, Whole, total_size
  <2>2. CASE IsFull
    <3>1. Abstract!Becomes("pusher", [op |-> "send", msg |-> push.msg],
                           [op |-> "done", result |-> "FAIL", msg |-> push.msg])
      <4>1. push.at = "test" /\ UNCHANGED pop
        BY <1>2 DEF PushTest
      <4>2. push'.at = "return" /\ push'.ret = -1 /\ push'.msg = push.msg
        BY <1>2, <2>2 DEF PushTest, Carried
      <4>3. PushCallOf = [op |-> "send", msg |-> push.msg]
        BY <4>1 DEF PushCallOf
      <4>4. PushCallOf' = [op |-> "done", result |-> "FAIL", msg |-> push.msg]
        BY <4>2 DEF PushCallOf
      <4>. QED
        BY <4>1, <4>3, <4>4 DEF Abstract!Becomes, PopCallOf, MessageOf, Whole
    <3>. QED
      BY <2>1, <2>2, <3>1, FullEmpty DEF Abstract!Reject, Abstract!Sending, Abstract!Returned
  <2>3. CASE ~ IsFull
    <3>1. PushCallOf' = PushCallOf /\ PopCallOf' = PopCallOf
      BY <1>2, <2>3 DEF PushTest, PushCallOf, PopCallOf, MessageOf, Whole
    <3>. QED
      BY <2>1, <3>1 DEF Abstract!vars
  <2>. QED
    BY <2>2, <2>3
<1>3. ASSUME PushCopy
      PROVE  UNCHANGED Abstract!vars
  <2>1. PushCallOf' = PushCallOf /\ PopCallOf' = PopCallOf
    BY <1>3 DEF PushCopy, PushCallOf, PopCallOf, MessageOf, Whole
  <2>. QED
    BY <1>3, <2>1, CopyKeepsContents DEF Abstract!vars
<1>4. ASSUME PushPublish
      PROVE  Abstract!Accept("pusher", push.msg)
  <2>1. Abstract!Becomes("pusher", [op |-> "send", msg |-> push.msg],
                         [op |-> "done", result |-> "OK", msg |-> push.msg])
    <3>1. push.at = "publish" /\ UNCHANGED pop
      BY <1>4 DEF PushPublish
    <3>2. push'.at = "return" /\ push'.ret = 0 /\ push'.msg = push.msg
      BY <1>4 DEF PushPublish, Carried
    <3>3. PushCallOf = [op |-> "send", msg |-> push.msg]
      BY <3>1 DEF PushCallOf
    <3>4. PushCallOf' = [op |-> "done", result |-> "OK", msg |-> push.msg]
      BY <3>2 DEF PushCallOf
    <3>. QED
      BY <3>1, <3>3, <3>4 DEF Abstract!Becomes, PopCallOf, MessageOf, Whole
  <2>. QED
    BY <1>4, <2>1, PublishAppends DEF Abstract!Accept, Abstract!Sending, Abstract!Returned
<1>5. ASSUME PushReturn
      PROVE  Abstract!Return("pusher")
  <2>1. Contents' = Contents
    BY <1>5 DEF PushReturn, Contents, Count, MessageOf, Whole, total_size
  <2>2. PushCallOf.op = "done" /\ PushCallOf' = [op |-> "idle"] /\ PopCallOf' = PopCallOf
    BY <1>5 DEF PushReturn, PushCallOf, PopCallOf, MessageOf, Whole
  <2>. QED
    BY <2>1, <2>2 DEF Abstract!Return, Abstract!Idle
<1>. QED
  BY <1>1, <1>2, <1>3, <1>4, <1>5

LEMMA PopSteps ==
  ASSUME IInv, Carried
  PROVE  /\ PopCall => Abstract!CallRecv("popper", "poll")
         /\ PopTest => UNCHANGED Abstract!vars \/ Abstract!FindEmpty("popper")
         /\ PopCopy => UNCHANGED Abstract!vars
         /\ PopPublish => Abstract!Deliver("popper", "poll")
         /\ PopReturn => Abstract!Return("popper")
<1>1. ASSUME PopCall
      PROVE  Abstract!CallRecv("popper", "poll")
  <2>1. Abstract!Becomes("popper", [op |-> "idle"], [op |-> "recv", timeout |-> "poll"])
    BY <1>1, PopChanges DEF PopCall, PopCallOf
  <2>2. Contents' = Contents
    BY <1>1 DEF PopCall, Contents, Count, MessageOf, Whole, total_size
  <2>. QED
    BY <2>1, <2>2 DEF Abstract!CallRecv, Abstract!Idle, Abstract!Looking
<1>2. ASSUME PopTest
      PROVE  UNCHANGED Abstract!vars \/ Abstract!FindEmpty("popper")
  <2>1. Contents' = Contents
    BY <1>2 DEF PopTest, Contents, Count, MessageOf, Whole, total_size
  <2>2. CASE IsEmpty
    <3>1. pop'.at = "return" /\ pop'.ret = -1 /\ pop'.msg = Whole(NoMessage) /\ UNCHANGED push
      BY <1>2, <2>2 DEF PopTest, Carried
    <3>2. PopCallOf' = [op |-> "done", result |-> "TIMEDOUT", msg |-> NoMessage]
      BY <3>1, MessageOfWhole DEF PopCallOf, MessageOf, Whole
    <3>3. Abstract!Becomes("popper", [op |-> "recv", timeout |-> "poll"],
                           [op |-> "done", result |-> "TIMEDOUT", msg |-> NoMessage])
      BY <1>2, <3>1, <3>2, PopChanges DEF PopTest, PopCallOf
    <3>. QED
      BY <2>1, <2>2, <3>3, FullEmpty DEF Abstract!FindEmpty, Abstract!Looking, Abstract!Returned
  <2>3. CASE ~ IsEmpty
    <3>1. PushCallOf' = PushCallOf /\ PopCallOf' = PopCallOf
      BY <1>2, <2>3 DEF PopTest, PushCallOf, PopCallOf
    <3>. QED
      BY <2>1, <3>1 DEF Abstract!vars
  <2>. QED
    BY <2>2, <2>3
<1>3. ASSUME PopCopy
      PROVE  UNCHANGED Abstract!vars
  <2>1. PushCallOf' = PushCallOf /\ PopCallOf' = PopCallOf
    BY <1>3 DEF PopCopy, PushCallOf, PopCallOf
  <2>2. Contents' = Contents
    BY <1>3 DEF PopCopy, Contents, Count, MessageOf, Whole, total_size
  <2>. QED
    BY <2>1, <2>2 DEF Abstract!vars
<1>4. ASSUME PopPublish
      PROVE  Abstract!Deliver("popper", "poll")
  <2>1. pop'.at = "return" /\ pop'.ret = 0 /\ pop'.msg = pop.msg /\ UNCHANGED push
    BY <1>4 DEF PopPublish, Carried
  <2>2. PopCallOf' = [op |-> "done", result |-> "OK", msg |-> MessageOf(pop.msg)]
    BY <2>1 DEF PopCallOf, MessageOf, Whole
  <2>3. Abstract!Becomes("popper", [op |-> "recv", timeout |-> "poll"],
                         [op |-> "done", result |-> "OK", msg |-> MessageOf(pop.msg)])
    <3>1. pop.at = "publish"
      BY <1>4 DEF PopPublish
    <3>2. PopCallOf = [op |-> "recv", timeout |-> "poll"]
      BY <3>1 DEF PopCallOf
    <3>. QED
      BY <2>1, <2>2, <3>2 DEF Abstract!Becomes, PushCallOf
  <2>4. Contents # <<>> /\ Head(Contents) = MessageOf(pop.msg) /\ Contents' = Tail(Contents)
    BY <1>4, PublishRemoves
  <2>. QED
    BY <2>3, <2>4 DEF Abstract!Deliver, Abstract!Becomes, Abstract!Looking, Abstract!Returned
<1>5. ASSUME PopReturn
      PROVE  Abstract!Return("popper")
  <2>1. Contents' = Contents
    BY <1>5 DEF PopReturn, Contents, Count, MessageOf, Whole, total_size
  <2>2. PopCallOf.op = "done" /\ PopCallOf' = [op |-> "idle"] /\ PushCallOf' = PushCallOf
    BY <1>5 DEF PopReturn, PopCallOf, PushCallOf
  <2>. QED
    BY <2>1, <2>2 DEF Abstract!Return, Abstract!Idle
<1>. QED
  BY <1>1, <1>2, <1>3, <1>4, <1>5

LEMMA RefinesInit == Init => Abstract!Init
<1> SUFFICES ASSUME Init
             PROVE  Abstract!Init
  OBVIOUS
<1>1. Contents = <<>>
  BY IInvInit, FullEmpty DEF Init, IsEmpty
<1>2. PushCallOf = Abstract!Idle /\ PopCallOf = Abstract!Idle
  BY DEF Init, PushCallOf, PopCallOf, Abstract!Idle
<1>. QED
  BY <1>1, <1>2 DEF Abstract!Init, Abstract!Threads

LEMMA RefinesStep ==
  ASSUME IInv, Carried, [Next]_vars
  PROVE  [Abstract!Next]_(Abstract!vars)
<1>1. ASSUME NEW m \in Messages, PushCall(m)
      PROVE  Abstract!Next
  BY <1>1, PushSteps DEF Abstract!Next, Abstract!Send
<1>2. CASE PushTest \/ PushPublish
  <2>1. push.msg \in Messages
    BY <1>2 DEF PushTest, PushPublish, Carried
  <2>. QED
    BY <1>2, <2>1, PushSteps DEF Abstract!Next, Abstract!Send
<1>3. CASE PushCopy \/ PopCopy
  BY <1>3, PushSteps, PopSteps
<1>4. CASE PushReturn \/ PopReturn
  BY <1>4, PushSteps, PopSteps DEF Abstract!Next, Abstract!Threads
<1>5. CASE PopCall \/ PopTest \/ PopPublish
  BY <1>5, PopSteps DEF Abstract!Next, Abstract!Recv, Abstract!Timeouts
<1>6. CASE UNCHANGED vars
  BY <1>6 DEF vars, Contents, Count, MessageOf, Whole, total_size, PushCallOf, PopCallOf,
              Abstract!vars
<1>. QED
  BY <1>1, <1>2, <1>3, <1>4, <1>5, <1>6 DEF Next

(* Theorem: for every size and number of messages, the ring of bytes is a  *)
(* FIFO of whole messages for a thread that pushes and a thread that pops, *)
(* with no lock between them (osal_lock_free_queue.c:28-110).              *)
THEOREM ImplementsMessageQueueHolds == Spec => ImplementsMessageQueue
<1>1. Init => IInv /\ Carried /\ Abstract!Init
  BY IInvInit, CarriedInit, RefinesInit
<1>2. IInv /\ Carried /\ [Next]_vars => (IInv /\ Carried)' /\ [Abstract!Next]_(Abstract!vars)
  BY IInvStep, CarriedStep, RefinesStep
<1>. QED
  BY <1>1, <1>2, PTL DEF Spec, ImplementsMessageQueue, Abstract!Spec
=============================================================================
