---------------------------- MODULE OsalMq_proofs ---------------------------
(***************************************************************************)
(* Proofs about OsalMq, for every number of threads, messages and slots.   *)
(***************************************************************************)
EXTENDS OsalMq, FiniteSetTheorems, TLAPS

(* The index of the ring stays inside it, and two slots have different     *)
(* successors: a push and a pop that both advance keep their distance.     *)
LEMMA AdvanceInSlots == \A i \in Slots : Advance(i) \in Slots
BY OsalMqAssumption DEF Advance, Slots

LEMMA AdvanceInjective ==
  \A i, j \in Slots : Advance(i) = Advance(j) => i = j
BY OsalMqAssumption DEF Advance, Slots

---------------------------------------------------------------------------
(* Type correctness. *)
LEMMA InitTypeOK == Init => TypeOK
<1> SUFFICES ASSUME Init
             PROVE  TypeOK
  OBVIOUS
<1>1. read \in Slots /\ write \in Slots
  BY OsalMqAssumption DEF Init, Slots
<1>2. cond = {t \in Threads : pc[t] = "blocked"}
  BY DEF Init
<1>. QED
  BY <1>1, <1>2, OsalMqAssumption DEF Init, TypeOK, Places, OwnerPlaces

LEMMA StepTypeOK == TypeOK /\ [Next]_vars => TypeOK'
<1> SUFFICES ASSUME TypeOK, [Next]_vars
             PROVE  TypeOK'
  OBVIOUS
<1> USE OsalMqAssumption DEF TypeOK, vars, ring, locals, globals, Threads, At, Goto, Finish,
      Places, SenderPlaces, ReceiverPlaces, PushSection, PopSection, WaiterWoken, OwnerPlaces
<1>1. ASSUME NEW t \in Senders, NEW m \in Messages, SendCall(t, m)
     PROVE  TypeOK'
  BY <1>1 DEF SendCall, MayCall
<1>2. ASSUME NEW t \in Receivers, NEW w \in Waits, RecvCall(t, w)
     PROVE  TypeOK'
  BY <1>2 DEF RecvCall, MayCall
<1>3. ASSUME NEW t \in Threads, LockW(t)
     PROVE  TypeOK'
  BY <1>3 DEF LockW
<1>4. ASSUME NEW t \in Threads, PushTest(t)
     PROVE  TypeOK'
  BY <1>4 DEF PushTest
<1>5. ASSUME NEW t \in Threads, PushCopy(t)
     PROVE  TypeOK'
  BY <1>5 DEF PushCopy
<1>6. ASSUME NEW t \in Threads, PushPublish(t)
     PROVE  TypeOK'
  BY <1>6, AdvanceInSlots DEF PushPublish
<1>7. ASSUME NEW t \in Threads, UnlockW(t)
     PROVE  TypeOK'
  BY <1>7 DEF UnlockW
<1>8. ASSUME NEW t \in Threads, LockRSignal(t)
     PROVE  TypeOK'
  BY <1>8 DEF LockRSignal
<1>9. ASSUME NEW t \in Threads, Signal(t)
     PROVE  TypeOK'
  BY <1>9 DEF Signal
<1>10. ASSUME NEW t \in Threads, UnlockRSignal(t)
     PROVE  TypeOK'
  BY <1>10 DEF UnlockRSignal
<1>11. ASSUME NEW t \in Threads, LockR(t)
     PROVE  TypeOK'
  BY <1>11 DEF LockR
<1>12. ASSUME NEW t \in Threads, PopTest(t)
     PROVE  TypeOK'
  BY <1>12 DEF PopTest
<1>13. ASSUME NEW t \in Threads, PopCopy(t)
     PROVE  TypeOK'
  BY <1>13 DEF PopCopy
<1>14. ASSUME NEW t \in Threads, PopPublish(t)
     PROVE  TypeOK'
  BY <1>14, AdvanceInSlots DEF PopPublish
<1>15. ASSUME NEW t \in Threads, CondWait(t)
     PROVE  TypeOK'
  BY <1>15 DEF CondWait
<1>16. ASSUME NEW t \in Threads, CondExpire(t)
     PROVE  TypeOK'
  BY <1>16 DEF CondExpire
<1>17. ASSUME NEW t \in Threads, Relock(t)
     PROVE  TypeOK'
  BY <1>17 DEF Relock
<1>18. ASSUME NEW t \in Threads, UnlockR(t)
     PROVE  TypeOK'
  BY <1>18 DEF UnlockR
<1>19. ASSUME NEW t \in Threads, CondSpurious(t)
     PROVE  TypeOK'
  BY <1>19 DEF CondSpurious
<1>20. ASSUME NEW t \in Threads, UseAfterFree(t)
     PROVE  TypeOK'
  BY <1>20 DEF UseAfterFree, Touches
<1>21. CASE Create
  BY <1>21 DEF Create, Objects
<1>22. CASE DestroyCall
  BY <1>22 DEF DestroyCall
<1>23. CASE Broadcast
  BY <1>23 DEF Broadcast
<1>24. CASE DestroyLockR
  BY <1>24 DEF DestroyLockR
<1>25. CASE FreeRaw
  BY <1>25 DEF FreeRaw
<1>26. CASE DestroyUnlockR
  BY <1>26 DEF DestroyUnlockR
<1>27. CASE DestroyMutexes
  BY <1>27 DEF DestroyMutexes
<1>28. CASE DestroyCond
  BY <1>28 DEF DestroyCond
<1>29. CASE FreeMq
  BY <1>29 DEF FreeMq
<1>30. CASE UNCHANGED vars
  BY <1>30
<1>. QED
  BY <1>1, <1>2, <1>3, <1>4, <1>5, <1>6, <1>7, <1>8, <1>9, <1>10, <1>11, <1>12, <1>13, <1>14, <1>15, <1>16, <1>17, <1>18, <1>19, <1>20, <1>21, <1>22, <1>23, <1>24, <1>25, <1>26, <1>27, <1>28, <1>29, <1>30
  DEF Next, SendStep, RecvStep, DestroyStep, Threads

(* The indices never leave the ring, and a thread is in the condition      *)
(* variable exactly while it is blocked.                                   *)
THEOREM TypeCorrect == Spec => []TypeOK
BY InitTypeOK, StepTypeOK, PTL DEF Spec

---------------------------------------------------------------------------
(* The inductive invariant of the two mutexes and of the ring.             *)

(* A place between a lock and its unlock has the lock. *)
Exclusion ==
    /\ \A t \in Threads : pc[t] \in PushSection => w_mutex = t
    /\ \A t \in Threads : pc[t] \in HoldsRMutex => r_mutex = t
    /\ owner \in OwnsRMutex => r_mutex = Owner

(* What a push or a pop found at its test stays true until its store: the  *)
(* other side moves its own index only, and away.                          *)
Distance ==
    /\ \A t \in Threads :
          pc[t] \in {"copy_in", "publish_in"} => Advance(write) # read
    /\ \A t \in Threads :
          pc[t] \in {"copy_out", "publish_out"} => read # write

Unborn == owner = "create" => objs = {}

IInv == TypeOK /\ Exclusion /\ Distance /\ Unborn /\ PopNotCutShort

LEMMA IInvInit == Init => IInv
<1> SUFFICES ASSUME Init
             PROVE  IInv
  OBVIOUS
<1>1. TypeOK
  BY InitTypeOK
<1>2. Exclusion /\ Distance /\ PopNotCutShort
  BY DEF Init, Exclusion, Distance, PopNotCutShort, PushSection, HoldsRMutex, PopSection, OwnsRMutex
<1>3. Unborn
  BY DEF Init, Unborn
<1>. QED
  BY <1>1, <1>2, <1>3 DEF IInv

LEMMA IInvStep == IInv /\ [Next]_vars => IInv'
<1> SUFFICES ASSUME IInv, [Next]_vars
             PROVE  IInv'
  OBVIOUS
<1>1. TypeOK'
  BY StepTypeOK DEF IInv
<1>2. (Exclusion /\ Distance /\ Unborn /\ PopNotCutShort)'
  <2> USE OsalMqAssumption, AdvanceInSlots, AdvanceInjective
      DEF IInv, TypeOK, Exclusion, Distance, Unborn, PopNotCutShort, vars, ring, locals,
          globals, Threads, At, Goto, Finish, PushSection, HoldsRMutex, PopSection, OwnsRMutex
  <2>1. ASSUME NEW t \in Senders, NEW m \in Messages, SendCall(t, m)
       PROVE  (Exclusion /\ Distance /\ Unborn /\ PopNotCutShort)'
    BY <2>1 DEF SendCall, MayCall
  <2>2. ASSUME NEW t \in Receivers, NEW w \in Waits, RecvCall(t, w)
       PROVE  (Exclusion /\ Distance /\ Unborn /\ PopNotCutShort)'
    BY <2>2 DEF RecvCall, MayCall
  <2>3. ASSUME NEW t \in Threads, LockW(t)
       PROVE  (Exclusion /\ Distance /\ Unborn /\ PopNotCutShort)'
    BY <2>3 DEF LockW
  <2>4. ASSUME NEW t \in Threads, PushTest(t)
       PROVE  (Exclusion /\ Distance /\ Unborn /\ PopNotCutShort)'
    BY <2>4 DEF PushTest, IsFull
  <2>5. ASSUME NEW t \in Threads, PushCopy(t)
       PROVE  (Exclusion /\ Distance /\ Unborn /\ PopNotCutShort)'
    BY <2>5 DEF PushCopy
  <2>6. ASSUME NEW t \in Threads, PushPublish(t)
       PROVE  (Exclusion /\ Distance /\ Unborn /\ PopNotCutShort)'
    BY <2>6 DEF PushPublish
  <2>7. ASSUME NEW t \in Threads, UnlockW(t)
       PROVE  (Exclusion /\ Distance /\ Unborn /\ PopNotCutShort)'
    BY <2>7 DEF UnlockW
  <2>8. ASSUME NEW t \in Threads, LockRSignal(t)
       PROVE  (Exclusion /\ Distance /\ Unborn /\ PopNotCutShort)'
    BY <2>8 DEF LockRSignal
  <2>9. ASSUME NEW t \in Threads, Signal(t)
       PROVE  (Exclusion /\ Distance /\ Unborn /\ PopNotCutShort)'
    BY <2>9 DEF Signal
  <2>10. ASSUME NEW t \in Threads, UnlockRSignal(t)
       PROVE  (Exclusion /\ Distance /\ Unborn /\ PopNotCutShort)'
    BY <2>10 DEF UnlockRSignal
  <2>11. ASSUME NEW t \in Threads, LockR(t)
       PROVE  (Exclusion /\ Distance /\ Unborn /\ PopNotCutShort)'
    BY <2>11 DEF LockR
  <2>12. ASSUME NEW t \in Threads, PopTest(t)
       PROVE  (Exclusion /\ Distance /\ Unborn /\ PopNotCutShort)'
    BY <2>12 DEF PopTest, IsEmpty, Touches
  <2>13. ASSUME NEW t \in Threads, PopCopy(t)
       PROVE  (Exclusion /\ Distance /\ Unborn /\ PopNotCutShort)'
    BY <2>13 DEF PopCopy
  <2>14. ASSUME NEW t \in Threads, PopPublish(t)
       PROVE  (Exclusion /\ Distance /\ Unborn /\ PopNotCutShort)'
    BY <2>14 DEF PopPublish
  <2>15. ASSUME NEW t \in Threads, CondWait(t)
       PROVE  (Exclusion /\ Distance /\ Unborn /\ PopNotCutShort)'
    BY <2>15 DEF CondWait
  <2>16. ASSUME NEW t \in Threads, CondExpire(t)
       PROVE  (Exclusion /\ Distance /\ Unborn /\ PopNotCutShort)'
    BY <2>16 DEF CondExpire
  <2>17. ASSUME NEW t \in Threads, Relock(t)
       PROVE  (Exclusion /\ Distance /\ Unborn /\ PopNotCutShort)'
    BY <2>17 DEF Relock
  <2>18. ASSUME NEW t \in Threads, UnlockR(t)
       PROVE  (Exclusion /\ Distance /\ Unborn /\ PopNotCutShort)'
    BY <2>18 DEF UnlockR
  <2>19. ASSUME NEW t \in Threads, CondSpurious(t)
       PROVE  (Exclusion /\ Distance /\ Unborn /\ PopNotCutShort)'
    BY <2>19 DEF CondSpurious
  <2>20. ASSUME NEW t \in Threads, UseAfterFree(t)
       PROVE  (Exclusion /\ Distance /\ Unborn /\ PopNotCutShort)'
    BY <2>20 DEF UseAfterFree
  <2>21. CASE Create
    BY <2>21 DEF Create
  <2>22. CASE DestroyCall
    BY <2>22 DEF DestroyCall
  <2>23. CASE Broadcast
    BY <2>23 DEF Broadcast
  <2>24. CASE DestroyLockR
    BY <2>24 DEF DestroyLockR
  <2>25. CASE FreeRaw
    BY <2>25 DEF FreeRaw
  <2>26. CASE DestroyUnlockR
    BY <2>26 DEF DestroyUnlockR
  <2>27. CASE DestroyMutexes
    BY <2>27 DEF DestroyMutexes
  <2>28. CASE DestroyCond
    BY <2>28 DEF DestroyCond
  <2>29. CASE FreeMq
    BY <2>29 DEF FreeMq
  <2>30. CASE UNCHANGED vars
    BY <2>30
  <2>. QED
    BY <2>1, <2>2, <2>3, <2>4, <2>5, <2>6, <2>7, <2>8, <2>9, <2>10, <2>11,
       <2>12, <2>13, <2>14, <2>15, <2>16, <2>17, <2>18, <2>19, <2>20,
       <2>21, <2>22, <2>23, <2>24, <2>25, <2>26, <2>27, <2>28, <2>29, <2>30
    DEF Next, SendStep, RecvStep, DestroyStep, Threads
<1>. QED
  BY <1>1, <1>2 DEF IInv

(* No byte of a slot is overwritten while a receiver copies it out.        *)
THEOREM NoSlotOverlapHolds == Spec => []NoSlotOverlap
<1>1. IInv => NoSlotOverlap
  BY DEF IInv, Distance, NoSlotOverlap
<1>. QED
  BY <1>1, IInvInit, IInvStep, PTL DEF Spec

(* Destroy never frees the ring while a receiver copies a message out.     *)
THEOREM PopNotCutShortHolds == Spec => []PopNotCutShort
<1>1. IInv => PopNotCutShort
  BY DEF IInv
<1>. QED
  BY <1>1, IInvInit, IInvStep, PTL DEF Spec

---------------------------------------------------------------------------
(* The queue used as its interface asks: creation fails only where the     *)
(* code says so, and nobody is in a call when it is destroyed.             *)

Disciplined ==
    /\ ~ DestroyInFlight
    /\ CreateFaults \subseteq {"mq", "w_mutex", "r_mutex"}

(* Who has a mutex is at a place between its lock and its unlock. *)
Released ==
    /\ \A t \in Threads : w_mutex = t => pc[t] \in PushSection
    /\ \A t \in Threads : r_mutex = t => pc[t] \in HoldsRMutex
    /\ r_mutex = Owner => owner \in OwnsRMutex

(* What exists at each place of the owner. *)
ObjectsAt(p) ==
    CASE p = "create" -> {}
      [] p \in {"created", "broadcast", "lock_r", "free_raw"} -> Objects
      [] p \in {"unlock_r", "destroy_w"} -> Objects \ {"raw_queue"}
      [] p = "destroy_r" -> {"mq", "r_mutex", "cond"}
      [] p = "destroy_cond" -> {"mq", "cond"}
      [] p = "free_mq" -> {"mq"}
      [] OTHER -> {}

Lifecycle ==
    /\ owner # "undefined"
    /\ \A t \in Threads : pc[t] # "undefined"
    /\ owner \notin {"create", "created"} => handle = "mq"
    /\ owner # "created" \/ handle # "mq" => \A t \in Threads : pc[t] = "idle"
    /\ owner # "created" \/ handle = "mq" => objs = ObjectsAt(owner)

QuietInv == TypeOK /\ Released /\ Lifecycle

LEMMA QuietInit == Init => QuietInv
BY InitTypeOK, OsalMqAssumption DEF Init, QuietInv, Released, Lifecycle, ObjectsAt

LEMMA QuietStep ==
  ASSUME Disciplined
  PROVE  QuietInv /\ [Next]_vars => QuietInv'
<1> SUFFICES ASSUME QuietInv, [Next]_vars
             PROVE  QuietInv'
  OBVIOUS
<1>1. TypeOK'
  BY StepTypeOK DEF QuietInv
<1>2. (Released /\ Lifecycle)'
  <2> USE OsalMqAssumption
      DEF Disciplined, QuietInv, TypeOK, Released, Lifecycle, ObjectsAt, Objects, vars, ring,
          locals, globals, Threads, At, Goto, Finish, PushSection, HoldsRMutex, PopSection,
          OwnsRMutex
  <2>1. ASSUME NEW t \in Senders, NEW m \in Messages, SendCall(t, m)
       PROVE  (Released /\ Lifecycle)'
    BY <2>1 DEF SendCall, MayCall
  <2>2. ASSUME NEW t \in Receivers, NEW w \in Waits, RecvCall(t, w)
       PROVE  (Released /\ Lifecycle)'
    BY <2>2 DEF RecvCall, MayCall
  <2>3. ASSUME NEW t \in Threads, LockW(t)
       PROVE  (Released /\ Lifecycle)'
    BY <2>3 DEF LockW
  <2>4. ASSUME NEW t \in Threads, PushTest(t)
       PROVE  (Released /\ Lifecycle)'
    BY <2>4 DEF PushTest
  <2>5. ASSUME NEW t \in Threads, PushCopy(t)
       PROVE  (Released /\ Lifecycle)'
    BY <2>5 DEF PushCopy
  <2>6. ASSUME NEW t \in Threads, PushPublish(t)
       PROVE  (Released /\ Lifecycle)'
    BY <2>6 DEF PushPublish
  <2>7. ASSUME NEW t \in Threads, UnlockW(t)
       PROVE  (Released /\ Lifecycle)'
    BY <2>7 DEF UnlockW
  <2>8. ASSUME NEW t \in Threads, LockRSignal(t)
       PROVE  (Released /\ Lifecycle)'
    BY <2>8 DEF LockRSignal
  <2>9. ASSUME NEW t \in Threads, Signal(t)
       PROVE  (Released /\ Lifecycle)'
    BY <2>9 DEF Signal
  <2>10. ASSUME NEW t \in Threads, UnlockRSignal(t)
       PROVE  (Released /\ Lifecycle)'
    BY <2>10 DEF UnlockRSignal
  <2>11. ASSUME NEW t \in Threads, LockR(t)
       PROVE  (Released /\ Lifecycle)'
    BY <2>11 DEF LockR
  <2>12. ASSUME NEW t \in Threads, PopTest(t)
       PROVE  (Released /\ Lifecycle)'
    BY <2>12 DEF PopTest
  <2>13. ASSUME NEW t \in Threads, PopCopy(t)
       PROVE  (Released /\ Lifecycle)'
    BY <2>13 DEF PopCopy
  <2>14. ASSUME NEW t \in Threads, PopPublish(t)
       PROVE  (Released /\ Lifecycle)'
    BY <2>14 DEF PopPublish
  <2>15. ASSUME NEW t \in Threads, CondWait(t)
       PROVE  (Released /\ Lifecycle)'
    BY <2>15 DEF CondWait
  <2>16. ASSUME NEW t \in Threads, CondExpire(t)
       PROVE  (Released /\ Lifecycle)'
    BY <2>16 DEF CondExpire
  <2>17. ASSUME NEW t \in Threads, Relock(t)
       PROVE  (Released /\ Lifecycle)'
    BY <2>17 DEF Relock
  <2>18. ASSUME NEW t \in Threads, UnlockR(t)
       PROVE  (Released /\ Lifecycle)'
    BY <2>18 DEF UnlockR
  <2>19. ASSUME NEW t \in Threads, CondSpurious(t)
       PROVE  (Released /\ Lifecycle)'
    BY <2>19 DEF CondSpurious
  <2>20. ASSUME NEW t \in Threads, UseAfterFree(t)
       PROVE  (Released /\ Lifecycle)'
    BY <2>20 DEF UseAfterFree, Touches, Places, SenderPlaces, ReceiverPlaces, WaiterWoken
  <2>21. CASE Create
    BY <2>21 DEF Create
  <2>22. CASE DestroyCall
    BY <2>22 DEF DestroyCall
  <2>23. CASE Broadcast
    BY <2>23 DEF Broadcast
  <2>24. CASE DestroyLockR
    BY <2>24 DEF DestroyLockR
  <2>25. CASE FreeRaw
    BY <2>25 DEF FreeRaw
  <2>26. CASE DestroyUnlockR
    BY <2>26 DEF DestroyUnlockR
  <2>27. CASE DestroyMutexes
    BY <2>27 DEF DestroyMutexes
  <2>28. CASE DestroyCond
    BY <2>28 DEF DestroyCond
  <2>29. CASE FreeMq
    BY <2>29 DEF FreeMq
  <2>30. CASE UNCHANGED vars
    BY <2>30
  <2>. QED
    BY <2>1, <2>2, <2>3, <2>4, <2>5, <2>6, <2>7, <2>8, <2>9, <2>10, <2>11,
       <2>12, <2>13, <2>14, <2>15, <2>16, <2>17, <2>18, <2>19, <2>20,
       <2>21, <2>22, <2>23, <2>24, <2>25, <2>26, <2>27, <2>28, <2>29, <2>30
    DEF Next, SendStep, RecvStep, DestroyStep, Threads
<1>. QED
  BY <1>1, <1>2 DEF QuietInv

(* No call of a queue so used touches memory or a mutex that is gone.      *)
THEOREM NoUseAfterFreeHolds ==
  ASSUME Disciplined
  PROVE  Spec => []NoUseAfterFree
<1>1. QuietInv => NoUseAfterFree
  BY DEF QuietInv, Lifecycle, NoUseAfterFree
<1>. QED
  BY <1>1, QuietInit, QuietStep, PTL DEF Spec

(* Destroying a queue so used leaves nothing behind, no mutex included.    *)
THEOREM DestroyReleasesAllHolds ==
  ASSUME Disciplined
  PROVE  Spec => []DestroyReleasesAll
<1>1. QuietInv => DestroyReleasesAll
  BY DEF QuietInv, Lifecycle, ObjectsAt, DestroyReleasesAll
<1>. QED
  BY <1>1, QuietInit, QuietStep, PTL DEF Spec

---------------------------------------------------------------------------
(* The ring as a sequence.                                                 *)

LEMMA CountRange ==
  ASSUME read \in Slots, write \in Slots
  PROVE  /\ Count \in 0 .. msg_max - 1
         /\ IsFull <=> Count = msg_max - 1
         /\ IsEmpty <=> Count = 0
         /\ Len(Contents) = Count
BY OsalMqAssumption DEF Slots, Count, Contents, IsFull, IsEmpty, Advance

(* No message of the ring is in the slot the next one goes to. *)
LEMMA WriteSlotFree ==
  ASSUME read \in Slots, write \in Slots, NEW i \in 1 .. Count
  PROVE  /\ (read + i - 1) % msg_max \in Slots
         /\ (read + i - 1) % msg_max # write
BY OsalMqAssumption DEF Slots, Count

LEMMA CopyKeepsContents ==
  ASSUME TypeOK, NEW m, buffer' = [buffer EXCEPT ![write] = m],
         UNCHANGED <<read, write>>
  PROVE  Contents' = Contents
<1>1. Count' = Count
  BY DEF Count
<1>2. ASSUME NEW i \in 1 .. Count
      PROVE  buffer'[(read + i - 1) % msg_max] = buffer[(read + i - 1) % msg_max]
  BY WriteSlotFree DEF TypeOK
<1>. QED
  BY <1>1, <1>2 DEF Contents

LEMMA PublishGrows ==
  ASSUME TypeOK, ~ IsFull, write' = Advance(write), UNCHANGED read
  PROVE  Count' = Count + 1 /\ Count \in Nat /\ Count < msg_max - 1
<1>1. read \in Slots /\ write \in Slots /\ write' \in Slots
  BY AdvanceInSlots DEF TypeOK
<1>. QED
  BY <1>1, OsalMqAssumption DEF Slots, Count, Advance, IsFull

LEMMA PublishShrinks ==
  ASSUME TypeOK, ~ IsEmpty, read' = Advance(read), UNCHANGED write
  PROVE  Count' = Count - 1 /\ Count \in Nat /\ Count > 0
<1>1. read \in Slots /\ write \in Slots /\ read' \in Slots
  BY AdvanceInSlots DEF TypeOK
<1>. QED
  BY <1>1, OsalMqAssumption DEF Slots, Count, Advance, IsEmpty

LEMMA PublishAppends ==
  ASSUME TypeOK, ~ IsFull, write' = Advance(write), UNCHANGED <<read, buffer>>
  PROVE  /\ Contents' = Append(Contents, buffer[write])
         /\ Len(Contents) < msg_max - 1
<1>1. read \in Slots /\ write \in Slots /\ write' \in Slots
  BY AdvanceInSlots DEF TypeOK
<1>2. Count' = Count + 1 /\ Count \in Nat /\ Count < msg_max - 1
  BY PublishGrows
<1>3. (read + Count) % msg_max = write
  BY <1>1, OsalMqAssumption DEF Slots, Count
<1>4. Contents' = [i \in 1 .. Count + 1 |-> buffer[(read + i - 1) % msg_max]]
  BY <1>2 DEF Contents
<1>5. Append(Contents, buffer[write]) =
        [i \in 1 .. Count + 1 |-> IF i = Count + 1 THEN buffer[write] ELSE Contents[i]]
  BY <1>2 DEF Contents
<1>. QED
  BY <1>2, <1>3, <1>4, <1>5 DEF Contents

LEMMA PublishRemoves ==
  ASSUME TypeOK, ~ IsEmpty, read' = Advance(read), UNCHANGED <<write, buffer>>
  PROVE  /\ Contents # <<>>
         /\ Head(Contents) = buffer[read]
         /\ Contents' = Tail(Contents)
<1>1. read \in Slots /\ write \in Slots /\ read' \in Slots
  BY AdvanceInSlots DEF TypeOK
<1>2. Count' = Count - 1 /\ Count \in Nat /\ Count > 0
  BY PublishShrinks
<1>3. ASSUME NEW i \in 1 .. Count - 1
      PROVE  (read' + i - 1) % msg_max = (read + (i + 1) - 1) % msg_max
  BY <1>1, <1>2, OsalMqAssumption DEF Slots, Advance, Count
<1>4. Contents # <<>> /\ Head(Contents) = buffer[read]
  <2>1. (read + 1 - 1) % msg_max = read
    BY <1>1, OsalMqAssumption DEF Slots
  <2>2. Contents[1] = buffer[(read + 1 - 1) % msg_max] /\ Len(Contents) = Count
    BY <1>2 DEF Contents
  <2>3. Head(Contents) = Contents[1]
    BY <1>2 DEF Contents
  <2>4. Contents # <<>>
    BY <2>2, <1>2
  <2>. QED
    BY <2>1, <2>2, <2>3, <2>4
<1>5. Tail(Contents) = [i \in 1 .. Count - 1 |-> Contents[i + 1]]
  BY <1>2 DEF Contents
<1>6. Contents' = [i \in 1 .. Count - 1 |-> buffer[(read' + i - 1) % msg_max]]
  BY <1>2 DEF Contents
<1>7. \A i \in 1 .. Count - 1 : Contents[i + 1] = buffer[(read + (i + 1) - 1) % msg_max]
  BY <1>2 DEF Contents
<1>8. \A i \in 1 .. Count - 1 : Contents[i + 1] = buffer[(read' + i - 1) % msg_max]
  BY <1>3, <1>7
<1>9. Contents' = Tail(Contents)
  BY <1>5, <1>6, <1>8, Zenon
<1>. QED
  BY <1>4, <1>9

---------------------------------------------------------------------------
(* No wakeup is lost.  A receiver that found the ring empty has r_mutex    *)
(* until it blocks, so each message pushed since then still has its sender *)
(* before the signal: the count must hold from "wait" on.  The signal      *)
(* takes a sender out of Lookers and puts the receiver it wakes in its     *)
(* place; it wakes none only when nobody waits.                            *)

Waiting == \E t \in Threads : pc[t] \in {"wait", "blocked"}

WakeInv ==
    /\ exit_flag => owner \notin {"create", "created"}
    /\ Waiting => Count <= Cardinality(Lookers)

LEMMA LookersFinite == IsFiniteSet(Lookers) /\ Cardinality(Lookers) \in Nat
BY ThreadsAssumption, FS_Subset, FS_CardinalityType DEF Lookers

LEMMA LookersFiniteNext == IsFiniteSet(Lookers') /\ Cardinality(Lookers') \in Nat
BY ThreadsAssumption, FS_Subset, FS_CardinalityType DEF Lookers, Threads

(* A step that adds nothing to the ring and takes nobody out of Lookers. *)
LEMMA StillLooking ==
  ASSUME TypeOK, WakeInv, Waiting' => Waiting,
         Lookers \subseteq Lookers', UNCHANGED <<read, write>>
  PROVE  Waiting' => Count' <= Cardinality(Lookers')
<1>1. Count' = Count /\ Count \in Nat
  BY CountRange, OsalMqAssumption DEF Count, TypeOK
<1>2. Cardinality(Lookers) <= Cardinality(Lookers')
  BY LookersFiniteNext, FS_Subset
<1>. QED
  BY <1>1, <1>2, LookersFinite, LookersFiniteNext DEF WakeInv

(* The store to write adds a message, and its sender to Lookers. *)
LEMMA PublishLooks ==
  ASSUME TypeOK, Distance, WakeInv, NEW t \in Threads, PushPublish(t)
  PROVE  Waiting' => Count' <= Cardinality(Lookers')
<1> USE DEF PushPublish, At, Finish, Goto, TypeOK
<1>1. Lookers' = Lookers \cup {t} /\ t \notin Lookers
  BY DEF Lookers, PopSection, Threads
<1>2. Cardinality(Lookers') = Cardinality(Lookers) + 1
  BY <1>1, LookersFinite, FS_AddElement
<1>3. Count' = Count + 1 /\ Count \in Nat
  BY PublishGrows DEF Distance, IsFull
<1>4. Waiting' => Waiting
  BY DEF Waiting
<1>. QED
  BY <1>2, <1>3, <1>4, LookersFinite DEF WakeInv

(* The store to read takes a message out, and its receiver out of Lookers. *)
LEMMA TakenLooks ==
  ASSUME TypeOK, Distance, WakeInv, NEW t \in Threads, PopPublish(t)
  PROVE  Waiting' => Count' <= Cardinality(Lookers')
<1> USE DEF PopPublish, At, Finish, Goto, TypeOK
<1>1. Lookers' = Lookers \ {t} /\ t \in Lookers
  BY DEF Lookers, PopSection, Threads
<1>2. Cardinality(Lookers') = Cardinality(Lookers) - 1
  BY <1>1, LookersFinite, FS_RemoveElement
<1>3. Count' = Count - 1 /\ Count \in Nat
  BY PublishShrinks DEF Distance, IsEmpty
<1>4. Waiting' => Waiting
  BY DEF Waiting
<1>. QED
  BY <1>2, <1>3, <1>4, LookersFinite DEF WakeInv

(* The signal hands the look over, or finds nobody to hand it to: no       *)
(* receiver stands between its test and its wait, that takes r_mutex.      *)
LEMMA SignalHandsOver ==
  ASSUME TypeOK, Exclusion, WakeInv, NEW t \in Threads, Signal(t)
  PROVE  Waiting' => Count' <= Cardinality(Lookers')
<1> USE DEF Signal, At, Goto, TypeOK
<1>1. CASE cond = {} /\ Goto(t, "unlock_r_signal")
  <2>1. ASSUME NEW u \in Threads
        PROVE  pc[u] \notin {"wait", "blocked"}
    <3>1. pc[u] # "blocked"
      BY <1>1
    <3>2. pc[u] = "wait" => u = t
      BY OsalMqAssumption DEF Exclusion, HoldsRMutex
    <3>. QED
      BY <3>1, <3>2
  <2>. QED
    BY <2>1, <1>1 DEF Waiting, Threads
<1>2. ASSUME NEW u \in cond,
             pc' = [pc EXCEPT ![t] = "unlock_r_signal", ![u] = "relock"]
      PROVE  Waiting' => Count' <= Cardinality(Lookers')
  <2>1. u \in Threads /\ pc[u] = "blocked" /\ u # t
    OBVIOUS
  <2>2. Lookers' = (Lookers \ {t}) \cup {u} /\ t \in Lookers /\ u \notin Lookers
    BY <1>2, <2>1 DEF Lookers, PopSection, Threads
  <2>3. Cardinality(Lookers') = Cardinality(Lookers)
    <3>1. /\ IsFiniteSet(Lookers \ {t})
          /\ Cardinality(Lookers \ {t}) = Cardinality(Lookers) - 1
      BY <2>2, LookersFinite, FS_RemoveElement
    <3>2. Cardinality((Lookers \ {t}) \cup {u}) = Cardinality(Lookers \ {t}) + 1
      BY <3>1, <2>2, FS_AddElement
    <3>. QED
      BY <3>1, <3>2, <2>2, LookersFinite
  <2>4. Waiting
    BY <2>1 DEF Waiting
  <2>5. Count' = Count
    BY DEF Count, ring
  <2>. QED
    BY <2>3, <2>4, <2>5 DEF WakeInv
<1>. QED
  BY <1>1, <1>2

(* A receiver that looks and leaves without a message found none. *)
LEMMA TestLooks ==
  ASSUME TypeOK, WakeInv, NEW t \in Threads, PopTest(t)
  PROVE  Waiting' => Count' <= Cardinality(Lookers')
<1> USE DEF PopTest, At, Finish, Goto, TypeOK
<1>1. Count' = Count
  BY DEF Count, ring
<1>2. CASE IsEmpty
  BY <1>1, <1>2, CountRange, LookersFiniteNext
<1>3. CASE ~ IsEmpty
  <2>1. Lookers' = Lookers
    BY <1>3 DEF Lookers, PopSection, Threads
  <2>2. Waiting' => Waiting
    BY <1>3 DEF Waiting
  <2>. QED
    BY <1>1, <2>1, <2>2 DEF WakeInv
<1>. QED
  BY <1>2, <1>3

LEMMA WakeStep ==
  ASSUME Disciplined
  PROVE  IInv /\ QuietInv /\ WakeInv /\ [Next]_vars => WakeInv'
<1> SUFFICES ASSUME IInv, QuietInv, WakeInv, [Next]_vars
             PROVE  WakeInv'
  OBVIOUS
<1>1. TypeOK /\ Exclusion /\ Distance /\ Lifecycle
  BY DEF IInv, QuietInv
<1>2. (exit_flag => owner \notin {"create", "created"})'
  <2> USE DEF WakeInv, vars, ring, locals, globals
  <2>1. CASE Create
    BY <2>1 DEF Create
  <2>2. CASE DestroyCall
    BY <2>2, <1>1 DEF DestroyCall
  <2>3. CASE DestroyStep
    BY <2>3 DEF DestroyStep, Broadcast, DestroyLockR, FreeRaw, DestroyUnlockR,
                DestroyMutexes, DestroyCond, FreeMq
  <2>4. CASE UNCHANGED <<exit_flag, owner>>
    BY <2>4
  <2>5. ASSUME NEW t \in Threads, SendStep(t)
        PROVE  UNCHANGED <<exit_flag, owner>>
    BY <2>5 DEF SendStep, LockW, PushTest, PushCopy, PushPublish, UnlockW, LockRSignal,
                Signal, UnlockRSignal
  <2>6. ASSUME NEW t \in Threads, RecvStep(t)
        PROVE  UNCHANGED <<exit_flag, owner>>
    BY <2>6 DEF RecvStep, LockR, PopTest, PopCopy, PopPublish, CondWait, CondExpire, Relock,
                UnlockR
  <2>. QED
    BY <2>1, <2>2, <2>3, <2>4, <2>5, <2>6
    DEF Next, SendCall, RecvCall, CondSpurious, UseAfterFree
<1>3. (Waiting => Count <= Cardinality(Lookers))'
  <2> DEFINE Still == (Waiting' => Waiting) /\ Lookers \subseteq Lookers' /\ UNCHANGED <<read, write>>
  <2>0. Still => (Waiting' => Count' <= Cardinality(Lookers'))
    BY StillLooking, <1>1
  <2> USE <1>1 DEF TypeOK, Lookers, Waiting, PopSection, Threads, vars, ring, locals, globals,
          At, Goto, Finish
  <2>1. ASSUME NEW t \in Senders, NEW m \in Messages, SendCall(t, m)
        PROVE  Still
    BY <2>1 DEF SendCall, MayCall
  <2>2. ASSUME NEW t \in Receivers, NEW w \in Waits, RecvCall(t, w)
        PROVE  Still
    BY <2>2 DEF RecvCall, MayCall
  <2>3. ASSUME NEW t \in Threads, LockW(t)
        PROVE  Still
    BY <2>3 DEF LockW
  <2>4. ASSUME NEW t \in Threads, PushTest(t)
        PROVE  Still
    BY <2>4 DEF PushTest
  <2>5. ASSUME NEW t \in Threads, PushCopy(t)
        PROVE  Still
    BY <2>5 DEF PushCopy
  <2>6. ASSUME NEW t \in Threads, UnlockW(t)
        PROVE  Still
    BY <2>6 DEF UnlockW
  <2>7. ASSUME NEW t \in Threads, LockRSignal(t)
        PROVE  Still
    BY <2>7 DEF LockRSignal
  <2>8. ASSUME NEW t \in Threads, UnlockRSignal(t)
        PROVE  Still
    BY <2>8 DEF UnlockRSignal
  <2>9. ASSUME NEW t \in Threads, LockR(t)
        PROVE  Still
    BY <2>9 DEF LockR
  <2>10. ASSUME NEW t \in Threads, PopCopy(t)
        PROVE  Still
    BY <2>10 DEF PopCopy
  <2>11. ASSUME NEW t \in Threads, CondWait(t)
        PROVE  Still
    BY <2>11 DEF CondWait
  <2>12. ASSUME NEW t \in Threads, CondExpire(t)
        PROVE  Still
    BY <2>12 DEF CondExpire
  <2>13. ASSUME NEW t \in Threads, CondSpurious(t)
        PROVE  Still
    BY <2>13 DEF CondSpurious
  <2>14. ASSUME NEW t \in Threads, Relock(t)
        PROVE  Still
    <3>1. ~ exit_flag
      BY <2>14 DEF Relock, WakeInv, Lifecycle
    <3>. QED
      BY <3>1, <2>14 DEF Relock
  <2>15. ASSUME NEW t \in Threads, UnlockR(t)
        PROVE  Still
    BY <2>15 DEF UnlockR
  <2>16. ASSUME NEW t \in Threads
        PROVE  ~ UseAfterFree(t)
    BY QuietStep DEF QuietInv, Lifecycle, UseAfterFree
  <2>17. CASE Create
    BY <2>0, <2>17 DEF Create
  <2>18. CASE DestroyCall
    BY <2>0, <2>18 DEF DestroyCall
  <2>19. CASE Broadcast
    <3>1. cond = {}
      BY <2>19 DEF Broadcast, Lifecycle
    <3>. QED
      BY <2>0, <3>1, <2>19 DEF Broadcast
  <2>20. CASE DestroyLockR \/ FreeRaw \/ DestroyUnlockR \/ DestroyMutexes \/ DestroyCond \/ FreeMq
    BY <2>0, <2>20 DEF DestroyLockR, FreeRaw, DestroyUnlockR, DestroyMutexes, DestroyCond, FreeMq
  <2>21. CASE UNCHANGED vars
    BY <2>0, <2>21
  <2> HIDE DEF Still
  <2>. QED
    BY <2>0, <2>1, <2>2, <2>3, <2>4, <2>5, <2>6, <2>7, <2>8, <2>9, <2>10, <2>11, <2>12, <2>13,
       <2>14, <2>15, <2>16, <2>17, <2>18, <2>19, <2>20, <2>21, PublishLooks, TakenLooks,
       SignalHandsOver, TestLooks
    DEF Next, SendStep, RecvStep, DestroyStep
<1>. QED
  BY <1>2, <1>3 DEF WakeInv

(* While a receiver of a queue so used is blocked, no message of the ring  *)
(* is left to it without a sender about to signal or another receiver      *)
(* about to look: for any number of threads and slots.                     *)
THEOREM NoLostWakeupHolds ==
  ASSUME Disciplined
  PROVE  Spec => []NoLostWakeup
<1>1. Init => WakeInv
  BY DEF Init, WakeInv, Waiting
<1>2. TypeOK /\ WakeInv => NoLostWakeup
  BY DEF WakeInv, Waiting, NoLostWakeup, TypeOK
<1>3. IInv => TypeOK
  BY DEF IInv
<1>. QED
  BY <1>1, <1>2, <1>3, IInvInit, IInvStep, QuietInit, QuietStep, WakeStep, PTL DEF Spec

---------------------------------------------------------------------------
(* OsalMq implements MessageQueue.                                         *)

(* What a call carries at each of its places. *)
Carried ==
    \A t \in Threads :
        /\ pc[t] \in SenderPlaces => t \in Senders /\ msg[t] \in Messages
        /\ pc[t] \in ReceiverPlaces => t \in Receivers
        /\ pc[t] = "publish_in" => buffer[write] = msg[t]
        /\ pc[t] = "publish_out" => msg[t] = buffer[read]
        /\ pc[t] = "unlock_w_full" => ret[t] = "FAIL"
        /\ pc[t] \in {"lock_r", "pop", "copy_out", "wait", "blocked"} \cup WaiterWoken
              => msg[t] = NoMessage
        /\ pc[t] \in {"wait", "blocked"} \cup WaiterWoken => timeout[t] # "poll"
        /\ pc[t] = "relock_timedout" => timeout[t] = "timed"

LEMMA CarriedInit == Init => Carried
BY DEF Init, Carried, SenderPlaces, ReceiverPlaces, PushSection, PopSection, WaiterWoken

LEMMA CarriedStep == IInv /\ Carried /\ [Next]_vars => Carried'
<1> SUFFICES ASSUME IInv, Carried, [Next]_vars
             PROVE  Carried'
  OBVIOUS
<1> USE OsalMqAssumption, AdvanceInSlots
    DEF IInv, TypeOK, Exclusion, Distance, Carried, vars, ring, locals, globals, Threads, At,
        Goto, Finish, SenderPlaces, ReceiverPlaces, PushSection, HoldsRMutex, PopSection,
        WaiterWoken
<1>1. ASSUME NEW t \in Senders, NEW m \in Messages, SendCall(t, m)
     PROVE  Carried'
  BY <1>1 DEF SendCall, MayCall
<1>2. ASSUME NEW t \in Receivers, NEW w \in Waits, RecvCall(t, w)
     PROVE  Carried'
  BY <1>2 DEF RecvCall, MayCall
<1>3. ASSUME NEW t \in Threads, LockW(t)
     PROVE  Carried'
  BY <1>3 DEF LockW
<1>4. ASSUME NEW t \in Threads, PushTest(t)
     PROVE  Carried'
  BY <1>4 DEF PushTest
<1>5. ASSUME NEW t \in Threads, PushCopy(t)
     PROVE  Carried'
  BY <1>5 DEF PushCopy
<1>6. ASSUME NEW t \in Threads, PushPublish(t)
     PROVE  Carried'
  BY <1>6 DEF PushPublish
<1>7. ASSUME NEW t \in Threads, UnlockW(t)
     PROVE  Carried'
  BY <1>7 DEF UnlockW
<1>8. ASSUME NEW t \in Threads, LockRSignal(t)
     PROVE  Carried'
  BY <1>8 DEF LockRSignal
<1>9. ASSUME NEW t \in Threads, Signal(t)
     PROVE  Carried'
  BY <1>9 DEF Signal
<1>10. ASSUME NEW t \in Threads, UnlockRSignal(t)
     PROVE  Carried'
  BY <1>10 DEF UnlockRSignal
<1>11. ASSUME NEW t \in Threads, LockR(t)
     PROVE  Carried'
  BY <1>11 DEF LockR
<1>12. ASSUME NEW t \in Threads, PopTest(t)
     PROVE  Carried'
  BY <1>12 DEF PopTest
<1>13. ASSUME NEW t \in Threads, PopCopy(t)
     PROVE  Carried'
  BY <1>13 DEF PopCopy
<1>14. ASSUME NEW t \in Threads, PopPublish(t)
     PROVE  Carried'
  BY <1>14 DEF PopPublish
<1>15. ASSUME NEW t \in Threads, CondWait(t)
     PROVE  Carried'
  BY <1>15 DEF CondWait
<1>16. ASSUME NEW t \in Threads, CondExpire(t)
     PROVE  Carried'
  BY <1>16 DEF CondExpire
<1>17. ASSUME NEW t \in Threads, Relock(t)
     PROVE  Carried'
  BY <1>17 DEF Relock
<1>18. ASSUME NEW t \in Threads, UnlockR(t)
     PROVE  Carried'
  BY <1>18 DEF UnlockR
<1>19. ASSUME NEW t \in Threads, CondSpurious(t)
     PROVE  Carried'
  BY <1>19 DEF CondSpurious
<1>20. ASSUME NEW t \in Threads, UseAfterFree(t)
     PROVE  Carried'
  BY <1>20 DEF UseAfterFree
<1>21. CASE Create
  BY <1>21 DEF Create
<1>22. CASE DestroyCall
  BY <1>22 DEF DestroyCall
<1>23. CASE Broadcast
  BY <1>23 DEF Broadcast
<1>24. CASE DestroyLockR
  BY <1>24 DEF DestroyLockR
<1>25. CASE FreeRaw
  BY <1>25 DEF FreeRaw
<1>26. CASE DestroyUnlockR
  BY <1>26 DEF DestroyUnlockR
<1>27. CASE DestroyMutexes
  BY <1>27 DEF DestroyMutexes
<1>28. CASE DestroyCond
  BY <1>28 DEF DestroyCond
<1>29. CASE FreeMq
  BY <1>29 DEF FreeMq
<1>30. CASE UNCHANGED vars
  BY <1>30
<1>. QED
  BY <1>1, <1>2, <1>3, <1>4, <1>5, <1>6, <1>7, <1>8, <1>9, <1>10, <1>11,
     <1>12, <1>13, <1>14, <1>15, <1>16, <1>17, <1>18, <1>19, <1>20,
     <1>21, <1>22, <1>23, <1>24, <1>25, <1>26, <1>27, <1>28, <1>29, <1>30
  DEF Next, SendStep, RecvStep, DestroyStep, Threads

(* The abstract view of the calls in progress. *)
AbstractCalls == [t \in Threads |-> AbstractCall(t)]

(* Steps that the abstract specification does not see. *)
LEMMA SilentSteps ==
  ASSUME IInv, Carried, NEW t \in Threads,
         \/ LockW(t) \/ PushCopy(t) \/ LockRSignal(t) \/ Signal(t)
         \/ LockR(t) \/ PopCopy(t) \/ CondWait(t) \/ CondExpire(t) \/ CondSpurious(t)
  PROVE  UNCHANGED <<Contents, exit_flag, AbstractCalls>>
<1> USE DEF IInv, TypeOK, Exclusion, Distance, Carried, vars, ring, locals, globals, 
            At, Goto, Finish, SenderPlaces, ReceiverPlaces, PushSection, HoldsRMutex, PopSection,
            WaiterWoken, AbstractCalls, AbstractCall
<1>1. CASE LockW(t)
  BY <1>1 DEF LockW, Contents, Count
<1>2. CASE PushCopy(t)
  <2>1. Contents' = Contents
    BY <1>2, CopyKeepsContents DEF PushCopy
  <2>. QED
    BY <1>2, <2>1 DEF PushCopy
<1>3. CASE LockRSignal(t)
  BY <1>3 DEF LockRSignal, Contents, Count
<1>4. CASE Signal(t)
  BY <1>4 DEF Signal, Contents, Count
<1>5. CASE LockR(t)
  BY <1>5 DEF LockR, Contents, Count
<1>6. CASE PopCopy(t)
  BY <1>6 DEF PopCopy, Contents, Count
<1>7. CASE CondWait(t)
  BY <1>7 DEF CondWait, Contents, Count
<1>8. CASE CondExpire(t)
  BY <1>8 DEF CondExpire, Contents, Count
<1>9. CASE CondSpurious(t)
  BY <1>9 DEF CondSpurious, Contents, Count
<1>. QED
  BY <1>1, <1>2, <1>3, <1>4, <1>5, <1>6, <1>7, <1>8, <1>9

(* A step that changes the call of one thread only is a step of the        *)
(* abstract calls from its old value to its new one.                       *)
LEMMA CallChanges ==
  ASSUME NEW t \in Threads, NEW from, NEW to,
         AbstractCall(t) = from, AbstractCall(t)' = to,
         \A u \in Threads : u # t => AbstractCall(u)' = AbstractCall(u)
  PROVE  Abstract!Becomes(t, from, to)
BY DEF Abstract!Becomes

(* A completed call returns. *)
LEMMA CallEnds ==
  ASSUME NEW t \in Threads, NEW result, NEW m,
         UNCHANGED <<Contents, exit_flag>>,
         Abstract!Becomes(t, [op |-> "done", result |-> result, msg |-> m], [op |-> "idle"])
  PROVE  Abstract!Return(t)
BY DEF Abstract!Return, Abstract!Becomes, Abstract!Idle

(* Steps at which a send begins, takes effect and ends. *)
LEMMA SendSteps ==
  ASSUME IInv, Carried, NEW t \in Threads
  PROVE  /\ \A m \in Messages : SendCall(t, m) => Abstract!CallSend(t, m)
         /\ PushTest(t) => \/ UNCHANGED <<Contents, exit_flag, AbstractCalls>>
                           \/ Abstract!Reject(t, msg[t])
         /\ PushPublish(t) => Abstract!Accept(t, msg[t])
         /\ UnlockW(t) => \/ UNCHANGED <<Contents, exit_flag, AbstractCalls>>
                          \/ Abstract!Return(t)
         /\ UnlockRSignal(t) => Abstract!Return(t)
<1> USE DEF IInv, TypeOK, Exclusion, Distance, Carried, vars, ring, locals, globals, At, Goto,
            Finish, SenderPlaces, ReceiverPlaces, PushSection, HoldsRMutex, PopSection,
            WaiterWoken
<1>1. ASSUME NEW m \in Messages, SendCall(t, m)
      PROVE  Abstract!CallSend(t, m)
  <2>1. UNCHANGED <<Contents, exit_flag>>
    BY <1>1 DEF SendCall, Contents, Count
  <2>2. Abstract!Becomes(t, [op |-> "idle"], [op |-> "send", msg |-> m])
    <3>1. AbstractCall(t) = [op |-> "idle"] /\ AbstractCall(t)' = [op |-> "send", msg |-> m]
      BY <1>1 DEF SendCall, MayCall, AbstractCall
    <3>2. \A u \in Threads : u # t => AbstractCall(u)' = AbstractCall(u)
      BY <1>1 DEF SendCall, MayCall, AbstractCall
    <3>. QED
      BY <3>1, <3>2, CallChanges
  <2>. QED
    BY <2>1, <2>2 DEF Abstract!CallSend, Abstract!Idle, Abstract!Sending
<1>2. ASSUME PushTest(t)
      PROVE  \/ UNCHANGED <<Contents, exit_flag, AbstractCalls>>
             \/ Abstract!Reject(t, msg[t])
  <2>1. UNCHANGED <<Contents, exit_flag>>
    BY <1>2 DEF PushTest, Contents, Count
  <2>2. CASE IsFull
    <3>1. Len(Contents) = msg_max - 1
      BY <2>2, CountRange
    <3>2. Abstract!Becomes(t, [op |-> "send", msg |-> msg[t]], [op |-> "done", result |-> "FAIL", msg |-> msg[t]])
      <4>1. AbstractCall(t) = [op |-> "send", msg |-> msg[t]] /\ AbstractCall(t)' = [op |-> "done", result |-> "FAIL", msg |-> msg[t]]
        BY <1>2, <2>2 DEF PushTest, AbstractCall
      <4>2. \A u \in Threads : u # t => AbstractCall(u)' = AbstractCall(u)
        BY <1>2, <2>2 DEF PushTest, AbstractCall
      <4>. QED
        BY <4>1, <4>2, CallChanges
    <3>. QED
      BY <2>1, <3>1, <3>2 DEF Abstract!Reject, Abstract!Sending, Abstract!Returned
  <2>3. CASE ~ IsFull
    BY <1>2, <2>1, <2>3 DEF PushTest, AbstractCalls, AbstractCall
  <2>. QED
    BY <2>2, <2>3
<1>3. ASSUME PushPublish(t)
      PROVE  Abstract!Accept(t, msg[t])
  <2>1. /\ Contents' = Append(Contents, msg[t])
        /\ Len(Contents) < msg_max - 1
        /\ UNCHANGED exit_flag
    BY <1>3, PublishAppends DEF PushPublish, IsFull
  <2>2. Abstract!Becomes(t, [op |-> "send", msg |-> msg[t]], [op |-> "done", result |-> "OK", msg |-> msg[t]])
    <3>1. AbstractCall(t) = [op |-> "send", msg |-> msg[t]] /\ AbstractCall(t)' = [op |-> "done", result |-> "OK", msg |-> msg[t]]
      BY <1>3 DEF PushPublish, AbstractCall
    <3>2. \A u \in Threads : u # t => AbstractCall(u)' = AbstractCall(u)
      BY <1>3 DEF PushPublish, AbstractCall
    <3>. QED
      BY <3>1, <3>2, CallChanges
  <2>. QED
    BY <2>1, <2>2 DEF Abstract!Accept, Abstract!Sending, Abstract!Returned
<1>4. ASSUME UnlockW(t)
      PROVE  \/ UNCHANGED <<Contents, exit_flag, AbstractCalls>>
             \/ Abstract!Return(t)
  <2>1. UNCHANGED <<Contents, exit_flag>>
    BY <1>4 DEF UnlockW, Contents, Count
  <2>2. CASE pc[t] = "unlock_w"
    BY <1>4, <2>1, <2>2 DEF UnlockW, AbstractCalls, AbstractCall
  <2>3. CASE pc[t] = "unlock_w_full"
    <3>2. Abstract!Becomes(t, [op |-> "done", result |-> ret[t], msg |-> msg[t]], [op |-> "idle"])
      <4>1. AbstractCall(t) = [op |-> "done", result |-> ret[t], msg |-> msg[t]] /\ AbstractCall(t)' = [op |-> "idle"]
        BY <1>4, <2>3 DEF UnlockW, AbstractCall
      <4>2. \A u \in Threads : u # t => AbstractCall(u)' = AbstractCall(u)
        BY <1>4, <2>3 DEF UnlockW, AbstractCall
      <4>. QED
        BY <4>1, <4>2, CallChanges
    <3>. QED
      BY <2>1, <3>2, CallEnds
  <2>. QED
    BY <1>4, <2>2, <2>3 DEF UnlockW
<1>5. ASSUME UnlockRSignal(t)
      PROVE  Abstract!Return(t)
  <2>1. UNCHANGED <<Contents, exit_flag>>
    BY <1>5 DEF UnlockRSignal, Contents, Count
  <2>2. Abstract!Becomes(t, [op |-> "done", result |-> "OK", msg |-> msg[t]], [op |-> "idle"])
    <3>1. AbstractCall(t) = [op |-> "done", result |-> "OK", msg |-> msg[t]] /\ AbstractCall(t)' = [op |-> "idle"]
      BY <1>5 DEF UnlockRSignal, AbstractCall
    <3>2. \A u \in Threads : u # t => AbstractCall(u)' = AbstractCall(u)
      BY <1>5 DEF UnlockRSignal, AbstractCall
    <3>. QED
      BY <3>1, <3>2, CallChanges
  <2>. QED
    BY <2>1, <2>2, CallEnds
<1>. QED
  BY <1>1, <1>2, <1>3, <1>4, <1>5

(* Steps at which a receive begins, looks, takes effect and ends. *)
LEMMA RecvSteps ==
  ASSUME IInv, Carried, NEW t \in Threads
  PROVE  /\ \A w \in Waits : RecvCall(t, w) => Abstract!CallRecv(t, w)
         /\ PopTest(t) => \/ UNCHANGED <<Contents, exit_flag, AbstractCalls>>
                          \/ Abstract!FindEmpty(t)
                          \/ Abstract!Block(t, timeout[t])
         /\ PopPublish(t) => Abstract!Deliver(t, timeout[t])
         /\ Relock(t) => \/ Abstract!Abort(t, timeout[t])
                         \/ Abstract!Wake(t, timeout[t])
                         \/ Abstract!Expire(t)
         /\ UnlockR(t) => Abstract!Return(t)
<1> USE DEF IInv, TypeOK, Exclusion, Distance, Carried, vars, ring, locals, globals, At, Goto,
            Finish, SenderPlaces, ReceiverPlaces, PushSection, HoldsRMutex, PopSection,
            WaiterWoken
<1>1. ASSUME NEW w \in Waits, RecvCall(t, w)
      PROVE  Abstract!CallRecv(t, w)
  <2>1. UNCHANGED <<Contents, exit_flag>>
    BY <1>1 DEF RecvCall, Contents, Count
  <2>2. Abstract!Becomes(t, [op |-> "idle"], [op |-> "recv", timeout |-> w])
    <3>1. AbstractCall(t) = [op |-> "idle"] /\ AbstractCall(t)' = [op |-> "recv", timeout |-> w]
      BY <1>1 DEF RecvCall, MayCall, AbstractCall
    <3>2. \A u \in Threads : u # t => AbstractCall(u)' = AbstractCall(u)
      BY <1>1 DEF RecvCall, MayCall, AbstractCall
    <3>. QED
      BY <3>1, <3>2, CallChanges
  <2>. QED
    BY <2>1, <2>2 DEF Abstract!CallRecv, Abstract!Idle, Abstract!Looking
<1>2. ASSUME PopTest(t)
      PROVE  \/ UNCHANGED <<Contents, exit_flag, AbstractCalls>>
             \/ Abstract!FindEmpty(t)
             \/ Abstract!Block(t, timeout[t])
  <2>1. UNCHANGED <<Contents, exit_flag>>
    BY <1>2 DEF PopTest, Contents, Count
  <2>2. CASE IsEmpty /\ timeout[t] = "poll"
    <3>1. Contents = <<>>
      BY <2>2, CountRange
    <3>2. Abstract!Becomes(t, [op |-> "recv", timeout |-> "poll"], [op |-> "done", result |-> "TIMEDOUT", msg |-> NoMessage])
      <4>1. AbstractCall(t) = [op |-> "recv", timeout |-> "poll"] /\ AbstractCall(t)' = [op |-> "done", result |-> "TIMEDOUT", msg |-> NoMessage]
        BY <1>2, <2>2 DEF PopTest, AbstractCall
      <4>2. \A u \in Threads : u # t => AbstractCall(u)' = AbstractCall(u)
        BY <1>2, <2>2 DEF PopTest, AbstractCall
      <4>. QED
        BY <4>1, <4>2, CallChanges
    <3>. QED
      BY <2>1, <3>1, <3>2 DEF Abstract!FindEmpty, Abstract!Looking, Abstract!Returned
  <2>3. CASE IsEmpty /\ timeout[t] # "poll"
    <3>1. Contents = <<>>
      BY <2>3, CountRange
    <3>2. Abstract!Becomes(t, [op |-> "recv", timeout |-> timeout[t]], [op |-> "wait", timeout |-> timeout[t]])
      <4>1. AbstractCall(t) = [op |-> "recv", timeout |-> timeout[t]] /\ AbstractCall(t)' = [op |-> "wait", timeout |-> timeout[t]]
        BY <1>2, <2>3 DEF PopTest, AbstractCall
      <4>2. \A u \in Threads : u # t => AbstractCall(u)' = AbstractCall(u)
        BY <1>2, <2>3 DEF PopTest, AbstractCall
      <4>. QED
        BY <4>1, <4>2, CallChanges
    <3>. QED
      BY <2>1, <2>3, <3>1, <3>2 DEF Abstract!Block, Abstract!Looking, Abstract!Blocked
  <2>4. CASE ~ IsEmpty
    BY <1>2, <2>1, <2>4 DEF PopTest, AbstractCalls, AbstractCall
  <2>. QED
    BY <2>2, <2>3, <2>4
<1>3. ASSUME PopPublish(t)
      PROVE  Abstract!Deliver(t, timeout[t])
  <2>1. /\ Contents # <<>> /\ Head(Contents) = msg[t]
        /\ Contents' = Tail(Contents)
        /\ UNCHANGED exit_flag
    BY <1>3, PublishRemoves DEF PopPublish, IsEmpty
  <2>2. Abstract!Becomes(t, [op |-> "recv", timeout |-> timeout[t]], [op |-> "done", result |-> "OK", msg |-> msg[t]])
    <3>1. AbstractCall(t) = [op |-> "recv", timeout |-> timeout[t]] /\ AbstractCall(t)' = [op |-> "done", result |-> "OK", msg |-> msg[t]]
      BY <1>3 DEF PopPublish, AbstractCall
    <3>2. \A u \in Threads : u # t => AbstractCall(u)' = AbstractCall(u)
      BY <1>3 DEF PopPublish, AbstractCall
    <3>. QED
      BY <3>1, <3>2, CallChanges
  <2>. QED
    BY <2>1, <2>2 DEF Abstract!Deliver, Abstract!Looking, Abstract!Returned
<1>4. ASSUME Relock(t)
      PROVE  \/ Abstract!Abort(t, timeout[t])
             \/ Abstract!Wake(t, timeout[t])
             \/ Abstract!Expire(t)
  <2>1. UNCHANGED <<Contents, exit_flag>>
    BY <1>4 DEF Relock, Contents, Count
  <2>2. CASE pc[t] = "relock" /\ exit_flag
    <3>2. Abstract!Becomes(t, [op |-> "wait", timeout |-> timeout[t]], [op |-> "done", result |-> "FAIL", msg |-> NoMessage])
      <4>1. AbstractCall(t) = [op |-> "wait", timeout |-> timeout[t]] /\ AbstractCall(t)' = [op |-> "done", result |-> "FAIL", msg |-> NoMessage]
        BY <1>4, <2>2 DEF Relock, AbstractCall
      <4>2. \A u \in Threads : u # t => AbstractCall(u)' = AbstractCall(u)
        BY <1>4, <2>2 DEF Relock, AbstractCall
      <4>. QED
        BY <4>1, <4>2, CallChanges
    <3>. QED
      BY <2>1, <2>2, <3>2 DEF Abstract!Abort, Abstract!Blocked, Abstract!Returned
  <2>3. CASE pc[t] = "relock" /\ ~ exit_flag
    <3>2. Abstract!Becomes(t, [op |-> "wait", timeout |-> timeout[t]], [op |-> "recv", timeout |-> timeout[t]])
      <4>1. AbstractCall(t) = [op |-> "wait", timeout |-> timeout[t]] /\ AbstractCall(t)' = [op |-> "recv", timeout |-> timeout[t]]
        BY <1>4, <2>3 DEF Relock, AbstractCall
      <4>2. \A u \in Threads : u # t => AbstractCall(u)' = AbstractCall(u)
        BY <1>4, <2>3 DEF Relock, AbstractCall
      <4>. QED
        BY <4>1, <4>2, CallChanges
    <3>. QED
      BY <2>1, <3>2 DEF Abstract!Wake, Abstract!Blocked, Abstract!Looking
  <2>4. CASE pc[t] = "relock_timedout"
    <3>2. Abstract!Becomes(t, [op |-> "wait", timeout |-> "timed"], [op |-> "done", result |-> "TIMEDOUT", msg |-> NoMessage])
      <4>1. AbstractCall(t) = [op |-> "wait", timeout |-> "timed"] /\ AbstractCall(t)' = [op |-> "done", result |-> "TIMEDOUT", msg |-> NoMessage]
        BY <1>4, <2>4 DEF Relock, AbstractCall
      <4>2. \A u \in Threads : u # t => AbstractCall(u)' = AbstractCall(u)
        BY <1>4, <2>4 DEF Relock, AbstractCall
      <4>. QED
        BY <4>1, <4>2, CallChanges
    <3>. QED
      BY <2>1, <3>2 DEF Abstract!Expire, Abstract!Blocked, Abstract!Returned
  <2>. QED
    BY <1>4, <2>2, <2>3, <2>4 DEF Relock
<1>5. ASSUME UnlockR(t)
      PROVE  Abstract!Return(t)
  <2>1. UNCHANGED <<Contents, exit_flag>>
    BY <1>5 DEF UnlockR, Contents, Count
  <2>2. Abstract!Becomes(t, [op |-> "done", result |-> ret[t], msg |-> msg[t]], [op |-> "idle"])
    <3>1. AbstractCall(t) = [op |-> "done", result |-> ret[t], msg |-> msg[t]] /\ AbstractCall(t)' = [op |-> "idle"]
      BY <1>5 DEF UnlockR, AbstractCall
    <3>2. \A u \in Threads : u # t => AbstractCall(u)' = AbstractCall(u)
      BY <1>5 DEF UnlockR, AbstractCall
    <3>. QED
      BY <3>1, <3>2, CallChanges
  <2>. QED
    BY <2>1, <2>2, CallEnds
<1>. QED
  BY <1>1, <1>2, <1>3, <1>4, <1>5

(* Steps of the owner: only the store to exit_flag is one of the abstract  *)
(* specification.                                                          *)
LEMMA OwnerSteps ==
  ASSUME IInv, QuietInv
  PROVE  /\ DestroyCall => Abstract!Close
         /\ Create \/ DestroyStep => UNCHANGED <<Contents, exit_flag, AbstractCalls>>
<1> USE DEF ring, locals, Contents, Count, AbstractCalls
<1>1. ASSUME DestroyCall
      PROVE  Abstract!Close
  <2>1. owner = "created" /\ handle = "mq" /\ "mq" \in objs
    BY <1>1 DEF DestroyCall, QuietInv, Lifecycle, ObjectsAt, Objects
  <2>2. exit_flag' = TRUE /\ UNCHANGED <<Contents, pc, msg, timeout, ret>>
    BY <1>1, <2>1 DEF DestroyCall
  <2>. QED
    BY <2>2 DEF Abstract!Close, AbstractCall
<1>2. ASSUME Broadcast
      PROVE  UNCHANGED <<Contents, exit_flag, AbstractCalls>>
  <2>1. \A t \in Threads : AbstractCall(t)' = AbstractCall(t)
    BY <1>2 DEF Broadcast, AbstractCall, IInv, TypeOK, PopSection, WaiterWoken
  <2>. QED
    BY <1>2, <2>1 DEF Broadcast
<1>3. ASSUME Create \/ DestroyStep, ~ Broadcast
      PROVE  UNCHANGED <<Contents, exit_flag, AbstractCalls>>
  BY <1>3 DEF Create, DestroyStep, DestroyLockR, FreeRaw, DestroyUnlockR, DestroyMutexes,
              DestroyCond, FreeMq, AbstractCall
<1>. QED
  BY <1>1, <1>2, <1>3

LEMMA RefinesInit == Init => Abstract!Init
<1> SUFFICES ASSUME Init
             PROVE  Abstract!Init
  OBVIOUS
<1>1. Contents = <<>>
  BY OsalMqAssumption DEF Init, Contents, Count
<1>2. \A t \in Threads : AbstractCall(t) = Abstract!Idle
  BY DEF Init, AbstractCall, PopSection, WaiterWoken, Abstract!Idle
<1>. QED
  BY <1>1, <1>2 DEF Init, Abstract!Init, Abstract!Threads, Threads

LEMMA RefinesStep ==
  ASSUME Disciplined, IInv, Carried, QuietInv, [Next]_vars
  PROVE  [Abstract!Next]_(Abstract!vars)
<1> DEFINE Silent == UNCHANGED <<Contents, exit_flag, AbstractCalls>>
<1>1. Silent => UNCHANGED Abstract!vars
  BY DEF Abstract!vars, AbstractCalls
<1>2. ASSUME NEW t \in Senders, NEW m \in Messages, SendCall(t, m)
      PROVE  Abstract!Next
  BY <1>2, SendSteps DEF Threads, Abstract!Next, Abstract!Send
<1>3. ASSUME NEW t \in Receivers, NEW w \in Waits, RecvCall(t, w)
      PROVE  Abstract!Next
  BY <1>3, RecvSteps, OsalMqAssumption
  DEF Threads, Abstract!Next, Abstract!Recv, Abstract!Timeouts
<1>4. ASSUME NEW t \in Threads, SendStep(t)
      PROVE  Abstract!Next \/ Silent
  <2>1. t \in Senders /\ msg[t] \in Messages
    BY <1>4 DEF SendStep, LockW, PushTest, PushCopy, PushPublish, UnlockW, LockRSignal, Signal,
                UnlockRSignal, At, Carried, SenderPlaces, PushSection
  <2>2. CASE PushTest(t) \/ PushPublish(t)
    BY <2>1, <2>2, SendSteps DEF Abstract!Next, Abstract!Send
  <2>3. CASE UnlockW(t) \/ UnlockRSignal(t)
    BY <2>3, SendSteps DEF Abstract!Next, Abstract!Threads, Threads
  <2>4. CASE LockW(t) \/ PushCopy(t) \/ LockRSignal(t) \/ Signal(t)
    BY <2>4, SilentSteps
  <2>. QED
    BY <1>4, <2>2, <2>3, <2>4 DEF SendStep
<1>5. ASSUME NEW t \in Threads, RecvStep(t) \/ CondSpurious(t)
      PROVE  Abstract!Next \/ Silent
  <2>1. t \in Receivers /\ timeout[t] \in Abstract!Timeouts
    BY <1>5 DEF RecvStep, LockR, PopTest, PopCopy, PopPublish, CondWait, CondExpire, Relock,
                UnlockR, CondSpurious, At, Carried, ReceiverPlaces, PopSection, WaiterWoken,
                IInv, TypeOK, Abstract!Timeouts
  <2>2. CASE PopTest(t) \/ PopPublish(t) \/ Relock(t)
    BY <2>1, <2>2, RecvSteps DEF Abstract!Next, Abstract!Recv
  <2>3. CASE UnlockR(t)
    BY <2>3, RecvSteps DEF Abstract!Next, Abstract!Threads, Threads
  <2>4. CASE LockR(t) \/ PopCopy(t) \/ CondWait(t) \/ CondExpire(t) \/ CondSpurious(t)
    BY <2>4, SilentSteps
  <2>. QED
    BY <1>5, <2>2, <2>3, <2>4 DEF RecvStep
<1>6. ASSUME NEW t \in Threads, UseAfterFree(t)
      PROVE  FALSE
  <2>1. \A u \in Threads : pc'[u] # "undefined"
    BY QuietStep DEF QuietInv, Lifecycle
  <2>. QED
    BY <1>6, <2>1 DEF UseAfterFree, Goto, IInv, TypeOK
<1>7. CASE Create \/ DestroyCall \/ DestroyStep
  BY <1>1, <1>7, OwnerSteps DEF Abstract!Next
<1>8. CASE UNCHANGED vars
  BY <1>8 DEF vars, ring, locals, globals, Contents, Count, AbstractCall, Abstract!vars
<1>. QED
  BY <1>1, <1>2, <1>3, <1>4, <1>5, <1>6, <1>7, <1>8 DEF Next

(* Theorem: used as its interface asks, the message queue is linearizable, *)
(* for every number of threads, messages, slots and calls: each call takes *)
(* effect at one instant, as on a FIFO that holds msg_max - 1 messages     *)
(* (osal_posix.c:657-770, osal_lock_free_queue.c:28-110).                  *)
THEOREM ImplementsMessageQueueHolds ==
  ASSUME Disciplined
  PROVE  Spec => ImplementsMessageQueue
<1>1. Init => IInv /\ Carried /\ QuietInv /\ Abstract!Init
  BY IInvInit, CarriedInit, QuietInit, RefinesInit
<1>2. IInv /\ Carried /\ QuietInv /\ [Next]_vars
        => (IInv /\ Carried /\ QuietInv)' /\ [Abstract!Next]_(Abstract!vars)
  BY IInvStep, CarriedStep, QuietStep, RefinesStep
<1>. QED
  BY <1>1, <1>2, PTL DEF Spec, ImplementsMessageQueue, Abstract!Spec
=============================================================================
