------------------------------- MODULE OsalMq -------------------------------
(***************************************************************************)
(* The message queue of the POSIX port of osal: osal_posix_mq_create,      *)
(* _destroy, _send and _recv over osal_lock_free_queue.  Every step below  *)
(* is one access to state that threads share, so that calls of different   *)
(* threads interleave as the code lets them.                               *)
(*                                                                         *)
(* A definition whose comment calls it a fault stands before the one it    *)
(* is a faulty variant of; nothing uses it but the mutants of the runs.    *)
(*                                                                         *)
(* Senders serialise on w_mutex, receivers on r_mutex, and nothing orders  *)
(* a push against a pop but the two indices of the ring.  A message is     *)
(* published by the store to write after its bytes are copied, the order   *)
(* in which the build for x86-64 emits and performs the two.               *)
(*                                                                         *)
(* The indices count messages: the byte offsets of the code are multiples  *)
(* of msg_size (module LockFreeQueue), so offset / msg_size loses nothing. *)
(***************************************************************************)
EXTENDS Integers, FiniteSets, Sequences

CONSTANTS Senders,         \* threads that call osal_mq_send
          Receivers,       \* threads that call osal_mq_recv
          Owner,           \* the thread that creates and destroys the queue
          Messages,        \* the messages sent
          NoMessage,       \* a receive buffer or slot nothing was copied to
          NoThread,        \* holder of a free mutex
          Waits,           \* timeouts the receivers pass
          msg_max,         \* osal_mq_create's argument
          CreateFaults,    \* the steps of osal_mq_create that may fail
          DestroyInFlight, \* may osal_mq_destroy run during other calls?
          MaxCalls,        \* bound: calls each thread makes
          MaxSpurious      \* bound: spurious wakeups of condition variable

Threads == Senders \cup Receivers

(* What osal_mq_create allocates and initialises, in this order. *)
Objects == {"mq", "w_mutex", "r_mutex", "cond", "raw_queue"}

ASSUME OsalMqAssumption ==
    /\ Owner \notin Threads
    /\ NoThread \notin Threads \cup {Owner}
    /\ NoMessage \notin Messages
    /\ Waits \subseteq {"poll", "timed", "forever"}
    /\ msg_max \in Nat \ {0}
    /\ CreateFaults \subseteq Objects
    /\ DestroyInFlight \in BOOLEAN
    /\ MaxCalls \in Nat
    /\ MaxSpurious \in Nat

(* A process has finitely many threads. *)
ASSUME ThreadsAssumption == IsFiniteSet(Threads)

VARIABLES
    read, write, buffer,   \* osal_lock_free_queue_t
    w_mutex, r_mutex,      \* holder of each mutex
    cond,                  \* threads blocked on the condition variable
    exit_flag,             \* osal_posix_mq_t.exit_flag
    objs,                  \* the Objects that exist
    handle,                \* what osal_mq_create returned
    owner,                 \* the owner's place in create or destroy
    pc, msg, timeout, ret, \* each thread's place in its call, its arguments
                           \* and its result
    calls, spurious        \* what is left of the bounds

ring    == <<read, write, buffer>>
locals  == <<msg, timeout, ret, calls>>
globals == <<exit_flag, objs, handle, owner, spurious>>
vars == <<ring, w_mutex, r_mutex, cond, globals, pc, locals>>

---------------------------------------------------------------------------
(* osal_lock_free_queue *)

Slots == 0 .. msg_max - 1

(* Fault: the index does not wrap. *)
AdvanceNoWrap(i) == i + 1

Advance(i) == (i + 1) % msg_max

(* Fault: the test does not wrap. *)
IsFullNoWrap == write + 1 = read

IsFull  == Advance(write) = read
IsEmpty == read = write

(* The messages in the ring, oldest first. *)
Count    == (write - read + msg_max) % msg_max
Contents == [i \in 1 .. Count |-> buffer[(read + i - 1) % msg_max]]

---------------------------------------------------------------------------
Init ==
    /\ read = 0 /\ write = 0
    /\ buffer = [i \in Slots |-> NoMessage]
    /\ w_mutex = NoThread /\ r_mutex = NoThread
    /\ cond = {}
    /\ exit_flag = FALSE
    /\ objs = {}
    /\ handle = "none"
    /\ owner = "create"
    /\ pc = [t \in Threads |-> "idle"]
    /\ msg = [t \in Threads |-> NoMessage]
    /\ timeout = [t \in Threads |-> "poll"]
    /\ ret = [t \in Threads |-> "OK"]
    /\ calls = [t \in Threads |-> MaxCalls]
    /\ spurious = MaxSpurious

(* Fault: a failed mutex initialisation does not return NULL. *)
CreateKeepsHandle ==
    /\ owner = "create"
    /\ handle' = "mq"
    /\ owner' = "created"
    /\ \/ objs' = Objects
       \/ CreateFaults # {} /\ UNCHANGED objs
    /\ UNCHANGED <<ring, w_mutex, r_mutex, cond, exit_flag, spurious, pc, locals>>

(* osal_posix_mq_create.  The steps that undo a failed one run before any  *)
(* other thread knows the queue, so the whole call is one action.  After a *)
(* failed pthread_cond_init or ring allocation the code frees mq and goes  *)
(* on to "return mq".                                                      *)
Create ==
    /\ owner = "create"
    /\ \/ /\ objs' = Objects
          /\ handle' = "mq"
       \/ /\ CreateFaults \cap {"mq", "w_mutex", "r_mutex"} # {}
          /\ handle' = "NULL"
          /\ UNCHANGED objs
       \/ /\ "cond" \in CreateFaults
          /\ handle' = "mq"
          /\ objs' = IF "raw_queue" \in CreateFaults THEN {} ELSE {"raw_queue"}
       \/ /\ "raw_queue" \in CreateFaults
          /\ handle' = "mq"
          /\ UNCHANGED objs
    /\ owner' = "created"
    /\ UNCHANGED <<ring, w_mutex, r_mutex, cond, exit_flag, spurious, pc, locals>>

---------------------------------------------------------------------------
(* What a thread's next step touches.  A step that needs an object that    *)
(* does not exist any more is undefined behaviour.                         *)

Touches(p) ==
    CASE p = "lock_w" -> {"mq", "w_mutex"}
      [] p \in {"push", "copy_in", "publish_in",
                "pop", "copy_out", "publish_out"} -> {"mq", "raw_queue"}
      [] p \in {"unlock_w", "unlock_w_full"} -> {"mq", "w_mutex"}
      [] p \in {"lock_r", "relock", "relock_timedout", "unlock_r",
                "lock_r_signal", "unlock_r_signal"} -> {"mq", "r_mutex"}
      [] p \in {"signal", "wait"} -> {"mq", "cond", "r_mutex"}
      [] OTHER -> {}

At(t, p) == pc[t] = p /\ Touches(p) \subseteq objs

Goto(t, p) == pc' = [pc EXCEPT ![t] = p]

Finish(t, p, r) == Goto(t, p) /\ ret' = [ret EXCEPT ![t] = r]

UseAfterFree(t) ==
    /\ ~ Touches(pc[t]) \subseteq objs
    /\ Goto(t, "undefined")
    /\ UNCHANGED <<ring, w_mutex, r_mutex, cond, globals, locals>>

(* A thread calls only with a handle osal_mq_create returned, and not once *)
(* osal_mq_destroy has been called.                                        *)
MayCall(t) ==
    /\ pc[t] = "idle"
    /\ owner = "created"
    /\ handle = "mq"
    /\ calls[t] > 0
    /\ calls' = [calls EXCEPT ![t] = @ - 1]

---------------------------------------------------------------------------
(* osal_posix_mq_send; its timeout argument is never read. *)

SendCall(t, m) ==
    /\ MayCall(t)
    /\ Goto(t, "lock_w")
    /\ msg' = [msg EXCEPT ![t] = m]
    /\ UNCHANGED <<ring, w_mutex, r_mutex, cond, globals, timeout, ret>>

LockW(t) ==
    /\ At(t, "lock_w")
    /\ w_mutex = NoThread
    /\ w_mutex' = t
    /\ Goto(t, "push")
    /\ UNCHANGED <<ring, r_mutex, cond, globals, locals>>

(* osal_lock_free_queue_push: the test, the copy, the store to write. *)
PushTest(t) ==
    /\ At(t, "push")
    /\ IF IsFull THEN Finish(t, "unlock_w_full", "FAIL")
                 ELSE Goto(t, "copy_in") /\ UNCHANGED ret
    /\ UNCHANGED <<ring, w_mutex, r_mutex, cond, globals, msg, timeout, calls>>

PushCopy(t) ==
    /\ At(t, "copy_in")
    /\ buffer' = [buffer EXCEPT ![write] = msg[t]]
    /\ Goto(t, "publish_in")
    /\ UNCHANGED <<read, write, w_mutex, r_mutex, cond, globals, locals>>

PushPublish(t) ==
    /\ At(t, "publish_in")
    /\ write' = Advance(write)
    /\ Finish(t, "unlock_w", "OK")
    /\ UNCHANGED <<read, buffer, w_mutex, r_mutex, cond, globals, msg, timeout, calls>>

(* Fault: the path on which the ring is full returns with w_mutex held. *)
UnlockWUnlessFull(t) ==
    /\ \/ At(t, "unlock_w") /\ Goto(t, "lock_r_signal") /\ w_mutex' = NoThread
       \/ At(t, "unlock_w_full") /\ Goto(t, "idle") /\ UNCHANGED w_mutex
    /\ UNCHANGED <<ring, r_mutex, cond, globals, locals>>

(* Fault: only the message that ends the emptiness of the ring is signalled. *)
UnlockWSignalFirst(t) ==
    /\ \/ At(t, "unlock_w") /\ Goto(t, IF Count = 1 THEN "lock_r_signal" ELSE "idle")
       \/ At(t, "unlock_w_full") /\ Goto(t, "idle")
    /\ w_mutex' = NoThread
    /\ UNCHANGED <<ring, r_mutex, cond, globals, locals>>

UnlockW(t) ==
    /\ \/ At(t, "unlock_w") /\ Goto(t, "lock_r_signal")
       \/ At(t, "unlock_w_full") /\ Goto(t, "idle")
    /\ w_mutex' = NoThread
    /\ UNCHANGED <<ring, r_mutex, cond, globals, locals>>

LockRSignal(t) ==
    /\ At(t, "lock_r_signal")
    /\ r_mutex = NoThread
    /\ r_mutex' = t
    /\ Goto(t, "signal")
    /\ UNCHANGED <<ring, w_mutex, cond, globals, locals>>

(* pthread_cond_signal unblocks one of the threads blocked, if any. *)
Signal(t) ==
    /\ At(t, "signal")
    /\ \/ /\ cond = {}
          /\ Goto(t, "unlock_r_signal")
          /\ UNCHANGED cond
       \/ \E u \in cond :
            /\ cond' = cond \ {u}
            /\ pc' = [pc EXCEPT ![t] = "unlock_r_signal", ![u] = "relock"]
    /\ UNCHANGED <<ring, w_mutex, r_mutex, globals, locals>>

UnlockRSignal(t) ==
    /\ At(t, "unlock_r_signal")
    /\ r_mutex' = NoThread
    /\ Goto(t, "idle")
    /\ UNCHANGED <<ring, w_mutex, cond, globals, locals>>

---------------------------------------------------------------------------
(* osal_posix_mq_recv *)

RecvCall(t, w) ==
    /\ MayCall(t)
    /\ Goto(t, "lock_r")
    /\ msg' = [msg EXCEPT ![t] = NoMessage]
    /\ timeout' = [timeout EXCEPT ![t] = w]
    /\ UNCHANGED <<ring, w_mutex, r_mutex, cond, globals, ret>>

LockR(t) ==
    /\ At(t, "lock_r")
    /\ r_mutex = NoThread
    /\ r_mutex' = t
    /\ Goto(t, "pop")
    /\ UNCHANGED <<ring, w_mutex, cond, globals, locals>>

(* osal_lock_free_queue_pop: the test, the copy, the store to read. *)
PopTest(t) ==
    /\ At(t, "pop")
    /\ \/ ~ IsEmpty /\ Goto(t, "copy_out") /\ UNCHANGED ret
       \/ IsEmpty /\ timeout[t] = "poll" /\ Finish(t, "unlock_r", "TIMEDOUT")
       \/ IsEmpty /\ timeout[t] # "poll" /\ Goto(t, "wait") /\ UNCHANGED ret
    /\ UNCHANGED <<ring, w_mutex, r_mutex, cond, globals, msg, timeout, calls>>

PopCopy(t) ==
    /\ At(t, "copy_out")
    /\ msg' = [msg EXCEPT ![t] = buffer[read]]
    /\ Goto(t, "publish_out")
    /\ UNCHANGED <<ring, w_mutex, r_mutex, cond, globals, timeout, ret, calls>>

PopPublish(t) ==
    /\ At(t, "publish_out")
    /\ read' = Advance(read)
    /\ Finish(t, "unlock_r", "OK")
    /\ UNCHANGED <<write, buffer, w_mutex, r_mutex, cond, globals, msg, timeout, calls>>

(* pthread_cond_wait and _timedwait release r_mutex and block, atomically. *)
CondWait(t) ==
    /\ At(t, "wait")
    /\ cond' = cond \cup {t}
    /\ r_mutex' = NoThread
    /\ Goto(t, "blocked")
    /\ UNCHANGED <<ring, w_mutex, globals, locals>>

CondExpire(t) ==
    /\ t \in cond
    /\ timeout[t] = "timed"
    /\ cond' = cond \ {t}
    /\ Goto(t, "relock_timedout")
    /\ UNCHANGED <<ring, w_mutex, r_mutex, globals, locals>>

CondSpurious(t) ==
    /\ t \in cond
    /\ spurious > 0
    /\ spurious' = spurious - 1
    /\ cond' = cond \ {t}
    /\ Goto(t, "relock")
    /\ UNCHANGED <<ring, w_mutex, r_mutex, exit_flag, objs, handle, owner, locals>>

(* Fault: a woken receiver takes the message without another look, as with *)
(* an "if" in place of the "while".                                        *)
RelockNoRetest(t) ==
    /\ r_mutex = NoThread
    /\ \/ At(t, "relock") /\ Goto(t, "copy_out") /\ UNCHANGED ret
       \/ At(t, "relock_timedout") /\ Finish(t, "unlock_r", "TIMEDOUT")
    /\ r_mutex' = t
    /\ UNCHANGED <<ring, w_mutex, cond, globals, msg, timeout, calls>>

(* Fault: a timeout returns with r_mutex held. *)
RelockReturnsLocked(t) ==
    /\ r_mutex = NoThread
    /\ \/ At(t, "relock") /\ Goto(t, "pop") /\ UNCHANGED ret
       \/ At(t, "relock_timedout") /\ Finish(t, "idle", "TIMEDOUT")
    /\ r_mutex' = t
    /\ UNCHANGED <<ring, w_mutex, cond, globals, msg, timeout, calls>>

(* The wait returns with r_mutex held; exit_flag is read only here, and    *)
(* neither it nor the ring is read after a timeout.                        *)
Relock(t) ==
    /\ r_mutex = NoThread
    /\ \/ /\ At(t, "relock")
          /\ IF exit_flag THEN Finish(t, "unlock_r", "FAIL")
                          ELSE Goto(t, "pop") /\ UNCHANGED ret
       \/ /\ At(t, "relock_timedout")
          /\ Finish(t, "unlock_r", "TIMEDOUT")
    /\ r_mutex' = t
    /\ UNCHANGED <<ring, w_mutex, cond, globals, msg, timeout, calls>>

UnlockR(t) ==
    /\ At(t, "unlock_r")
    /\ r_mutex' = NoThread
    /\ Goto(t, "idle")
    /\ UNCHANGED <<ring, w_mutex, cond, globals, locals>>

---------------------------------------------------------------------------
(* osal_posix_mq_destroy.  exit_flag is set, and the broadcast sent, with  *)
(* no mutex held.                                                          *)

DestroyCall ==
    /\ owner = "created" /\ handle = "mq"
    /\ DestroyInFlight \/ \A t \in Threads : pc[t] = "idle"
    /\ IF "mq" \in objs THEN exit_flag' = TRUE /\ owner' = "broadcast"
                        ELSE owner' = "undefined" /\ UNCHANGED exit_flag
    /\ UNCHANGED <<ring, w_mutex, r_mutex, cond, objs, handle, spurious, pc, locals>>

Broadcast ==
    /\ owner = "broadcast"
    /\ pc' = [t \in Threads |-> IF t \in cond THEN "relock" ELSE pc[t]]
    /\ cond' = {}
    /\ owner' = "lock_r"
    /\ UNCHANGED <<ring, w_mutex, r_mutex, exit_flag, objs, handle, spurious, locals>>

(* Fault: the ring is freed without r_mutex. *)
DestroyNoLock ==
    /\ owner = "lock_r"
    /\ owner' = "free_raw"
    /\ UNCHANGED <<ring, w_mutex, r_mutex, cond, exit_flag, objs, handle, spurious, pc, locals>>

DestroyLockR ==
    /\ owner = "lock_r"
    /\ r_mutex = NoThread
    /\ r_mutex' = Owner
    /\ owner' = "free_raw"
    /\ UNCHANGED <<ring, w_mutex, cond, exit_flag, objs, handle, spurious, pc, locals>>

FreeRaw ==
    /\ owner = "free_raw"
    /\ objs' = objs \ {"raw_queue"}
    /\ owner' = "unlock_r"
    /\ UNCHANGED <<ring, w_mutex, r_mutex, cond, exit_flag, handle, spurious, pc, locals>>

DestroyUnlockR ==
    /\ owner = "unlock_r"
    /\ r_mutex' = NoThread
    /\ owner' = "destroy_w"
    /\ UNCHANGED <<ring, w_mutex, cond, exit_flag, objs, handle, spurious, pc, locals>>

(* pthread_mutex_destroy refuses (EBUSY, not looked at) a mutex that is    *)
(* held.                                                                   *)
DestroyMutexes ==
    /\ \/ /\ owner = "destroy_w" /\ owner' = "destroy_r"
          /\ objs' = IF w_mutex = NoThread THEN objs \ {"w_mutex"} ELSE objs
       \/ /\ owner = "destroy_r" /\ owner' = "destroy_cond"
          /\ objs' = IF r_mutex = NoThread THEN objs \ {"r_mutex"} ELSE objs
    /\ UNCHANGED <<ring, w_mutex, r_mutex, cond, exit_flag, handle, spurious, pc, locals>>

(* glibc's pthread_cond_destroy waits until no thread is blocked. *)
DestroyCond ==
    /\ owner = "destroy_cond"
    /\ cond = {}
    /\ objs' = objs \ {"cond"}
    /\ owner' = "free_mq"
    /\ UNCHANGED <<ring, w_mutex, r_mutex, cond, exit_flag, handle, spurious, pc, locals>>

FreeMq ==
    /\ owner = "free_mq"
    /\ objs' = objs \ {"mq"}
    /\ owner' = "destroyed"
    /\ UNCHANGED <<ring, w_mutex, r_mutex, cond, exit_flag, handle, spurious, pc, locals>>

---------------------------------------------------------------------------
SendStep(t) ==
    \/ LockW(t) \/ PushTest(t) \/ PushCopy(t) \/ PushPublish(t)
    \/ UnlockW(t) \/ LockRSignal(t) \/ Signal(t) \/ UnlockRSignal(t)

RecvStep(t) ==
    \/ LockR(t) \/ PopTest(t) \/ PopCopy(t) \/ PopPublish(t)
    \/ CondWait(t) \/ CondExpire(t) \/ Relock(t) \/ UnlockR(t)

DestroyStep ==
    \/ Broadcast \/ DestroyLockR \/ FreeRaw \/ DestroyUnlockR
    \/ DestroyMutexes \/ DestroyCond \/ FreeMq

Next ==
    \/ Create \/ DestroyCall \/ DestroyStep
    \/ \E t \in Senders, m \in Messages : SendCall(t, m)
    \/ \E t \in Receivers, w \in Waits : RecvCall(t, w)
    \/ \E t \in Threads :
         SendStep(t) \/ RecvStep(t) \/ CondSpurious(t) \/ UseAfterFree(t)

Spec == Init /\ [][Next]_vars

(* A thread that can take its next step does, a timed wait expires, and    *)
(* the owner finishes what it began; nobody must call, and no spurious     *)
(* wakeup must happen.                                                     *)
Fairness ==
    /\ WF_vars(Create) /\ WF_vars(DestroyStep)
    /\ \A t \in Threads : WF_vars(SendStep(t)) /\ WF_vars(RecvStep(t))

FairSpec == Spec /\ Fairness

---------------------------------------------------------------------------
(* Places in the code. *)

PushSection    == {"push", "copy_in", "publish_in", "unlock_w", "unlock_w_full"}
PopSection     == {"pop", "copy_out", "publish_out"}
WaiterWoken    == {"relock", "relock_timedout"}
HoldsRMutex    == {"signal", "unlock_r_signal", "wait", "unlock_r"} \cup PopSection
OwnsRMutex     == {"free_raw", "unlock_r"}

SenderPlaces   == {"lock_w", "lock_r_signal", "signal", "unlock_r_signal"} \cup PushSection
ReceiverPlaces == {"lock_r", "wait", "blocked", "unlock_r"} \cup PopSection \cup WaiterWoken
Places         == {"idle", "undefined"} \cup SenderPlaces \cup ReceiverPlaces
OwnerPlaces    == {"create", "created", "broadcast", "lock_r", "free_raw", "unlock_r",
                   "destroy_w", "destroy_r", "destroy_cond", "free_mq", "destroyed",
                   "undefined"}

(* Type invariant: the indices stay inside the ring, every place is one of *)
(* the code's, and only a blocked thread is in the condition variable.     *)
TypeOK ==
    /\ read \in Slots /\ write \in Slots
    /\ buffer \in [Slots -> Messages \cup {NoMessage}]
    /\ w_mutex \in Threads \cup {NoThread}
    /\ r_mutex \in Threads \cup {Owner, NoThread}
    /\ cond = {t \in Threads : pc[t] = "blocked"}
    /\ exit_flag \in BOOLEAN
    /\ objs \subseteq Objects
    /\ handle \in {"none", "NULL", "mq"}
    /\ owner \in OwnerPlaces
    /\ pc \in [Threads -> Places]
    /\ msg \in [Threads -> Messages \cup {NoMessage}]
    /\ timeout \in [Threads -> {"poll", "timed", "forever"}]
    /\ ret \in [Threads -> {"OK", "FAIL", "TIMEDOUT"}]
    /\ calls \in [Threads -> Nat]
    /\ spurious \in Nat

(* No slot is overwritten while a receiver copies it out: the push and the *)
(* pop run under different mutexes (osal_posix.c:668 and :721), so only    *)
(* the one slot is_full keeps free separates the two memcpy calls.         *)
NoSlotOverlap ==
    \A s, r \in Threads :
        pc[s] = "copy_in" /\ pc[r] \in {"copy_out", "publish_out"} => write # read

Lookers == {t \in Threads :
               pc[t] \in {"unlock_w", "lock_r_signal", "signal", "relock"} \cup PopSection}

(* No wakeup is lost: while a receiver is blocked, every message in the    *)
(* ring has a sender that still has to signal it or a receiver, woken or   *)
(* awake, that will look at the ring again.  The send signals after the    *)
(* push, under r_mutex and not w_mutex (osal_posix.c:674-700).             *)
NoLostWakeup == cond # {} => Count <= Cardinality(Lookers)

(* A destroy no call overlaps gives everything back: every path of send    *)
(* and recv, the failing ones too, has released the mutexes, which         *)
(* pthread_mutex_destroy would otherwise refuse without osal noticing      *)
(* (osal_posix.c:648-652).                                                 *)
DestroyReleasesAll == owner = "destroyed" => objs = {}

(* With creation failing only in the steps whose failure the code reports, *)
(* and destroy called while no call is running, no call ever touches freed *)
(* memory or a destroyed mutex.                                            *)
NoUseAfterFree == owner # "undefined" /\ \A t \in Threads : pc[t] # "undefined"

---------------------------------------------------------------------------
(* A call of the detailed specification as the abstract one sees it: a     *)
(* send takes effect at the store to write, or at the test that finds the  *)
(* ring full; a receive at the store to read, or at the failing test.      *)

AbstractCall(t) ==
    CASE pc[t] \in {"lock_w", "push", "copy_in", "publish_in"} ->
            [op |-> "send", msg |-> msg[t]]
      [] pc[t] \in {"unlock_w", "lock_r_signal", "signal", "unlock_r_signal"} ->
            [op |-> "done", result |-> "OK", msg |-> msg[t]]
      [] pc[t] \in {"unlock_w_full", "unlock_r"} ->
            [op |-> "done", result |-> ret[t], msg |-> msg[t]]
      [] pc[t] \in {"lock_r"} \cup PopSection ->
            [op |-> "recv", timeout |-> timeout[t]]
      [] pc[t] \in {"wait", "blocked"} \cup WaiterWoken ->
            [op |-> "wait", timeout |-> timeout[t]]
      [] OTHER -> [op |-> "idle"]

Abstract == INSTANCE MessageQueue WITH
    Capacity <- msg_max - 1,
    queue    <- Contents,
    closed   <- exit_flag,
    call     <- [t \in Threads |-> AbstractCall(t)]

(* The calls of osal_mq_send and osal_mq_recv are linearizable: messages   *)
(* come out once, whole and in the order they went in, a send fails only   *)
(* while the ring holds msg_max - 1 messages and a receive only after it   *)
(* found the ring empty.                                                   *)
ImplementsMessageQueue == Abstract!Spec

(* Every send returns, and every receive with a finite timeout: neither    *)
(* waits for another call to be made (osal_posix.c:657-707, 727-762).      *)
BoundedCallsReturn ==
    \A t \in Threads :
        /\ pc[t] = "lock_w" ~> pc[t] = "idle"
        /\ pc[t] = "lock_r" /\ timeout[t] # "forever" ~> pc[t] = "idle"

(* A receiver blocked while there is a message is woken, or another        *)
(* receiver takes the messages.                                            *)
BlockedReceiverServed ==
    \A t \in Threads :
        pc[t] = "blocked" /\ ~ IsEmpty ~> pc[t] # "blocked" \/ IsEmpty

(* Even when calls are running, destroy frees the ring between two pops    *)
(* and not during one: it takes r_mutex for the free (osal_posix.c:644).   *)
(* (A push, which holds w_mutex only, has no such protection.)             *)
PopNotCutShort ==
    "raw_queue" \notin objs =>
        \A t \in Threads : pc[t] \notin {"copy_out", "publish_out"}

(* As long as no receiver waits for ever, destroy returns whatever calls   *)
(* are running: they all release r_mutex, and the blocked ones time out.   *)
DestroyReturns == owner = "broadcast" ~> owner = "destroyed"

---------------------------------------------------------------------------
(* What the documentation and the tests say, and the code does not do.     *)

(* osal_api.h:451: osal_mq_create returns NULL when it fails; any other    *)
(* value is a queue, with everything it is made of.                        *)
FailedCreateReturnsNull ==
    owner = "created" /\ handle = "mq" => objs = Objects

(* t_osal_mq_001.c:31: a receive that waits for ever ends once the queue   *)
(* is destroyed.  Here, the part of it that says the receiver is woken.    *)
DestroyWakesReceivers ==
    \A t \in Threads : exit_flag /\ pc[t] = "blocked" ~> pc[t] # "blocked"

(* And the part that says the receiver, once woken, returns, and not OK.   *)
WokenReceiverReturns ==
    \A t \in Threads :
        exit_flag /\ pc[t] = "relock" ~> pc[t] = "idle" /\ ret[t] = "FAIL"
=============================================================================
