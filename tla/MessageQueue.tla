---------------------------- MODULE MessageQueue ----------------------------
(***************************************************************************)
(* What the message queue of osal_api.h promises its callers: a bounded    *)
(* FIFO shared by threads.  A call is made of three steps, its invocation, *)
(* one instant at which it takes effect, and its return; between them the  *)
(* calls of other threads take effect in any order.                        *)
(*                                                                         *)
(* The detailed specification OsalMq implements this one.                  *)
(***************************************************************************)
EXTENDS Integers, Sequences

CONSTANTS Senders,      \* threads that call osal_mq_send
          Receivers,    \* threads that call osal_mq_recv
          Messages,     \* the messages sent
          NoMessage,    \* content of a receive buffer nothing was copied to,
                        \* not one of Messages
          Capacity      \* number of messages the queue holds

VARIABLES queue,        \* the messages accepted and not yet delivered
          closed,       \* osal_mq_destroy has been called
          call          \* call[t]: the call thread t is in, and its result

vars == <<queue, closed, call>>

Threads  == Senders \cup Receivers

(* The timeout argument of a receive: 0, a positive number of              *)
(* milliseconds, or OSAL_WAITFOREVER.                                      *)
Timeouts == {"poll", "timed", "forever"}

Idle             == [op |-> "idle"]
Sending(m)       == [op |-> "send", msg |-> m]
Looking(w)       == [op |-> "recv", timeout |-> w]
Blocked(w)       == [op |-> "wait", timeout |-> w]
Returned(res, m) == [op |-> "done", result |-> res, msg |-> m]

Init ==
    /\ queue = <<>>
    /\ closed = FALSE
    /\ call = [t \in Threads |-> Idle]

Becomes(t, from, to) ==
    /\ call[t] = from
    /\ call' = [call EXCEPT ![t] = to]

---------------------------------------------------------------------------
CallSend(t, m) ==
    /\ Becomes(t, Idle, Sending(m))
    /\ UNCHANGED <<queue, closed>>

(* The message is appended. *)
Accept(t, m) ==
    /\ Becomes(t, Sending(m), Returned("OK", m))
    /\ Len(queue) < Capacity
    /\ queue' = Append(queue, m)
    /\ UNCHANGED closed

(* A send fails only at an instant when the queue is at its capacity. *)
Reject(t, m) ==
    /\ Becomes(t, Sending(m), Returned("FAIL", m))
    /\ Len(queue) = Capacity
    /\ UNCHANGED <<queue, closed>>

CallRecv(t, w) ==
    /\ Becomes(t, Idle, Looking(w))
    /\ UNCHANGED <<queue, closed>>

(* The oldest message is delivered, and leaves the queue. *)
Deliver(t, w) ==
    /\ queue # <<>>
    /\ Becomes(t, Looking(w), Returned("OK", Head(queue)))
    /\ queue' = Tail(queue)
    /\ UNCHANGED closed

(* A receive that does not wait reports an empty queue. *)
FindEmpty(t) ==
    /\ queue = <<>>
    /\ Becomes(t, Looking("poll"), Returned("TIMEDOUT", NoMessage))
    /\ UNCHANGED <<queue, closed>>

Block(t, w) ==
    /\ w # "poll"
    /\ queue = <<>>
    /\ Becomes(t, Looking(w), Blocked(w))
    /\ UNCHANGED <<queue, closed>>

Wake(t, w) ==
    /\ Becomes(t, Blocked(w), Looking(w))
    /\ UNCHANGED <<queue, closed>>

(* Only a receive with a finite timeout gives up. *)
Expire(t) ==
    /\ Becomes(t, Blocked("timed"), Returned("TIMEDOUT", NoMessage))
    /\ UNCHANGED <<queue, closed>>

(* A blocked receive fails only because the queue is being destroyed. *)
Abort(t, w) ==
    /\ closed
    /\ Becomes(t, Blocked(w), Returned("FAIL", NoMessage))
    /\ UNCHANGED <<queue, closed>>

Return(t) ==
    /\ call[t].op = "done"
    /\ call' = [call EXCEPT ![t] = Idle]
    /\ UNCHANGED <<queue, closed>>

Close ==
    /\ closed' = TRUE
    /\ UNCHANGED <<queue, call>>

---------------------------------------------------------------------------
Send(t) == \E m \in Messages : CallSend(t, m) \/ Accept(t, m) \/ Reject(t, m)

Recv(t) ==
    \/ FindEmpty(t) \/ Expire(t)
    \/ \E w \in Timeouts :
         \/ CallRecv(t, w) \/ Deliver(t, w)
         \/ Block(t, w) \/ Wake(t, w) \/ Abort(t, w)

Next ==
    \/ \E t \in Senders : Send(t)
    \/ \E t \in Receivers : Recv(t)
    \/ \E t \in Threads : Return(t)
    \/ Close

Spec == Init /\ [][Next]_vars
=============================================================================
