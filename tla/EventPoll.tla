----------------------------- MODULE EventPoll -----------------------------
(***************************************************************************)
(* What a poll of netx.h promises: a set of at most Capacity descriptors,  *)
(* each with the events it is watched for and the data of its caller, and  *)
(* waits that report which of them are ready.                              *)
(*                                                                         *)
(* The detailed specification NetxPoll implements this one.                *)
(***************************************************************************)
EXTENDS Integers, Sequences, FiniteSets

CONSTANTS Fds,          \* the descriptors
          Masks,        \* sets of events a descriptor may be watched for
          Capacity,     \* descriptors the poll holds
          BufferSizes   \* lengths of the arrays of events given to a wait

VARIABLES watched,      \* watched[f]: the event f was added with, or Nothing
          ret,          \* the result of the last netx_ctl
          wait          \* the wait in progress

vars == <<watched, ret, wait>>

Nothing == [events |-> {}, data |-> -1]

(* The caller's data says which descriptor it is for. *)
EventsOf(f) == [events : Masks, data : {f}]

Added == {f \in Fds : watched[f] # Nothing}

(* The pairs <<event, descriptor>> to be waited for. *)
Asked == UNION {watched[f].events \X {f} : f \in Fds}

Idle == [at |-> "idle", max |-> 0, asked |-> {}, ready |-> {}, events |-> <<>>]

Init ==
    /\ watched = [f \in Fds |-> Nothing]
    /\ ret = 0
    /\ wait = Idle

---------------------------------------------------------------------------
(* f is watched from now on for the events in watched'. *)
Watches(f) ==
    /\ watched'[f] \in EventsOf(f)
    /\ watched' = [watched EXCEPT ![f] = watched'[f]]

Add(f) ==
    /\ UNCHANGED wait
    /\ ret' = 0
    /\ f \notin Added
    /\ Cardinality(Added) < Capacity
    /\ Watches(f)

Mod(f) ==
    /\ UNCHANGED wait
    /\ ret' = 0
    /\ f \in Added
    /\ Watches(f)

Del(f) ==
    /\ UNCHANGED wait
    /\ ret' = 0
    /\ f \in Added
    /\ watched' = [watched EXCEPT ![f] = Nothing]

(* A call fails for its reason only, and then changes nothing. *)
Refuse(f) ==
    /\ UNCHANGED wait
    /\ \/ ret' = -1
       \/ ret' \in {-2, -3} /\ f \notin Added
       \/ ret' = -4 /\ f \in Added
       \/ ret' = -5 /\ f \notin Added /\ Cardinality(Added) = Capacity
    /\ UNCHANGED watched

---------------------------------------------------------------------------
WaitCall(n) ==
    /\ wait.at = "idle"
    /\ wait' = [wait EXCEPT !.at = "select", !.max = n, !.asked = Asked]
    /\ UNCHANGED <<watched, ret>>

(* Some of what was asked for becomes ready. *)
Select ==
    /\ wait.at = "select"
    /\ \E ready \in SUBSET wait.asked :
         wait' = [wait EXCEPT !.at = "gather", !.asked = {}, !.ready = ready]
    /\ UNCHANGED <<watched, ret>>

(* A wait without a result: there is nothing to watch, or a timeout, or an *)
(* error.                                                                  *)
Expire ==
    /\ \/ wait.at = "select"
       \/ wait.at = "idle" /\ Asked = {}
    /\ wait' = [Idle EXCEPT !.at = "return"]
    /\ UNCHANGED <<watched, ret>>

(* The events f is watched for and ready for. *)
Due(f) == {k \in watched[f].events : <<k, f>> \in wait.ready}

AllDue == {f \in Fds : Due(f) # {}}

Smaller(a, b) == IF a < b THEN a ELSE b

(* Each descriptor that is due is reported once, with all of its events    *)
(* and its own data, as far as there is room.                              *)
Report ==
    /\ wait.at = "gather"
    /\ \E out \in [1 .. Smaller(wait.max, Cardinality(AllDue)) -> AllDue] :
         /\ \A i, j \in DOMAIN out : i # j => out[i] # out[j]
         /\ wait' = [Idle EXCEPT
                       !.at = "return",
                       !.events = [i \in DOMAIN out |->
                                     [events |-> Due(out[i]), data |-> watched[out[i]].data]]]
    /\ UNCHANGED <<watched, ret>>

WaitReturn ==
    /\ wait.at = "return"
    /\ wait' = Idle
    /\ UNCHANGED <<watched, ret>>

---------------------------------------------------------------------------
Next ==
    \/ \E f \in Fds : Add(f) \/ Mod(f) \/ Del(f) \/ Refuse(f)
    \/ \E n \in BufferSizes : WaitCall(n)
    \/ Select \/ Expire \/ Report \/ WaitReturn

Spec == Init /\ [][Next]_vars
=============================================================================
