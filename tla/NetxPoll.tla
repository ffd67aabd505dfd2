------------------------------ MODULE NetxPoll ------------------------------
(***************************************************************************)
(* One poll of netx: netx_ctl and netx_wait over select (netx.c).          *)
(*                                                                         *)
(* Its max_counts items are allocated with it.  An item is on the free     *)
(* list, linked by hash_next, or in use; an item in use is on the chain of *)
(* its bucket, linked by hash_next too, and on the used list, a ring       *)
(* linked by next and prev.                                                *)
(*                                                                         *)
(* As it is built (mlock_disable) one thread makes every call; with locks, *)
(* calls of others fall into the select of a wait, which holds no lock.    *)
(*                                                                         *)
(* A definition whose comment calls it a fault stands before the one it    *)
(* is a faulty variant of; nothing uses it but the mutants of the runs.    *)
(***************************************************************************)
EXTENDS Integers, Sequences, SequencesExt, FiniteSets

CONSTANTS Fds,            \* descriptors given to netx_ctl, 0 included
          Masks,          \* sets of events given to netx_ctl
          max_counts,     \* netx_create's argument
          BufferSizes,    \* values of max_events_counts
          AlwaysReady,    \* pairs <<event, fd>> that are ready whenever asked for
          mlock_disable   \* TRUE as the code is built

ASSUME NetxPollAssumption ==
    /\ Fds \subseteq Nat
    /\ max_counts \in Nat \ {0}
    /\ BufferSizes \subseteq Nat \ {0}
    /\ mlock_disable \in BOOLEAN

VARIABLES
    hash_next, next, prev,  \* the links of the items
    fd, event,              \* the other fields of the items
    free_list, used_list,   \* the first item of each, or Null
    hash_table,             \* the first item of each bucket, or Null
    counts,
    ret,                    \* the result of the last netx_ctl
    wait                    \* the netx_wait in progress

links == <<hash_next, next, prev, free_list, hash_table>>
items == <<links, used_list, fd, event, counts>>
vars  == <<items, ret, wait>>

Null  == 0
Items == 1 .. max_counts

hash_size == (max_counts \div 4) * 4 + 3
Buckets   == 0 .. hash_size - 1
Bucket(f) == f % hash_size

(* The caller's data says which descriptor it is for, as the descriptor    *)
(* itself does in examples/server.c.                                       *)
EventsOf(f) == [events : Masks, data : {f}]

(* What a free item holds. *)
NoEvent == [events |-> {}, data |-> -1]

(* s are the items met from pointer i along hash_next. *)
IsChain(s, i) ==
    /\ i = IF s = <<>> THEN Null ELSE s[1]
    /\ \A k \in 1 .. Len(s) : hash_next[s[k]] = IF k = Len(s) THEN Null ELSE s[k + 1]

(* s are the items met from used_list along next, and prev leads back. *)
IsRing(s) ==
    /\ used_list = IF s = <<>> THEN Null ELSE s[1]
    /\ \A k \in 1 .. Len(s) :
         LET after == IF k = Len(s) THEN s[1] ELSE s[k + 1]
         IN  next[s[k]] = after /\ prev[after] = s[k]

(* A walk that ends meets no item twice. *)
ItemSeqs == {SubSeq(s, 1, n) : s \in SetToSeqs(Items), n \in 0 .. max_counts}

Chain(h) == CHOOSE s \in ItemSeqs : IsChain(s, hash_table[h])
Ring     == CHOOSE s \in ItemSeqs : IsRing(s)

---------------------------------------------------------------------------
(* netx_create, for what it does to a poll. *)
Init ==
    /\ hash_next = [i \in Items |-> IF i = max_counts THEN Null ELSE i + 1]
    /\ next = [i \in Items |-> Null] /\ prev = [i \in Items |-> Null]
    /\ fd = [i \in Items |-> 0] /\ event = [i \in Items |-> NoEvent]
    /\ free_list = 1 /\ used_list = Null
    /\ hash_table = [h \in Buckets |-> Null]
    /\ counts = 0
    /\ ret = 0
    /\ wait = [at |-> "idle", max |-> 0, fs |-> {}, ready |-> {}, events |-> <<>>]

---------------------------------------------------------------------------
(* netx_ctl: the search for f's item along its chain, then the operation.  *)

Found(f) == {k \in 1 .. Len(Chain(Bucket(f))) : fd[Chain(Bucket(f))[k]] = f}

(* What item_save_pt points to when the search ends at place k: the link   *)
(* of item p, or that of the bucket if p is Null.                          *)
Before(f, k) == IF k = 1 THEN Null ELSE Chain(Bucket(f))[k - 1]

(* Fault: the link of the bucket is overwritten wherever the item is. *)
StoreInBucket(f, p, i, hn) ==
    /\ hash_table' = [hash_table EXCEPT ![Bucket(f)] = i]
    /\ hash_next' = hn

(* *item_save_pt = i, where the links of the items were hn before. *)
Store(f, p, i, hn) ==
    IF p = Null THEN /\ hash_table' = [hash_table EXCEPT ![Bucket(f)] = i]
                     /\ hash_next' = hn
                ELSE /\ hash_table' = hash_table
                     /\ hash_next' = [hn EXCEPT ![p] = i]

(* Item i goes to the end of the ring, before its first item. *)
LinkUsed(i) ==
    IF used_list = Null
    THEN /\ used_list' = i
         /\ next' = [next EXCEPT ![i] = i]
         /\ prev' = [prev EXCEPT ![i] = i]
    ELSE /\ used_list' = used_list
         /\ next' = [next EXCEPT ![i] = used_list, ![prev[used_list]] = i]
         /\ prev' = [prev EXCEPT ![i] = prev[used_list], ![used_list] = i]

(* Fault: the first item leaves the ring and used_list stays at it. *)
UnlinkUsedKeepsHead(i) ==
    /\ used_list' = IF prev[i] = i THEN Null ELSE used_list
    /\ next' = [next EXCEPT ![prev[i]] = next[i], ![i] = Null]
    /\ prev' = [prev EXCEPT ![next[i]] = prev[i], ![i] = Null]

UnlinkUsed(i) ==
    /\ used_list' = IF i # used_list THEN used_list
                    ELSE IF prev[i] = i THEN Null ELSE next[i]
    /\ next' = [next EXCEPT ![prev[i]] = next[i], ![i] = Null]
    /\ prev' = [prev EXCEPT ![next[i]] = prev[i], ![i] = Null]

(* The first free item goes to the end of f's chain, where the search met  *)
(* a null link.                                                            *)
Claim(f) ==
    /\ free_list' = hash_next[free_list]
    /\ Store(f, Before(f, Len(Chain(Bucket(f))) + 1), free_list,
             [hash_next EXCEPT ![free_list] = Null])

(* Fault: the item does not come back to the free list. *)
ReleaseLeaks(f, k) ==
    LET i == Chain(Bucket(f))[k]
    IN  /\ free_list' = free_list
        /\ Store(f, Before(f, k), hash_next[i], [hash_next EXCEPT ![i] = Null])

(* The item at place k of f's chain goes to the front of the free list. *)
Release(f, k) ==
    LET i == Chain(Bucket(f))[k]
    IN  /\ free_list' = i
        /\ Store(f, Before(f, k), hash_next[i], [hash_next EXCEPT ![i] = free_list])

(* With locks, other threads may make calls while a wait is in select. *)
CtlAllowed == wait.at = "idle" \/ ~ mlock_disable

Add(f, e) ==
    /\ CtlAllowed /\ Found(f) = {} /\ free_list # Null
    /\ Claim(f)
    /\ LinkUsed(free_list)
    /\ event' = [event EXCEPT ![free_list] = e]
    /\ fd' = [fd EXCEPT ![free_list] = f]
    /\ counts' = counts + 1
    /\ ret' = 0
    /\ UNCHANGED wait

Mod(f, e) ==
    /\ CtlAllowed
    /\ \E k \in Found(f) : event' = [event EXCEPT ![Chain(Bucket(f))[k]] = e]
    /\ ret' = 0
    /\ UNCHANGED <<links, used_list, fd, counts, wait>>

(* Fault: the count is not decremented. *)
DelNoCount(f) ==
    /\ CtlAllowed
    /\ \E k \in Found(f) :
         LET i == Chain(Bucket(f))[k]
         IN  /\ event' = [event EXCEPT ![i] = NoEvent]
             /\ fd' = [fd EXCEPT ![i] = 0]
             /\ UnlinkUsed(i)
             /\ Release(f, k)
    /\ ret' = 0
    /\ UNCHANGED <<counts, wait>>

(* The data of the item stays; nothing reads it until it is set again.     *)
Del(f) ==
    /\ CtlAllowed
    /\ \E k \in Found(f) :
         LET i == Chain(Bucket(f))[k]
         IN  /\ event' = [event EXCEPT ![i] = NoEvent]
             /\ fd' = [fd EXCEPT ![i] = 0]
             /\ UnlinkUsed(i)
             /\ Release(f, k)
    /\ counts' = counts - 1
    /\ ret' = 0
    /\ UNCHANGED wait

(* The early returns: -1 for arguments that are no call at all. *)
CtlFails(f) ==
    /\ CtlAllowed
    /\ \/ ret' = -1
       \/ Found(f) = {} /\ ret' \in {-2, -3}
       \/ Found(f) # {} /\ ret' = -4
       \/ Found(f) = {} /\ free_list = Null /\ ret' = -5
    /\ UNCHANGED <<items, wait>>

---------------------------------------------------------------------------
(* netx_wait.  fs stands for fs_in, fs_out and fs_et.                      *)

Returns(events) ==
    wait' = [at |-> "return", max |-> 0, fs |-> {}, ready |-> {}, events |-> events]

(* Some descriptor raises max_sock above SOCK_DEFAULT. *)
Watching(fs) == \E p \in fs : p[2] > 0

(* Without items or without a descriptor to watch, the call sleeps for its *)
(* timeout and returns.                                                    *)
WaitCall(n) ==
    LET fs == UNION {event[i].events \X {fd[i]} : i \in ToSet(Ring)}
    IN  /\ wait.at = "idle"
        /\ IF counts # 0 /\ Watching(fs)
           THEN wait' = [wait EXCEPT !.at = "select", !.max = n, !.fs = fs]
           ELSE Returns(<<>>)
        /\ UNCHANGED <<items, ret>>

(* What is always ready is, at once; anything else may be. *)
SelectReady(ready) ==
    /\ wait.at = "select"
    /\ ready # {} /\ wait.fs \cap AlwaysReady \subseteq ready
    /\ wait' = [wait EXCEPT !.at = "gather", !.fs = {}, !.ready = ready]
    /\ UNCHANGED <<items, ret>>

(* A timeout, or an error, as of a select that a signal interrupts. *)
SelectNothing ==
    /\ wait.at = "select"
    /\ Returns(<<>>)
    /\ UNCHANGED <<items, ret>>

Due(i) == {k \in event[i].events : <<k, fd[i]>> \in wait.ready}

DueItems == {i \in Items : Due(i) # {}}

(* The elements of s that are in S, in their order. *)
Those(s, S) ==
    LET at == {k \in 1 .. Len(s) : s[k] \in S}
    IN  [j \in 1 .. Cardinality(at) |->
           s[CHOOSE k \in at : Cardinality({m \in at : m <= k}) = j]]

(* Fault: events are looked for in select's sets, not in the item's too. *)
ReportAnyReady(i) ==
    [events |-> {p[1] : p \in {q \in wait.ready : q[2] = fd[i]}}, data |-> event[i].data]

ReportOf(i) == [events |-> Due(i), data |-> event[i].data]

Reports(due, n) == [j \in 1 .. n |-> ReportOf(due[j])]

(* From the first item on, until the array is full, which ends the call,   *)
(* or the ring is back at its first item, which then gives up its place.   *)
Gather ==
    /\ wait.at = "gather"
    /\ \E ring \in ItemSeqs :
         LET due == Those(ring, DueItems)
         IN  /\ IsRing(ring)
             /\ IF Len(due) >= wait.max
                THEN /\ Returns(Reports(due, wait.max))
                     /\ UNCHANGED used_list
                ELSE /\ Returns(Reports(due, Len(due)))
                     /\ used_list' = IF used_list = Null THEN Null ELSE next[used_list]
    /\ UNCHANGED <<links, fd, event, counts, ret>>

WaitReturn ==
    /\ wait.at = "return"
    /\ wait' = [at |-> "idle", max |-> 0, fs |-> {}, ready |-> {}, events |-> <<>>]
    /\ UNCHANGED <<items, ret>>

---------------------------------------------------------------------------
Ctl ==
    \E f \in Fds :
       \/ \E e \in EventsOf(f) : Add(f, e) \/ Mod(f, e)
       \/ Del(f) \/ CtlFails(f)

Wait ==
    \/ \E n \in BufferSizes : WaitCall(n)
    \/ \E ready \in SUBSET wait.fs : SelectReady(ready)
    \/ SelectNothing \/ Gather \/ WaitReturn

Next == Ctl \/ Wait

Spec == Init /\ [][Next]_vars

(* The caller waits again and again, and select is not interrupted for     *)
(* ever when something is ready.                                           *)
Fairness ==
    /\ WF_vars(Wait)
    /\ SF_vars(\E ready \in SUBSET wait.fs : SelectReady(ready))

FairSpec == Spec /\ Fairness

---------------------------------------------------------------------------
Links == Items \cup {Null}

(* Type invariant. *)
TypeOK ==
    /\ hash_next \in [Items -> Links] /\ next \in [Items -> Links]
    /\ prev \in [Items -> Links]
    /\ fd \in [Items -> Fds \cup {0}]
    /\ event \in [Items -> (UNION {EventsOf(f) : f \in Fds}) \cup {NoEvent}]
    /\ free_list \in Links /\ used_list \in Links
    /\ hash_table \in [Buckets -> Links]
    /\ counts \in 0 .. max_counts
    /\ ret \in -5 .. 0
    /\ wait.at \in {"idle", "select", "gather", "return"}
    /\ wait.max \in BufferSizes \cup {0}

(* No list runs in circles and the used list closes, forward and back, at  *)
(* any order of adds, deletes and waits: the walks of netx.c:239-243,      *)
(* 377-406 and 440-478 end, and the inner error of 443 never happens.      *)
ListsWellFormed ==
    /\ \E s \in ItemSeqs : IsChain(s, free_list)
    /\ \A h \in Buckets : \E s \in ItemSeqs : IsChain(s, hash_table[h])
    /\ \E s \in ItemSeqs : IsRing(s)

(* Every item is free or used, never both and never neither, though the    *)
(* free list shares hash_next with the chains; counts tells how many are   *)
(* used (netx.c:271-284, 302-323).                                         *)
EachItemOnce ==
    \A s \in ItemSeqs : IsChain(s, free_list) =>
        /\ ToSet(s) \cap ToSet(Ring) = {}
        /\ ToSet(s) \cup ToSet(Ring) = Items
        /\ counts = Len(Ring)

(* The chain of a bucket holds the used items of its descriptors and no    *)
(* others, and no descriptor has two items (netx.c:239-243, 279, 306).     *)
ChainsIndexRing ==
    /\ \A h \in Buckets : ToSet(Chain(h)) = {i \in ToSet(Ring) : Bucket(fd[i]) = h}
    /\ \A i, j \in ToSet(Ring) : fd[i] = fd[j] => i = j

---------------------------------------------------------------------------
(* The table of descriptors that the lists stand for. *)
Table ==
    LET used == ToSet(Ring) IN
    [f \in Fds |-> IF \A i \in used : fd[i] # f THEN NoEvent
                   ELSE event[CHOOSE i \in used : fd[i] = f]]

Abstract == INSTANCE EventPoll WITH
    Capacity <- max_counts,
    watched  <- Table,
    wait     <- [at |-> wait.at, max |-> wait.max, asked |-> wait.fs,
                 ready |-> wait.ready, events |-> wait.events]

(* The three linked structures behave as a table of descriptors: a call    *)
(* fails for its reason only, and a wait reports each descriptor that is   *)
(* ready and still watched once, with its own data, as far as there is     *)
(* room, also when the table changes during the wait's select.  It holds   *)
(* without descriptor 0, which netx_ctl accepts: alone it does not raise   *)
(* max_sock, and a wait sleeps as if nothing was watched (netx.c:410-414). *)
ImplementsEventPoll == Abstract!Spec

Watched(p) == \E i \in ToSet(Ring) : fd[i] = p[2] /\ p[1] \in event[i].events

(* netx_wait hands an event of f to its caller. *)
ReportedTo(f) == \E j \in DOMAIN wait.events : wait.events[j].data = f

(* netx.c:480 "let all connection be check": the ring turns, so that a     *)
(* descriptor that stays watched and ready is reported again and again.    *)
(* It is not: when the array is full, 472-476 return before the ring       *)
(* turns, and the next wait begins with the same items.                    *)
AllConnectionsChecked ==
    \A p \in AlwaysReady : <>[]Watched(p) => []<> ReportedTo(p[2])
=============================================================================
