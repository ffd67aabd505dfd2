----------------------------- MODULE NetxPolls ------------------------------
(***************************************************************************)
(* The table of polls of netx: netx_create, netx_destroy, and the look-up  *)
(* of a handle (netx.c).  A handle is a place of the table, counted from   *)
(* 1.  The table grows when it is full and is freed when it is empty.      *)
(* One thread makes every call; what a poll holds is NetxPoll's matter.    *)
(*                                                                         *)
(* A definition whose comment calls it a fault stands before the one it    *)
(* is a faulty variant of; nothing uses it but the mutants of the runs.    *)
(***************************************************************************)
EXTENDS Integers, Sequences, FiniteSets

CONSTANTS Polls,    \* blocks of memory a poll can be allocated in
          NoPoll,   \* NULL
          Chunk     \* places the table grows by: 16

NetxPollsAssumption ==
    /\ NoPoll \notin Polls
    /\ Chunk \in Nat \ {0}

VARIABLES list,       \* netx__polls.list; max_counts is its length
          counts,     \* netx__polls.counts
          allocated,  \* blocks that are allocated
          handle,     \* handle[p]: what create returned for poll p, or 0
          ret         \* the result of the last call

vars == <<list, counts, allocated, handle, ret>>

Init ==
    /\ list = <<>>
    /\ counts = 0
    /\ allocated = {}
    /\ handle = [p \in Polls |-> 0]
    /\ ret = 0

---------------------------------------------------------------------------
(* Fault: the table grows one poll too late. *)
GrownLate ==
    IF counts <= Len(list) THEN list ELSE list \o [i \in 1 .. Chunk |-> NoPoll]

(* The table after realloc and memset, which a full table needs. *)
Grown ==
    IF counts < Len(list) THEN list ELSE list \o [i \in 1 .. Chunk |-> NoPoll]

Free(l) == {i \in 1 .. Len(l) : l[i] = NoPoll}

(* Fault: the place after the last poll is taken for the first free one. *)
FirstFreeByCount(l) == {counts + 1}

(* The place the search for a free one stops at, if there is any. *)
FirstFree(l) == {i \in Free(l) : \A j \in Free(l) : i <= j}

(* Without a free place create returns -5, an inner error; it is not an    *)
(* action, since CreateFindsPlace says that there always is one.           *)
Create(p) ==
    /\ p \notin allocated
    /\ \E i \in FirstFree(Grown) :
         /\ list' = [Grown EXCEPT ![i] = p]
         /\ handle' = [handle EXCEPT ![p] = i]
         /\ ret' = i
    /\ allocated' = allocated \cup {p}
    /\ counts' = counts + 1

(* max_counts of 0. *)
CreateInvalid ==
    /\ ret' = -1
    /\ UNCHANGED <<list, counts, allocated, handle>>

(* No memory for the larger table. *)
CreateNoTable ==
    /\ counts >= Len(list)
    /\ ret' = -3
    /\ UNCHANGED <<list, counts, allocated, handle>>

(* No memory for the poll: a table that has grown stays so. *)
CreateNoPoll ==
    /\ Free(Grown) # {}
    /\ list' = Grown
    /\ ret' = -4
    /\ UNCHANGED <<counts, allocated, handle>>

---------------------------------------------------------------------------
(* Look-up of a handle. *)
PollOf(h) == IF h \in 1 .. Len(list) THEN list[h] ELSE NoPoll

(* Fault: the table is freed when one poll is left. *)
ShrunkEarly(h) == IF counts <= 2 THEN <<>> ELSE [list EXCEPT ![h] = NoPoll]

(* The table without the poll of handle h; without a poll, it is freed. *)
Shrunk(h) == IF counts = 1 THEN <<>> ELSE [list EXCEPT ![h] = NoPoll]

Destroy(h) ==
    /\ PollOf(h) # NoPoll
    /\ list' = Shrunk(h)
    /\ counts' = counts - 1
    /\ allocated' = allocated \ {PollOf(h)}
    /\ handle' = [handle EXCEPT ![PollOf(h)] = 0]
    /\ ret' = 0

DestroyInvalid(h) ==
    /\ PollOf(h) = NoPoll
    /\ ret' = -1
    /\ UNCHANGED <<list, counts, allocated, handle>>

---------------------------------------------------------------------------
Handles == 0 .. Len(list) + 1

Next ==
    \/ \E p \in Polls : Create(p)
    \/ CreateInvalid \/ CreateNoTable \/ CreateNoPoll
    \/ \E h \in Handles : Destroy(h) \/ DestroyInvalid(h)

Spec == Init /\ [][Next]_vars

---------------------------------------------------------------------------
(* Type invariant. *)
TypeOK ==
    /\ list \in Seq(Polls \cup {NoPoll})
    /\ counts \in Nat
    /\ allocated \subseteq Polls
    /\ handle \in [Polls -> 0 .. Len(list)]
    /\ ret \in Int

(* netx_create never gets to its inner error (netx.c:172): when the table  *)
(* is not to grow, a place of it is free.                                  *)
CreateFindsPlace == Free(Grown) # {}

(* Every poll allocated is in the table, once, and counts is their number, *)
(* so that none is lost and the table is freed when the last one is, not   *)
(* before (netx.c:140-168, 204-215).                                       *)
EveryPollListed ==
    /\ allocated = {list[i] : i \in 1 .. Len(list)} \ {NoPoll}
    /\ counts = Cardinality(allocated)
    /\ \A i, j \in 1 .. Len(list) : list[i] = list[j] /\ list[i] # NoPoll => i = j

(* A handle names its poll until it is destroyed, whatever is created and  *)
(* destroyed around it and whenever the table moves (netx.c:124-137, 144). *)
HandleFindsItsPoll == \A p \in allocated : PollOf(handle[p]) = p
=============================================================================
