------------------------------- MODULE Mlist --------------------------------
(***************************************************************************)
(* The intrusive circular list of mlist.h.  The links of all nodes, heads  *)
(* included, are one record of two functions; an operation gives the links *)
(* after it.  Where NULL would be followed the C code crashes: TLC stops   *)
(* there, since Poison is no node.                                         *)
(***************************************************************************)
EXTENDS Integers, Sequences, FiniteSets, SequencesExt

Poison == "MLIST_POISON"

(* mlist_init. *)
ListInit(l, head) ==
    [prev |-> [l.prev EXCEPT ![head] = head], next |-> [l.next EXCEPT ![head] = head]]

(* mlist_add: node comes after head. *)
ListAdd(l, head, node) ==
    LET after == l.next[head]
    IN  [prev |-> [l.prev EXCEPT ![node] = head, ![after] = node],
         next |-> [l.next EXCEPT ![node] = after, ![head] = node]]

ListAddTail(l, head, node) == ListAdd(l, l.prev[head], node)

(* Fault: the link back to the node before is left as it was. *)
ListDelForwardOnly(l, node) ==
    [prev |-> [l.prev EXCEPT ![node] = Poison],
     next |-> [l.next EXCEPT ![l.prev[node]] = l.next[node], ![node] = Poison]]

(* mlist_del, and mlist_deinit, which does the same to a head. *)
ListDel(l, node) ==
    [prev |-> [l.prev EXCEPT ![l.next[node]] = l.prev[node], ![node] = Poison],
     next |-> [l.next EXCEPT ![l.prev[node]] = l.next[node], ![node] = Poison]]

ListEmpty(l, head) == l.next[head] = head

---------------------------------------------------------------------------
(* s are the nodes that mlist_for_each meets from head, and prev leads     *)
(* through them the other way.                                             *)
ListIs(l, head, s) ==
    LET ring == <<head>> \o s
        After(k) == IF k = Len(ring) THEN head ELSE ring[k + 1]
    IN  /\ \A k \in 1 .. Len(ring) :
             l.next[ring[k]] = After(k) /\ l.prev[After(k)] = ring[k]
        /\ IsInjective(ring)

(* The nodes that mlist_for_each meets, of a list of at most n nodes. *)
ListOf(l, head, n) ==
    LET at[k \in 0 .. n + 1] ==
            IF k = 0 THEN head
            ELSE IF at[k - 1] = Poison THEN Poison ELSE l.next[at[k - 1]]
        End == {k \in 1 .. n + 1 : at[k] = head}
    IN  [k \in 1 .. IF End = {} THEN n ELSE Min(End) - 1 |-> at[k]]
=============================================================================
