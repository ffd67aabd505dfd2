----------------------------- MODULE MmemDebug ------------------------------
(***************************************************************************)
(* The allocator of mmem_debug.c, which keeps every block it hands out on  *)
(* a list and counts them.  The adapter's lock is held from the first line *)
(* of a call to its last (realloc gives it up only to call alloc or free), *)
(* so a call is one action, whichever thread makes it.                     *)
(*                                                                         *)
(* An address is that of a block; callers get the address of its data.    *)
(*                                                                         *)
(* A definition whose comment calls it a fault stands before the one it    *)
(* is a faulty variant of; nothing uses it but the mutants of the runs.    *)
(***************************************************************************)
EXTENDS Mlist

CONSTANTS Addrs,        \* addresses the C allocator has
          ListHead,         \* the head of the table's list
          Sizes,        \* sizes asked for
          Overhead,     \* MMEM_BLOCK_SIZE + sizeof(long)
          MaxInfos      \* bound: entries a dump buffer has room for

MmemDebugAssumption ==
    /\ IsFiniteSet(Addrs) /\ ListHead \notin Addrs /\ Poison \notin Addrs \cup {ListHead}
    /\ Sizes \subseteq Nat /\ Overhead \in Nat /\ MaxInfos \in Nat

VARIABLES heap,     \* addresses that the C allocator has given out
          magic,    \* "active" where a check of the magics succeeds, or "free"
          size,     \* _mmem_block_size
          links,    \* the list nodes of the blocks, and the head
          table,    \* mmem_block_table, without its list
          handed,   \* addresses that a caller has been given
          dump      \* the last call, if it was an mmem_dump of blocks

vars == <<heap, magic, size, links, table, handed, dump>>

NoDump == [counts |-> 0, room |-> 0, infos |-> <<>>]

NoTable == [count |-> 0, total |-> 0, active |-> 0, max_total |-> 0, max_active |-> 0]

Init ==
    /\ heap = {} /\ handed = {}
    /\ magic = [a \in Addrs |-> "free"]
    /\ size = [a \in Addrs |-> 0]
    /\ links = ListInit([prev |-> [n \in Addrs \cup {ListHead} |-> Poison],
                         next |-> [n \in Addrs \cup {ListHead} |-> Poison]], ListHead)
    /\ table = NoTable
    /\ dump = NoDump

Larger(a, b) == IF a > b THEN a ELSE b

(* _mmem_block_add, for a block of size n, and _mmem_block_del. *)
BlockAdd(t, n) ==
    [count |-> t.count + 1, total |-> t.total + n + Overhead, active |-> t.active + n,
     max_total |-> Larger(t.max_total, t.total + n + Overhead),
     max_active |-> Larger(t.max_active, t.active + n)]

BlockDel(t, n) ==
    [t EXCEPT !.count = @ - 1, !.total = @ - n - Overhead, !.active = @ - n]

Blocks == ListOf(links, ListHead, Cardinality(Addrs))

---------------------------------------------------------------------------
(* mmem_alloc; mmem_calloc with the product of its arguments; mmem_realloc *)
(* of NULL.  Without memory, or for a size of 0, nothing changes.          *)
Alloc(a, n) ==
    /\ n # 0 /\ a \notin heap
    /\ heap' = heap \cup {a}
    /\ magic' = [magic EXCEPT ![a] = "active"]
    /\ size' = [size EXCEPT ![a] = n]
    /\ links' = ListAddTail(links, ListHead, a)
    /\ table' = BlockAdd(table, n)
    /\ handed' = handed \cup {a}
    /\ dump' = NoDump

(* mmem_free of any address a caller was ever given, and mmem_realloc with *)
(* a size of 0.  The C allocator may write into memory given back to it,   *)
(* but never the magics of an active block: a block freed before fails the *)
(* check, unless its memory is a block again.                              *)
Free(a) ==
    /\ a \in handed /\ magic[a] = "active"
    /\ heap' = heap \ {a}
    /\ magic' = [magic EXCEPT ![a] = "free"]
    /\ links' = ListDel(links, a)
    /\ table' = BlockDel(table, size[a])
    /\ dump' = NoDump
    /\ UNCHANGED <<size, handed>>

FreeRefused(a) ==
    /\ a \in handed /\ magic[a] # "active"
    /\ dump' = NoDump
    /\ UNCHANGED <<heap, magic, size, links, table, handed>>

(* Fault: a failed realloc leaves the block off the list. *)
ReallocFailsUnlisted(a, n) ==
    /\ a \in handed /\ magic[a] = "active" /\ n # 0
    /\ links' = ListDel(links, a)
    /\ table' = BlockDel(table, size[a])
    /\ dump' = NoDump
    /\ UNCHANGED <<heap, magic, size, handed>>

(* mmem_realloc takes the block from the list before it calls realloc, and *)
(* puts it back, at the end, if that fails.                                *)
ReallocFails(a, n) ==
    /\ a \in handed /\ magic[a] = "active" /\ n # 0
    /\ links' = ListAddTail(ListInit(ListDel(links, a), a), ListHead, a)
    /\ table' = BlockAdd(BlockDel(table, size[a]), size[a])
    /\ dump' = NoDump
    /\ UNCHANGED <<heap, magic, size, handed>>

(* The block stays where it is or moves to b. *)
Realloc(a, b, n) ==
    /\ a \in handed /\ magic[a] = "active" /\ n # 0
    /\ b = a \/ b \notin heap
    /\ heap' = (heap \ {a}) \cup {b}
    /\ magic' = [magic EXCEPT ![a] = "free", ![b] = "active"]
    /\ size' = [size EXCEPT ![b] = n]
    /\ links' = ListAddTail(ListInit(ListDel(links, a), b), ListHead, b)
    /\ table' = BlockAdd(BlockDel(table, size[a]), n)
    /\ handed' = handed \cup {b}
    /\ dump' = NoDump

(* mmem_free_all: each block from the first to the last, its successor     *)
(* taken before it is freed.                                               *)
FreeAll ==
    LET bs == Blocks
        AfterDel[k \in 0 .. Len(bs)] ==
            IF k = 0 THEN [links |-> links, table |-> table]
            ELSE [links |-> ListDel(AfterDel[k - 1].links, bs[k]),
                  table |-> BlockDel(AfterDel[k - 1].table, size[bs[k]])]
    IN  /\ links' = AfterDel[Len(bs)].links
        /\ table' = AfterDel[Len(bs)].table
        /\ heap' = heap \ ToSet(bs)
        /\ magic' = [a \in Addrs |-> IF a \in ToSet(bs) THEN "free" ELSE magic[a]]
        /\ dump' = NoDump
        /\ UNCHANGED <<size, handed>>

(* Fault: the room that is left is looked at one entry too late. *)
InfoCountLate(bs, counts, room) ==
    CHOOSE n \in 0 .. Len(bs) :
        /\ n = Len(bs) \/ n >= counts \/ room - n < 0
        /\ \A k \in 1 .. n - 1 : k < counts /\ room - k >= 0

(* Entries written by the loop of MMEM_DUMP_CMD_MMEM_BLOCK_INFO: it stops  *)
(* after the entry that uses up counts or the buffer, or at the last block. *)
InfoCount(bs, counts, room) ==
    CHOOSE n \in 0 .. Len(bs) :
        /\ n = Len(bs) \/ n >= counts \/ room - n < 1
        /\ \A k \in 1 .. n - 1 : k < counts /\ room - k >= 1

(* mmem_dump of blocks; its other commands and its errors write numbers    *)
(* that the table has, and change nothing.                                 *)
Dump(counts, room) ==
    /\ room >= 1 /\ counts # 0
    /\ LET n == InfoCount(Blocks, counts, room)
       IN  dump' = [counts |-> counts, room |-> room,
                    infos |-> [k \in 1 .. n |-> size[Blocks[k]]]]
    /\ UNCHANGED <<heap, magic, size, links, table, handed>>

---------------------------------------------------------------------------
Next ==
    \/ \E a \in Addrs, n \in Sizes :
         \/ Alloc(a, n) \/ ReallocFails(a, n)
         \/ \E b \in Addrs : Realloc(a, b, n)
    \/ \E a \in Addrs : Free(a) \/ FreeRefused(a)
    \/ FreeAll
    \/ \E counts, room \in 0 .. MaxInfos : Dump(counts, room)

Spec == Init /\ [][Next]_vars

---------------------------------------------------------------------------
(* How large the blocks s are together. *)
SumSizes(s) ==
    LET sum[k \in 0 .. Len(s)] == IF k = 0 THEN 0 ELSE sum[k - 1] + size[s[k]]
    IN  sum[Len(s)]

(* Whatever is allocated, reallocated with or without success and freed    *)
(* twice, the list is a ring of the blocks that are allocated, each once,  *)
(* and the table says how many and how large they are (mmem_debug.c:143,   *)
(* 158): no block is lost to mmem_free_all, and none is on the list after  *)
(* its memory has gone back (mmem_debug.c:300-335).                        *)
BlocksAccounted ==
    /\ ListIs(links, ListHead, Blocks) /\ ToSet(Blocks) = heap
    /\ \A a \in Addrs : magic[a] = "active" <=> a \in heap
    /\ table.count = Cardinality(heap)
    /\ table.active = SumSizes(Blocks)
    /\ table.total = SumSizes(Blocks) + Overhead * Cardinality(heap)
    /\ table.max_active >= table.active /\ table.max_total >= table.total

(* A dump writes no more entries than the caller asked for and than its    *)
(* buffer holds, none twice and none left out before (mmem_debug.c:520).   *)
DumpFits ==
    dump # NoDump =>
        /\ Len(dump.infos) <= dump.counts /\ Len(dump.infos) <= dump.room
        /\ Len(dump.infos) \in {dump.counts, dump.room, table.count}
=============================================================================
