------------------------------- MODULE Mlib ---------------------------------
(***************************************************************************)
(* The table of polls and the sockets of netx, the allocator of            *)
(* mmem_debug, and the tasks and semaphores of osal, which share no state, *)
(* side by side, and what each of them promises.                           *)
(***************************************************************************)
CONSTANTS Polls, NoPoll, Chunk,
          SocketFds, MaxIfLists,
          Addrs, ListHead, Sizes, Overhead, MaxInfos,
          Jobs, Wraps, Ids, NoJob, NoWrap, NoId,
          Threads, NoThread, UsPerMs, MsPerSec, Timeouts, MaxNow, MaxValue

VARIABLES list, poll_counts, allocated, handle, poll_ret,
          open, owned, results, if_lists, call, last,
          heap, magic, size, block_links, table, handed, dump,
          port, wraps, content, create, id_of, thread, runs, killed,
          now, value, owner, sem_wait, result

pollsVars == <<list, poll_counts, allocated, handle, poll_ret>>
sockVars  == <<open, owned, results, if_lists, call, last>>
mmemVars  == <<heap, magic, size, block_links, table, handed, dump>>
taskVars  == <<port, wraps, content, create, id_of, thread, runs, killed>>
semVars   == <<now, value, owner, sem_wait, result>>

Netx == INSTANCE NetxPolls WITH counts <- poll_counts, ret <- poll_ret
Sock == INSTANCE NetxSocket WITH Fds <- SocketFds, ret <- last
Mmem == INSTANCE MmemDebug WITH links <- block_links
Task == INSTANCE OsalTask WITH allocated <- wraps, handle <- id_of
Sem  == INSTANCE OsalSem WITH wait <- sem_wait

(* Every poll allocated is in the table, once, and a handle names its poll *)
(* until that is destroyed (netx.c:124-215).                               *)
EveryPollListed    == Netx!EveryPollListed
HandleFindsItsPoll == Netx!HandleFindsItsPoll

(* netx leaves nothing open or allocated behind (netx.c:521-931).          *)
NothingLost == Sock!NothingLost

(* What netx returns is open and new, or an address (netx.c:521-870).      *)
ResultsMeanSomething == Sock!ResultsMeanSomething

(* List, counters and memory of mmem_debug agree, and a dump tells as much *)
(* (mmem_debug.c:143-558).                                                 *)
BlocksAccounted == Mmem!BlocksAccounted /\ Mmem!DumpFits

(* Wrappers of tasks have one owner, and jobs run once and as created      *)
(* (osal_posix.c:120-254).                                                 *)
WrapsOwned == Task!WrapsOwned /\ Task!RunsAsCreated

(* A wait ends with TIMEDOUT when its time is over (osal_posix.c:348-429). *)
TimeoutsExact == Sem!TimeoutsExact
=============================================================================
