------------------------------ MODULE OsalTask ------------------------------
(***************************************************************************)
(* Tasks of osal, on POSIX threads (osal_posix.c:120-254) and on FreeRTOS  *)
(* (osal_freertos.c:50-185).  The creator allocates a wrapper with the     *)
(* function and its argument; the thread reads it, frees it and calls the  *)
(* function.  Here a function and its argument are one "job".              *)
(*                                                                         *)
(* osal_task_destroy is pthread_cancel, which a thread obeys where it next *)
(* may block, or vTaskDelete, which ends a task wherever it is.            *)
(*                                                                         *)
(* A definition whose comment calls it a fault stands before the one it    *)
(* is a faulty variant of; nothing uses it but the mutants of the runs.    *)
(***************************************************************************)
EXTENDS Integers, FiniteSets

CONSTANTS Jobs, Wraps, Ids, NoJob, NoWrap, NoId

OsalTaskAssumption ==
    /\ NoJob \notin Jobs /\ NoWrap \notin Wraps /\ NoId \notin Ids
    /\ Ids \cap {"idle", "alloc", "spawn", "new"} = {} /\ NoId # "new"

VARIABLES port,         \* "posix" or "freertos"
          allocated,    \* wrappers allocated
          content,      \* what a wrapper's memory holds, also when it is free
          create,       \* the call of osal_task_create in progress
          handle,       \* the result of creating each job: "new", NoId or an id
          thread,       \* threads by id; the id of a finished one is used again
          runs,         \* how often the function of a job was called
          killed        \* wrappers of tasks deleted before they ran

vars == <<port, allocated, content, create, handle, thread, runs, killed>>

Idle == [pc |-> "idle", job |-> NoJob, wrap |-> NoWrap]
NoTask == [pc |-> "none", job |-> NoJob, wrap |-> NoWrap, cancelled |-> FALSE]

Init ==
    /\ port \in {"posix", "freertos"}
    /\ allocated = {} /\ killed = {}
    /\ content = [w \in Wraps |-> NoJob]
    /\ create = Idle
    /\ handle = [j \in Jobs |-> "new"]
    /\ thread = [i \in Ids |-> NoTask]
    /\ runs = [j \in Jobs |-> 0]

Return(result) ==
    /\ create' = Idle
    /\ handle' = [handle EXCEPT ![create.job] = result]

---------------------------------------------------------------------------
(* osal_task_create, whose arguments may be refused: no function, a        *)
(* priority or a stack that the system does not take.                      *)
CreateCall(j) ==
    /\ create = Idle /\ handle[j] = "new"
    /\ \/ create' = [Idle EXCEPT !.pc = "alloc", !.job = j] /\ UNCHANGED handle
       \/ handle' = [handle EXCEPT ![j] = NoId] /\ UNCHANGED create
    /\ UNCHANGED <<port, allocated, content, thread, runs, killed>>

WrapJob ==
    /\ create.pc = "alloc"
    /\ \E w \in Wraps \ allocated :
         /\ allocated' = allocated \cup {w}
         /\ content' = [content EXCEPT ![w] = create.job]
         /\ create' = [create EXCEPT !.pc = "spawn", !.wrap = w]
    /\ UNCHANGED <<port, handle, thread, runs, killed>>

(* Without memory for a wrapper POSIX starts the function itself. *)
WrapFails ==
    /\ create.pc = "alloc"
    /\ IF port = "posix" THEN create' = [create EXCEPT !.pc = "spawn"] /\ UNCHANGED handle
       ELSE Return(NoId)
    /\ UNCHANGED <<port, allocated, content, thread, runs, killed>>

Spawn ==
    /\ create.pc = "spawn"
    /\ \E i \in Ids :
         /\ thread[i] = NoTask
         /\ thread' = [thread EXCEPT ![i] =
               IF create.wrap = NoWrap
               THEN [NoTask EXCEPT !.pc = "call", !.job = create.job]
               ELSE [NoTask EXCEPT !.pc = "wrapper", !.wrap = create.wrap]]
         /\ create' = [create EXCEPT !.pc = i]
    /\ UNCHANGED <<port, allocated, content, handle, runs, killed>>

(* Fault: the wrapper is left to a thread that does not exist. *)
SpawnFailsKeepsWrap ==
    /\ create.pc = "spawn"
    /\ Return(NoId)
    /\ UNCHANGED <<port, allocated, content, thread, runs, killed>>

SpawnFails ==
    /\ create.pc = "spawn"
    /\ allocated' = allocated \ {create.wrap}
    /\ Return(NoId)
    /\ UNCHANGED <<port, content, thread, runs, killed>>

(* The thread may be running already, or be gone. *)
CreateReturn ==
    /\ create.pc \in Ids
    /\ Return(create.pc)
    /\ UNCHANGED <<port, allocated, content, thread, runs, killed>>

---------------------------------------------------------------------------
(* osal_task_wrapper. *)
ReadWrap(i) ==
    /\ thread[i].pc = "wrapper"
    /\ thread' = [thread EXCEPT ![i].pc = "read", ![i].job = content[thread[i].wrap]]
    /\ UNCHANGED <<port, allocated, content, create, handle, runs, killed>>

FreeWrap(i) ==
    /\ thread[i].pc = "read"
    /\ allocated' = allocated \ {thread[i].wrap}
    /\ thread' = [thread EXCEPT ![i].pc = "call"]
    /\ UNCHANGED <<port, content, create, handle, runs, killed>>

(* Fault: the wrapper is read again after it was freed. *)
CallJobLate(i) ==
    /\ thread[i].pc = "call"
    /\ LET w == thread[i].wrap
           job == IF w = NoWrap THEN thread[i].job ELSE content[w]
       IN  runs' = [runs EXCEPT ![job] = @ + 1]
    /\ thread' = [thread EXCEPT ![i].pc = "running", ![i].wrap = NoWrap]
    /\ UNCHANGED <<port, allocated, content, create, handle, killed>>

CallJob(i) ==
    /\ thread[i].pc = "call"
    /\ runs' = [runs EXCEPT ![thread[i].job] = @ + 1]
    /\ thread' = [thread EXCEPT ![i].pc = "running", ![i].wrap = NoWrap]
    /\ UNCHANGED <<port, allocated, content, create, handle, killed>>

(* The function returns, or blocks and finds itself cancelled: threads are *)
(* detached and tasks delete themselves, so nothing is left of them.       *)
Exit(i) ==
    /\ thread[i].pc = "running"
    /\ thread' = [thread EXCEPT ![i] = NoTask]
    /\ UNCHANGED <<port, allocated, content, create, handle, runs, killed>>

(* osal_task_destroy, of a task created before and not known to have       *)
(* ended.  A POSIX id may by now be that of another task.                  *)
Destroy(j) ==
    LET i == handle[j]
    IN  /\ i \in Ids /\ thread[i] # NoTask
        /\ \/ /\ port = "posix"
              /\ thread' = [thread EXCEPT ![i].cancelled = TRUE]
              /\ UNCHANGED killed
           \/ /\ port = "freertos"
              /\ thread' = [thread EXCEPT ![i] = NoTask]
              /\ killed' = IF thread[i].pc \in {"wrapper", "read"}
                           THEN killed \cup {thread[i].wrap} ELSE killed
        /\ UNCHANGED <<port, allocated, content, create, handle, runs>>

---------------------------------------------------------------------------
Next ==
    \/ \E j \in Jobs : CreateCall(j) \/ Destroy(j)
    \/ WrapJob \/ WrapFails \/ Spawn \/ SpawnFails \/ CreateReturn
    \/ \E i \in Ids : ReadWrap(i) \/ FreeWrap(i) \/ CallJob(i) \/ Exit(i)

Spec == Init /\ [][Next]_vars

---------------------------------------------------------------------------
(* A wrapper allocated belongs to the creator or to one thread that has    *)
(* not freed it, whichever step of osal_task_create fails and whenever a   *)
(* thread is cancelled (osal_posix.c:120-254); only FreeRTOS loses that of *)
(* a task deleted before it ran (osal_freertos.h:44).                      *)
WrapsOwned ==
    LET creator == IF create.pc = "spawn" THEN {create.wrap} \ {NoWrap} ELSE {}
        holders(w) == {i \in Ids : thread[i].wrap = w /\ thread[i].pc \in {"wrapper", "read"}}
    IN  /\ allocated = creator \cup killed \cup {w \in Wraps : holders(w) # {}}
        /\ \A w \in Wraps : Cardinality(holders(w)) + Cardinality({w} \cap creator) <= 1
        /\ port = "posix" => killed = {}

(* No job runs twice, none runs in the place of another, and a create that *)
(* returned NULL has started nothing (t_osal_task_002.c:24-28).            *)
RunsAsCreated ==
    \A j \in Jobs :
        /\ runs[j] <= 1
        /\ handle[j] = NoId => runs[j] = 0
        /\ Cardinality({i \in Ids : thread[i].job = j}) <= 1
=============================================================================
