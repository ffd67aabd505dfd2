---------------------------- MODULE Mlib_proofs -----------------------------
(***************************************************************************)
(* Proofs about five parts of mlib that keep to themselves: the tasks of   *)
(* osal, its semaphores, the sockets of netx, the allocator of mmem_debug, *)
(* and the table of polls of netx, for any number of jobs, threads,        *)
(* wrappers, descriptors, addresses and polls, any sizes, any time-out,    *)
(* any scale of time and any step by which the table of polls grows.       *)
(***************************************************************************)
EXTENDS Mlib, Integers, Sequences, FiniteSetTheorems, SequenceTheorems, WellFoundedInduction,
        TLAPS

---------------------------------------------------------------------------
(* Tasks.  A wrapper has one owner because the creator, a thread that has  *)
(* not freed it and the tasks that FreeRTOS deleted share none of them; a  *)
(* job runs once because it has one thread at most, and one that has not   *)
(* been created yet, or failed to be, has none.                            *)
Steps == {"none", "wrapper", "read", "call", "running"}
Thread == [pc : Steps, job : Jobs \cup {NoJob}, wrap : Wraps \cup {NoWrap}, cancelled : BOOLEAN]
Creation == [pc : {"idle", "alloc", "spawn"} \cup Ids, job : Jobs \cup {NoJob},
             wrap : Wraps \cup {NoWrap}]

TaskTypes ==
    /\ port \in {"posix", "freertos"}
    /\ wraps \subseteq Wraps /\ killed \subseteq Wraps
    /\ content \in [Wraps -> Jobs \cup {NoJob}]
    /\ create \in Creation
    /\ id_of \in [Jobs -> {"new", NoId} \cup Ids]
    /\ thread \in [Ids -> Thread]
    /\ runs \in [Jobs -> 0 .. 1]

(* The job of a thread, and the wrapper that is its to free: the thread's  *)
(* job is in its wrapper until it has read it.                             *)
JobOf(i) == IF thread[i].pc = "wrapper" THEN content[thread[i].wrap] ELSE thread[i].job
Holds(i) == thread[i].pc \in {"wrapper", "read"}
Creator == IF create.pc = "spawn" THEN {create.wrap} \ {NoWrap} ELSE {}

(* A job whose creation has not reached a thread, and never will if it     *)
(* has returned.                                                           *)
Unstarted(j) ==
    \/ id_of[j] = NoId
    \/ id_of[j] = "new" /\ (create.job # j \/ create.pc \in {"alloc", "spawn"})

OneThreadEach ==
    /\ \A i \in Ids : Holds(i) => thread[i].wrap \in wraps \ (Creator \cup killed)
    /\ \A i, k \in Ids : Holds(i) /\ Holds(k) /\ thread[i].wrap = thread[k].wrap => i = k
    /\ \A i \in Ids : thread[i].pc \in {"none", "wrapper"} => thread[i].job = NoJob
    /\ \A i \in Ids : thread[i].pc \in {"wrapper", "read", "call"} =>
         JobOf(i) \in Jobs /\ runs[JobOf(i)] = 0
    /\ \A i, k \in Ids : JobOf(i) \in Jobs /\ JobOf(i) = JobOf(k) => i = k

TaskInv ==
    /\ TaskTypes
    /\ OneThreadEach
    /\ wraps \subseteq Creator \cup killed \cup {thread[i].wrap : i \in {k \in Ids : Holds(k)}}
    /\ Creator \cup killed \subseteq wraps /\ Creator \cap killed = {}
    /\ port = "posix" => killed = {}
    /\ create.pc = "idle" => create.job = NoJob
    /\ create.pc = "alloc" => create.wrap = NoWrap
    /\ create.pc # "idle" => create.job \in Jobs /\ id_of[create.job] = "new"
    /\ \A w \in Creator : content[w] = create.job
    /\ \A j \in Jobs : Unstarted(j) => runs[j] = 0 /\ \A i \in Ids : JobOf(i) # j

LEMMA TaskInvInit ==
  ASSUME Task!OsalTaskAssumption
  PROVE  Task!Init => TaskInv
BY DEF Task!Init, TaskInv, TaskTypes, OneThreadEach, JobOf, Holds, Creator, Unstarted,
   Creation, Thread, Steps, Task!Idle, Task!NoTask, Task!OsalTaskAssumption

(* What each step of a thread leaves behind.                               *)
Others(i) == \A k \in Ids \ {i} : thread'[k] = thread[k]

LEMMA ReadEffect ==
  ASSUME TaskInv, NEW i \in Ids, Task!ReadWrap(i)
  PROVE  /\ thread[i].pc = "wrapper" /\ thread[i].wrap \in Wraps
         /\ UNCHANGED <<port, wraps, content, create, id_of, runs, killed>>
         /\ thread' \in [Ids -> Thread] /\ Others(i)
         /\ thread'[i].pc = "read" /\ thread'[i].wrap = thread[i].wrap
         /\ thread'[i].job = content[thread[i].wrap]
<1>1. thread \in [Ids -> Thread] /\ content \in [Wraps -> Jobs \cup {NoJob}]
  BY DEF TaskInv, TaskTypes
<1>2. thread[i].wrap \in Wraps
  BY Zenon DEF TaskInv, TaskTypes, OneThreadEach, Holds, Task!ReadWrap
<1>3. "read" \in Steps /\ content[thread[i].wrap] \in Jobs \cup {NoJob}
  BY <1>1, <1>2 DEF Steps
<1> DEFINE job == content[thread[i].wrap]
           r == thread[i]
           s == [r EXCEPT !.pc = "read"]
           t == [s EXCEPT !.job = job]
<1>4. thread' = [thread EXCEPT ![i] = [r EXCEPT !.pc = "read", !.job = job]]
  BY Zenon DEF Task!ReadWrap
<1>5. [r EXCEPT !.pc = "read", !.job = job] = t
  BY Zenon
<1>6. s \in Thread /\ s.pc = "read" /\ s.wrap = r.wrap
  BY <1>1, <1>3 DEF Thread
<1> HIDE DEF s, job
<1>7. t \in Thread /\ t.pc = "read" /\ t.job = job /\ t.wrap = r.wrap
  BY <1>3, <1>6 DEF Thread, job
<1> HIDE DEF t
<1>8. /\ thread[i].pc = "wrapper"
      /\ UNCHANGED <<port, wraps, content, create, id_of, runs, killed>>
  BY Zenon DEF Task!ReadWrap
<1>. QED
  BY <1>1, <1>2, <1>4, <1>5, <1>7, <1>8 DEF Others, job

LEMMA FreeEffect ==
  ASSUME TaskInv, NEW i \in Ids, Task!FreeWrap(i)
  PROVE  /\ thread' \in [Ids -> Thread] /\ Others(i)
         /\ thread'[i].pc = "call" /\ thread'[i].job = thread[i].job
<1>1. thread \in [Ids -> Thread]
  BY DEF TaskInv, TaskTypes
<1> DEFINE t == [thread[i] EXCEPT !.pc = "call"]
<1>2. t \in Thread /\ t.pc = "call" /\ t.job = thread[i].job
  BY <1>1 DEF Thread, Steps
<1>3. thread' = [thread EXCEPT ![i] = t]
  BY DEF Task!FreeWrap
<1> HIDE DEF t
<1>. QED
  BY <1>1, <1>2, <1>3 DEF Others

LEMMA CallEffect ==
  ASSUME TaskInv, NEW i \in Ids, Task!CallJob(i)
  PROVE  /\ thread' \in [Ids -> Thread] /\ Others(i)
         /\ thread'[i].pc = "running" /\ thread'[i].job = thread[i].job
         /\ thread[i].pc = "call" /\ thread[i].job \in Jobs /\ runs[thread[i].job] = 0
         /\ runs' = [runs EXCEPT ![thread[i].job] = 1]
         /\ UNCHANGED <<port, wraps, content, create, id_of, killed>>
<1>1. thread \in [Ids -> Thread]
  BY DEF TaskInv, TaskTypes
<1>2. "running" \in Steps /\ NoWrap \in Wraps \cup {NoWrap}
  BY DEF Steps
<1>3. /\ thread[i].pc = "call" /\ runs' = [runs EXCEPT ![thread[i].job] = @ + 1]
      /\ UNCHANGED <<port, wraps, content, create, id_of, killed>>
  BY Zenon DEF Task!CallJob
<1>8. thread[i].job \in Jobs /\ runs[thread[i].job] = 0
  BY <1>3 DEF TaskInv, OneThreadEach, JobOf
<1>9. runs' = [runs EXCEPT ![thread[i].job] = 1]
  BY <1>3, <1>8
<1> DEFINE r == thread[i]
           s == [r EXCEPT !.pc = "running"]
           t == [s EXCEPT !.wrap = NoWrap]
<1>4. thread' = [thread EXCEPT ![i] = [r EXCEPT !.pc = "running", !.wrap = NoWrap]]
  BY Zenon DEF Task!CallJob
<1>5. [r EXCEPT !.pc = "running", !.wrap = NoWrap] = t
  BY Zenon
<1>6. s \in Thread /\ s.pc = "running" /\ s.job = r.job
  BY <1>1, <1>2 DEF Thread
<1> HIDE DEF s
<1>7. t \in Thread /\ t.pc = "running" /\ t.job = r.job
  BY <1>2, <1>6 DEF Thread
<1> HIDE DEF t
<1>. QED
  BY <1>1, <1>3, <1>4, <1>5, <1>7, <1>8, <1>9 DEF Others

LEMMA EndEffect ==
  ASSUME TaskInv, NEW i \in Ids, thread' = [thread EXCEPT ![i] = Task!NoTask]
  PROVE  /\ thread' \in [Ids -> Thread] /\ Others(i)
         /\ thread'[i].pc = "none" /\ thread'[i].job = NoJob
<1>1. thread \in [Ids -> Thread]
  BY DEF TaskInv, TaskTypes
<1>2. Task!NoTask \in Thread /\ Task!NoTask.pc = "none" /\ Task!NoTask.job = NoJob
  BY DEF Task!NoTask, Thread, Steps
<1>. QED
  BY <1>1, <1>2 DEF Others

LEMMA CancelEffect ==
  ASSUME TaskInv, NEW i \in Ids, thread' = [thread EXCEPT ![i].cancelled = TRUE]
  PROVE  /\ thread' \in [Ids -> Thread]
         /\ \A k \in Ids : /\ thread'[k].pc = thread[k].pc /\ thread'[k].job = thread[k].job
                           /\ thread'[k].wrap = thread[k].wrap
<1>1. thread \in [Ids -> Thread]
  BY DEF TaskInv, TaskTypes
<1> DEFINE t == [thread[i] EXCEPT !.cancelled = TRUE]
<1>2. t \in Thread /\ t.pc = thread[i].pc /\ t.job = thread[i].job /\ t.wrap = thread[i].wrap
  BY <1>1 DEF Thread
<1>3. thread' = [thread EXCEPT ![i] = t]
  OBVIOUS
<1> HIDE DEF t
<1>. QED
  BY <1>1, <1>2, <1>3

(* A thread is started with the wrapper or, without one, with the job.     *)
LEMMA SpawnEffect ==
  ASSUME TaskInv, NEW i \in Ids, thread[i] = Task!NoTask,
         thread' = [thread EXCEPT ![i] =
               IF create.wrap = NoWrap
               THEN [Task!NoTask EXCEPT !.pc = "call", !.job = create.job]
               ELSE [Task!NoTask EXCEPT !.pc = "wrapper", !.wrap = create.wrap]]
  PROVE  /\ thread' \in [Ids -> Thread] /\ Others(i)
         /\ IF create.wrap = NoWrap
            THEN thread'[i].pc = "call" /\ thread'[i].job = create.job
            ELSE /\ thread'[i].pc = "wrapper" /\ thread'[i].job = NoJob
                 /\ thread'[i].wrap = create.wrap
<1>1. thread \in [Ids -> Thread] /\ create.job \in Jobs \cup {NoJob}
      /\ create.wrap \in Wraps \cup {NoWrap}
  BY DEF TaskInv, TaskTypes, Creation
<1> DEFINE c == [Task!NoTask EXCEPT !.pc = "call", !.job = create.job]
           w == [Task!NoTask EXCEPT !.pc = "wrapper", !.wrap = create.wrap]
<1>2. c \in Thread /\ c.pc = "call" /\ c.job = create.job
  BY <1>1 DEF Thread, Steps, Task!NoTask
<1>3. w \in Thread /\ w.pc = "wrapper" /\ w.job = NoJob /\ w.wrap = create.wrap
  BY <1>1 DEF Thread, Steps, Task!NoTask
<1> HIDE DEF c, w
<1>4. CASE create.wrap = NoWrap
  <2>1. thread' = [thread EXCEPT ![i] = c]
    BY <1>4 DEF c
  <2>. QED
    BY <1>1, <1>2, <1>4, <2>1 DEF Others
<1>5. CASE create.wrap # NoWrap
  <2>1. thread' = [thread EXCEPT ![i] = w]
    BY <1>5 DEF w
  <2>. QED
    BY <1>1, <1>3, <1>5, <2>1 DEF Others
<1>. QED
  BY <1>4, <1>5

LEMMA TaskInvStep ==
  ASSUME Task!OsalTaskAssumption
  PROVE  TaskInv /\ [Task!Next]_Task!vars => TaskInv'
<1> SUFFICES ASSUME TaskInv, [Task!Next]_Task!vars
             PROVE  TaskInv'
  OBVIOUS
<1>1. TaskTypes /\ OneThreadEach
  BY DEF TaskInv
<1>2. ASSUME NEW i \in Ids, Task!ReadWrap(i)
      PROVE  TaskInv'
  <2>1. TaskTypes'
    BY <1>1, <1>2, ReadEffect DEF TaskTypes
  <2>2. \A k \in Ids : /\ JobOf(k)' = JobOf(k) /\ (Holds(k)' <=> Holds(k))
                       /\ thread'[k].wrap = thread[k].wrap
    BY <1>2, ReadEffect DEF JobOf, Holds, Others
  <2>3. OneThreadEach'
    BY <1>1, <1>2, <2>2, ReadEffect DEF OneThreadEach, Creator, Others
  <2>. QED
    BY <1>2, <2>1, <2>2, <2>3, ReadEffect DEF TaskInv, Creator, Unstarted
<1>3. ASSUME NEW i \in Ids, Task!FreeWrap(i)
      PROVE  TaskInv'
  <2>1. TaskTypes'
    BY <1>1, <1>3, FreeEffect DEF TaskTypes, Task!FreeWrap
  <2>2. /\ \A k \in Ids : JobOf(k)' = JobOf(k)
        /\ ~ Holds(i)' /\ Holds(i)
        /\ \A k \in Ids \ {i} : (Holds(k)' <=> Holds(k)) /\ thread'[k].wrap = thread[k].wrap
    BY <1>3, FreeEffect DEF JobOf, Holds, Others, Task!FreeWrap
  <2>3. OneThreadEach'
    BY <1>1, <1>3, <2>2, FreeEffect DEF OneThreadEach, Task!FreeWrap, Creator, Others
  <2>. QED
    BY <1>1, <1>3, <2>1, <2>2, <2>3 DEF TaskInv, OneThreadEach, Task!FreeWrap, Creator, Unstarted
<1>4. ASSUME NEW i \in Ids, Task!CallJob(i)
      PROVE  TaskInv'
  <2> DEFINE job == thread[i].job
  <2>1. job \in Jobs /\ runs[job] = 0 /\ JobOf(i) = job
    BY <1>4, CallEffect DEF JobOf
  <2>2. runs' = [runs EXCEPT ![job] = 1]
    BY <1>4, CallEffect
  <2>3. TaskTypes'
    BY <1>1, <1>4, <2>1, <2>2, CallEffect DEF TaskTypes
  <2>4. /\ \A k \in Ids : JobOf(k)' = JobOf(k) /\ (Holds(k)' <=> Holds(k))
        /\ \A k \in Ids \ {i} : thread'[k].wrap = thread[k].wrap
        /\ ~ Holds(i)
    BY <1>4, CallEffect DEF JobOf, Holds, Others
  <2>5. \A j \in Jobs : j # job => runs'[j] = runs[j]
    BY <1>1, <2>1, <2>2 DEF TaskTypes
  <2>6. OneThreadEach'
    BY <1>1, <1>4, <2>1, <2>4, <2>5, CallEffect DEF OneThreadEach, Creator, Others
  <2>7. ~ Unstarted(job)
    BY <2>1 DEF TaskInv
  <2> HIDE DEF job
  <2>. QED
    BY <1>4, <2>3, <2>4, <2>5, <2>6, <2>7, CallEffect DEF TaskInv, Creator, Unstarted
(* A thread ends; FreeRTOS may leave its wrapper behind.                   *)
<1>5. ASSUME NEW i \in Ids, thread' = [thread EXCEPT ![i] = Task!NoTask],
             UNCHANGED <<port, wraps, content, create, id_of, runs>>,
             killed' = killed \cup (IF Holds(i) THEN {thread[i].wrap} ELSE {}),
             Holds(i) => port # "posix"
      PROVE  TaskInv'
  <2>1. TaskTypes'
    BY <1>1, <1>5, EndEffect DEF TaskTypes, OneThreadEach
  <2>2. /\ \A k \in Ids \ {i} : /\ JobOf(k)' = JobOf(k) /\ (Holds(k)' <=> Holds(k))
                                /\ thread'[k] = thread[k]
        /\ ~ Holds(i)' /\ JobOf(i)' = NoJob /\ thread'[i].job = NoJob /\ thread'[i].pc = "none"
    BY <1>5, EndEffect DEF JobOf, Holds, Others
  <2>3. NoJob \notin Jobs
    BY DEF Task!OsalTaskAssumption
  <2>4. OneThreadEach'
    BY <1>1, <1>5, <2>2, <2>3 DEF OneThreadEach, Creator
  <2>. QED
    BY <1>1, <1>5, <2>1, <2>2, <2>3, <2>4 DEF TaskInv, OneThreadEach, Creator, Unstarted
<1>6. ASSUME NEW i \in Ids, Task!Exit(i)
      PROVE  TaskInv'
  BY <1>5, <1>6 DEF Task!Exit, Holds
<1>7. ASSUME NEW j \in Jobs, Task!Destroy(j)
      PROVE  TaskInv'
  <2> DEFINE i == id_of[j]
  <2>1. i \in Ids /\ UNCHANGED <<port, wraps, content, create, id_of, runs>>
    BY <1>7 DEF Task!Destroy
  <2>2. CASE port = "freertos" /\ thread' = [thread EXCEPT ![i] = Task!NoTask]
             /\ killed' = IF Holds(i) THEN killed \cup {thread[i].wrap} ELSE killed
    BY <1>5, <2>1, <2>2
  <2>3. CASE thread' = [thread EXCEPT ![i].cancelled = TRUE] /\ UNCHANGED killed
    <3>1. \A k \in Ids : JobOf(k)' = JobOf(k) /\ (Holds(k)' <=> Holds(k))
                         /\ thread'[k].wrap = thread[k].wrap /\ thread'[k].job = thread[k].job
                         /\ thread'[k].pc = thread[k].pc
      BY <2>1, <2>3, CancelEffect DEF JobOf, Holds
    <3>2. TaskTypes'
      BY <1>1, <2>1, <2>3, CancelEffect DEF TaskTypes
    <3>3. OneThreadEach'
      BY <1>1, <2>1, <2>3, <3>1 DEF OneThreadEach, Creator
    <3>. QED
      BY <2>1, <2>3, <3>1, <3>2, <3>3 DEF TaskInv, Creator, Unstarted
  <2>. QED
    BY <1>7, <2>2, <2>3, Zenon DEF Task!Destroy, Holds
(* The steps of osal_task_create that start no thread.                     *)
<1>8. ASSUME UNCHANGED <<content, thread, runs>>
      PROVE  \A k \in Ids : /\ JobOf(k)' = JobOf(k) /\ (Holds(k)' <=> Holds(k))
                            /\ thread'[k] = thread[k]
  BY <1>8 DEF JobOf, Holds
<1>9. ASSUME NEW j \in Jobs, Task!CreateCall(j)
      PROVE  TaskInv'
  <2>1. create.job = NoJob /\ id_of[j] = "new" /\ create.pc = "idle"
    BY <1>9 DEF Task!CreateCall, Task!Idle
  <2>2. CASE create' = [Task!Idle EXCEPT !.pc = "alloc", !.job = j] /\ UNCHANGED id_of
    <3>1. /\ create'.pc = "alloc" /\ create'.job = j /\ create'.wrap = NoWrap
          /\ create' \in Creation
      BY <2>2 DEF Task!Idle, Creation
    <3>2. UNCHANGED <<port, wraps, content, id_of, thread, runs, killed>>
      BY <1>9, <2>2, Zenon DEF Task!CreateCall
    <3>3. TaskTypes' /\ OneThreadEach'
      BY <1>1, <1>8, <2>1, <3>1, <3>2 DEF TaskTypes, OneThreadEach, Creator
    <3>4. ASSUME NEW l \in Jobs, Unstarted(l)'
          PROVE  Unstarted(l)
      BY <2>1, <3>1, <3>2, <3>4 DEF Unstarted, Task!OsalTaskAssumption
    <3>5. Creator' = {} /\ Creator = {}
      BY <2>1, <3>1 DEF Creator
    <3>. QED
      BY <1>8, <2>1, <3>1, <3>2, <3>3, <3>4, <3>5 DEF TaskInv
  <2>3. CASE id_of' = [id_of EXCEPT ![j] = NoId] /\ UNCHANGED create
    BY <1>1, <1>8, <1>9, <2>1, <2>3
       DEF TaskInv, TaskTypes, OneThreadEach, Creator, Unstarted, Task!CreateCall,
           Task!OsalTaskAssumption
  <2>. QED
    BY <1>9, <2>2, <2>3, Zenon DEF Task!CreateCall
<1>10. CASE Task!WrapJob
  <2>1. PICK w \in Wraps \ wraps :
          /\ wraps' = wraps \cup {w}
          /\ content' = [content EXCEPT ![w] = create.job]
          /\ create' = [create EXCEPT !.pc = "spawn", !.wrap = w]
    BY <1>10 DEF Task!WrapJob
  <2>2. create.pc = "alloc" /\ UNCHANGED <<port, id_of, thread, runs, killed>>
    BY <1>10 DEF Task!WrapJob
  <2>3. create'.pc = "spawn" /\ create'.wrap = w /\ create'.job = create.job
        /\ create' \in Creation
    BY <1>1, <2>1 DEF TaskTypes, Creation
  <2>4. TaskTypes' /\ \A v \in Wraps : v # w => content'[v] = content[v]
    BY <1>1, <2>1, <2>2, <2>3 DEF TaskTypes, TaskInv
  <2>5. \A k \in Ids : JobOf(k)' = JobOf(k) /\ (Holds(k)' <=> Holds(k))
    BY <1>1, <2>1, <2>2, <2>4 DEF JobOf, Holds, OneThreadEach, TaskTypes
  <2>6. w # NoWrap /\ content'[w] = create.job
    BY <1>1, <2>1 DEF Task!OsalTaskAssumption, TaskTypes
  <2>7. OneThreadEach'
    BY <1>1, <2>1, <2>2, <2>3, <2>5, <2>6 DEF OneThreadEach, Creator, TaskInv
  <2>. QED
    BY <2>1, <2>2, <2>3, <2>4, <2>5, <2>6, <2>7 DEF TaskInv, Creator, Unstarted
<1>11. CASE Task!WrapFails /\ port = "posix"
  <2>1. create' = [create EXCEPT !.pc = "spawn"] /\ create.pc = "alloc"
        /\ UNCHANGED <<port, wraps, content, id_of, thread, runs, killed>>
    BY <1>11 DEF Task!WrapFails
  <2>2. create'.pc = "spawn" /\ create'.wrap = create.wrap /\ create'.job = create.job
        /\ create' \in Creation
    BY <1>1, <2>1 DEF TaskTypes, Creation
  <2>. QED
    BY <1>1, <1>8, <2>1, <2>2 DEF TaskInv, TaskTypes, OneThreadEach, Creator, Unstarted
(* A creation returns.                                                     *)
<1>12. ASSUME NEW r, Task!Return(r), create.pc # "idle",
              r = NoId => create.pc \in {"alloc", "spawn"},
              r = NoId \/ r \in Ids,
              UNCHANGED <<port, content, thread, runs, killed>>,
              wraps' = wraps \ Creator
       PROVE  TaskInv'
  <2>1. create'.pc = "idle" /\ create'.job = NoJob /\ create' \in Creation
    BY <1>12 DEF Task!Return, Task!Idle, Creation
  <2>2. create.job \in Jobs /\ id_of' = [id_of EXCEPT ![create.job] = r]
    BY <1>12 DEF TaskInv, Task!Return
  <2>3. TaskTypes'
    BY <1>1, <1>12, <2>1, <2>2 DEF TaskTypes
  <2>4. OneThreadEach'
    BY <1>1, <1>8, <1>12, <2>1 DEF OneThreadEach, Creator
  <2>5. \A j \in Jobs : Unstarted(j)' => Unstarted(j)
    BY <1>1, <1>12, <2>1, <2>2 DEF Unstarted, TaskInv, TaskTypes, Task!OsalTaskAssumption
  <2>. QED
    BY <1>1, <1>8, <1>12, <2>1, <2>2, <2>3, <2>4, <2>5 DEF TaskInv, Creator, Task!OsalTaskAssumption
<1>13. CASE Task!WrapFails /\ port # "posix"
  BY <1>12, <1>13 DEF Task!WrapFails, Creator
<1>14. CASE Task!SpawnFails
  <2>1. create.wrap = NoWrap => create.wrap \notin wraps
    BY <1>1 DEF TaskTypes, Task!OsalTaskAssumption
  <2>. QED
    BY <1>12, <1>14, <2>1 DEF Task!SpawnFails, Creator
<1>15. CASE Task!CreateReturn
  <2>1. create.pc \notin {"idle", "alloc", "spawn"} /\ create.pc # NoId
    BY <1>15 DEF Task!CreateReturn, Task!OsalTaskAssumption
  <2>. QED
    BY <1>12, <1>15, <2>1 DEF Task!CreateReturn, Creator
<1>16. CASE Task!Spawn
  <2>1. PICK i \in Ids : thread[i] = Task!NoTask /\ thread' = [thread EXCEPT ![i] =
               IF create.wrap = NoWrap
               THEN [Task!NoTask EXCEPT !.pc = "call", !.job = create.job]
               ELSE [Task!NoTask EXCEPT !.pc = "wrapper", !.wrap = create.wrap]]
          /\ create' = [create EXCEPT !.pc = i]
    BY <1>16, Zenon DEF Task!Spawn
  <2>2. create.pc = "spawn" /\ UNCHANGED <<port, wraps, content, id_of, runs, killed>>
    BY <1>16, Zenon DEF Task!Spawn
  <2>3. /\ thread' \in [Ids -> Thread] /\ Others(i)
        /\ IF create.wrap = NoWrap
           THEN thread'[i].pc = "call" /\ thread'[i].job = create.job
           ELSE /\ thread'[i].pc = "wrapper" /\ thread'[i].job = NoJob
                /\ thread'[i].wrap = create.wrap
    BY <2>1, SpawnEffect
  <2>4. create'.pc = i /\ create'.wrap = create.wrap /\ create'.job = create.job
        /\ create' \in Creation
    BY <1>1, <2>1 DEF TaskTypes, Creation
  <2>5. i \notin {"idle", "alloc", "spawn"} /\ NoJob \notin Jobs
    BY DEF Task!OsalTaskAssumption
  <2>6. TaskTypes'
    BY <1>1, <2>2, <2>3, <2>4 DEF TaskTypes
  <2>7. ~ Holds(i) /\ JobOf(i) = NoJob
    BY <2>1 DEF Holds, JobOf, Task!NoTask
  <2>8. \A k \in Ids \ {i} : /\ JobOf(k)' = JobOf(k) /\ (Holds(k)' <=> Holds(k))
                             /\ thread'[k] = thread[k]
    BY <2>2, <2>3 DEF JobOf, Holds, Others
  <2>9. /\ JobOf(i)' = create.job /\ create.job \in Jobs /\ runs[create.job] = 0
        /\ \A k \in Ids : JobOf(k) # create.job
        /\ Creator' = {}
        /\ IF create.wrap = NoWrap THEN Creator = {} /\ ~ Holds(i)'
           ELSE Creator = {create.wrap} /\ Holds(i)' /\ thread'[i].wrap = create.wrap
    BY <2>2, <2>3, <2>4, <2>5 DEF JobOf, Holds, Creator, TaskInv, Unstarted
  <2>10. \A k \in Ids : Holds(k)' => thread'[k].wrap \in wraps \ killed
    BY <1>1, <2>2, <2>8, <2>9 DEF OneThreadEach, TaskInv
  <2>11. \A k, l \in Ids : Holds(k)' /\ Holds(l)' /\ thread'[k].wrap = thread'[l].wrap => k = l
    BY <1>1, <2>8, <2>9 DEF OneThreadEach
  <2>12. \A k \in Ids : thread'[k].pc \in {"none", "wrapper"} => thread'[k].job = NoJob
    BY <1>1, <2>3, <2>8 DEF OneThreadEach
  <2>13. \A k \in Ids : thread'[k].pc \in {"wrapper", "read", "call"} =>
           JobOf(k)' \in Jobs /\ runs'[JobOf(k)'] = 0
    BY <1>1, <2>2, <2>8, <2>9 DEF OneThreadEach
  <2>14. \A k, l \in Ids : JobOf(k)' \in Jobs /\ JobOf(k)' = JobOf(l)' => k = l
    BY <1>1, <2>8, <2>9 DEF OneThreadEach
  <2>15. OneThreadEach'
    BY <2>2, <2>9, <2>10, <2>11, <2>12, <2>13, <2>14 DEF OneThreadEach
  <2>16. wraps' \subseteq Creator' \cup killed' \cup
           {thread'[k].wrap : k \in {l \in Ids : Holds(l)'}}
    BY <2>2, <2>7, <2>8, <2>9 DEF TaskInv
  <2>17. ASSUME NEW j \in Jobs, Unstarted(j)'
         PROVE  runs'[j] = 0 /\ \A k \in Ids : JobOf(k)' # j
    <3>1. j # create.job
      BY <2>2, <2>4, <2>5, <2>9, <2>17 DEF Unstarted, TaskInv, Task!OsalTaskAssumption
    <3>2. Unstarted(j)
      BY <2>2, <2>4, <2>17, <3>1 DEF Unstarted
    <3>. QED
      BY <2>2, <2>8, <2>9, <3>1, <3>2 DEF TaskInv
  <2>. QED
    BY <2>2, <2>4, <2>5, <2>6, <2>9, <2>15, <2>16, <2>17 DEF TaskInv
<1>17. CASE UNCHANGED Task!vars
  BY <1>1, <1>8, <1>17 DEF Task!vars, TaskInv, TaskTypes, OneThreadEach, Creator, Unstarted
<1>. QED
  BY <1>2, <1>3, <1>4, <1>6, <1>7, <1>9, <1>10, <1>11, <1>13, <1>14, <1>15, <1>16, <1>17
     DEF Task!Next

(* The instance has a name of its own for the number of elements.          *)
LEMMA TaskCardinality ==
  ASSUME NEW S
  PROVE  Task!Cardinality(S) = Cardinality(S)
BY Zenon DEF Task!Cardinality, Cardinality

(* A set in which any two are the same has at most one element.            *)
LEMMA AtMostOne ==
  ASSUME NEW S, \A x, y \in S : x = y
  PROVE  Cardinality(S) \in {0, 1} /\ (Cardinality(S) = 1 => S # {})
<1>1. CASE S = {}
  BY <1>1, FS_EmptySet
<1>2. ASSUME NEW x \in S
      PROVE  Cardinality(S) = 1
  <2>1. S = {x}
    BY <1>2
  <2>. QED
    BY <2>1, FS_Singleton
<1>. QED
  BY <1>1, <1>2

(* Wrappers have one owner, and jobs run once and as they were created.    *)
THEOREM WrapsOwnedHolds ==
  ASSUME Task!OsalTaskAssumption
  PROVE  Task!Spec => []WrapsOwned
<1>1. ASSUME TaskInv
      PROVE  Task!WrapsOwned
  <2> DEFINE holders(w) == {i \in Ids : thread[i].wrap = w /\ thread[i].pc \in {"wrapper", "read"}}
  <2>1. wraps = Creator \cup killed \cup {w \in Wraps : holders(w) # {}}
    BY <1>1 DEF TaskInv, TaskTypes, OneThreadEach, Holds
  <2>2. ASSUME NEW w \in Wraps
        PROVE  Cardinality(holders(w)) + Cardinality({w} \cap Creator) <= 1
    <3>1. \A x, y \in holders(w) : x = y
      BY <1>1 DEF TaskInv, OneThreadEach, Holds
    <3>2. \A x, y \in {w} \cap Creator : x = y
      OBVIOUS
    <3>3. holders(w) # {} => {w} \cap Creator = {}
      BY <1>1 DEF TaskInv, OneThreadEach, Holds
    <3> HIDE DEF holders
    <3>. QED
      BY <3>1, <3>2, <3>3, AtMostOne
  <2>. QED
    BY <1>1, <2>1, <2>2, TaskCardinality DEF TaskInv, Creator, Task!WrapsOwned
<1>2. ASSUME TaskInv
      PROVE  Task!RunsAsCreated
  <2> SUFFICES ASSUME NEW j \in Jobs
               PROVE  /\ runs[j] <= 1
                      /\ id_of[j] = NoId => runs[j] = 0
                      /\ Cardinality({i \in Ids : thread[i].job = j}) <= 1
    BY TaskCardinality DEF Task!RunsAsCreated
  <2>1. runs[j] \in 0 .. 1 /\ (id_of[j] = NoId => runs[j] = 0)
    BY <1>2 DEF TaskInv, TaskTypes, Unstarted
  <2> DEFINE S == {i \in Ids : thread[i].job = j}
  <2>2. \A x, y \in S : x = y
    <3>1. \A x \in S : JobOf(x) = j
      BY <1>2 DEF TaskInv, OneThreadEach, JobOf, Task!OsalTaskAssumption
    <3>. QED
      BY <1>2, <3>1 DEF TaskInv, OneThreadEach
  <2> HIDE DEF S
  <2>3. Cardinality(S) \in {0, 1}
    BY <2>2, AtMostOne
  <2>. QED
    BY <2>1, <2>3 DEF S
<1>. QED
  BY <1>1, <1>2, TaskInvInit, TaskInvStep, PTL DEF Task!Spec, WrapsOwned

---------------------------------------------------------------------------
(* Semaphores.  All that is hard about them is the arithmetic of deadlines. *)

(* What is left of a number by a division, and how often it goes into it. *)
LEMMA DivMod ==
  ASSUME NEW n \in Nat, NEW d \in Nat \ {0}
  PROVE  /\ n \div d \in Nat
         /\ n % d \in 0 .. d - 1
         /\ n = (n \div d) * d + (n % d)
<1>1. n \div d \in Int /\ n % d \in 0 .. d - 1 /\ n = d * (n \div d) + (n % d)
  OBVIOUS
<1>2. ASSUME NEW q \in Int, NEW r \in 0 .. d - 1, n = d * q + r
      PROVE  q \in Nat /\ n = q * d + r
  <2>1. CASE q < 0
    <3>1. d * q <= d * (-1)
      BY <2>1
    <3>. QED
      BY <1>2, <3>1
  <2>. QED
    BY <1>2, <2>1
<1>. QED
  BY <1>1, <1>2

(* The deadline of a wait is that many milliseconds after the clock, and a *)
(* time: its microseconds are less than a second, after one carry.         *)
LEMMA DeadlineExact ==
  ASSUME Sem!OsalSemAssumption, now \in Nat, NEW ms \in Timeouts
  PROVE  LET d == Sem!CalcTimedwait(ms)
         IN  /\ d.sec \in Nat /\ d.us \in Nat
             /\ d.us < Sem!UsPerSec
             /\ d.sec * Sem!UsPerSec + d.us = now + ms * UsPerMs
<1> DEFINE S == Sem!UsPerSec
           q == now \div S
           r == now % S
           a == ms \div MsPerSec
           b == ms % MsPerSec
<1>1. UsPerMs \in Nat \ {0} /\ MsPerSec \in Nat \ {0} /\ ms \in Nat
  BY DEF Sem!OsalSemAssumption
<1>2. S = UsPerMs * MsPerSec /\ S \in Nat \ {0}
  BY <1>1 DEF Sem!UsPerSec
<1>3. q \in Nat /\ r \in 0 .. S - 1 /\ now = q * S + r
  <2> HIDE DEF S
  <2>. QED
    BY <1>2, DivMod
<1>4. a \in Nat /\ b \in 0 .. MsPerSec - 1 /\ ms = a * MsPerSec + b
  BY <1>1, DivMod
<1> DEFINE us == (now % Sem!UsPerSec) + (ms % MsPerSec) * UsPerMs
           sec == (now \div Sem!UsPerSec) + (ms \div MsPerSec)
<1>5. Sem!CalcTimedwait(ms) =
        IF us >= S THEN [sec |-> sec + 1, us |-> us - S] ELSE [sec |-> sec, us |-> us]
  BY Zenon DEF Sem!CalcTimedwait
<1> HIDE DEF S, q, r, a, b
<1>6. b * UsPerMs \in Nat /\ b * UsPerMs <= S - UsPerMs
  <2>1. b + 1 <= MsPerSec
    BY <1>1, <1>4
  <2>2. (b + 1) * UsPerMs <= MsPerSec * UsPerMs
    BY <1>1, <1>4, <2>1
  <2>. QED
    BY <1>1, <1>2, <1>4, <2>2
<1>7. ms * UsPerMs = a * S + b * UsPerMs
  BY <1>1, <1>2, <1>4
<1>8. (q + a) * S = q * S + a * S /\ (q + a + 1) * S = q * S + a * S + S
      /\ q * S \in Nat /\ a * S \in Nat
  BY <1>2, <1>3, <1>4
<1>9. CASE r + b * UsPerMs >= S
  BY <1>1, <1>2, <1>3, <1>4, <1>5, <1>6, <1>7, <1>8, <1>9 DEF S
<1>10. CASE ~ (r + b * UsPerMs >= S)
  BY <1>1, <1>2, <1>3, <1>4, <1>5, <1>6, <1>7, <1>8, <1>10 DEF S
<1>. QED
  BY <1>9, <1>10

---------------------------------------------------------------------------
(* Who waits for the semaphore has a deadline that is exact and a time.    *)
OnTime(w) ==
    /\ w.sec \in Nat /\ w.us \in Nat
    /\ w.us < Sem!UsPerSec
    /\ w.sec * Sem!UsPerSec + w.us = w.since + w.ms * UsPerMs

InTime(r) == r.ret # "INVAL" /\ (r.ret = "TIMEDOUT" => r.took >= r.ms * UsPerMs)

SemInv ==
    /\ now \in Nat
    /\ DOMAIN sem_wait = Threads /\ DOMAIN result = Threads
    /\ \A t \in Threads :
         /\ sem_wait[t].since \in Nat
         /\ sem_wait[t].on = "sem" /\ sem_wait[t].ms \in Timeouts => OnTime(sem_wait[t])
         /\ InTime(result[t])

LEMMA SemInvInit == Sem!Init => SemInv
BY DEF Sem!Init, SemInv, Sem!NotWaiting, Sem!NoResult, InTime

LEMMA SemInvStep ==
  ASSUME Sem!OsalSemAssumption
  PROVE  SemInv /\ [Sem!Next]_Sem!vars => SemInv'
<1> SUFFICES ASSUME SemInv, [Sem!Next]_Sem!vars
             PROVE  SemInv'
  OBVIOUS
<1>1. Timeouts \subseteq Nat /\ UsPerMs \in Nat \ {0} /\ MsPerSec \in Nat \ {0}
  BY DEF Sem!OsalSemAssumption
<1>2. ASSUME NEW t \in Threads, NEW on, NEW ms, NEW d, Sem!Calls(t, on, ms, d),
             on = "sem" /\ ms \in Timeouts => d = Sem!CalcTimedwait(ms)
      PROVE  SemInv'
  <2> DEFINE w == [on |-> on, ms |-> ms, since |-> now, sec |-> d.sec, us |-> d.us]
  <2>1. /\ now' = now
        /\ sem_wait' = [sem_wait EXCEPT ![t] = w] /\ result' = [result EXCEPT ![t] = Sem!NoResult]
    BY <1>2 DEF Sem!Calls
  <2>2. w.on = "sem" /\ w.ms \in Timeouts => OnTime(w)
    BY <1>2, DeadlineExact DEF SemInv, OnTime
  <2>3. w.since \in Nat /\ InTime(Sem!NoResult)
    BY DEF SemInv, Sem!NoResult, InTime
  <2> HIDE DEF w
  <2>. QED
    BY <2>1, <2>2, <2>3 DEF SemInv
<1>3. ASSUME NEW t \in Threads, NEW outcome, Sem!Ends(t, outcome), now' = now,
             outcome # "INVAL",
             outcome = "TIMEDOUT" => now - sem_wait[t].since >= sem_wait[t].ms * UsPerMs
      PROVE  SemInv'
  <2> DEFINE r == [ret |-> outcome, ms |-> sem_wait[t].ms, took |-> now - sem_wait[t].since]
  <2>1. /\ sem_wait' = [sem_wait EXCEPT ![t] = Sem!NotWaiting]
        /\ result' = [result EXCEPT ![t] = r]
    BY <1>3 DEF Sem!Ends
  <2>2. Sem!NotWaiting.since \in Nat /\ Sem!NotWaiting.on # "sem"
    BY DEF Sem!NotWaiting
  <2>3. InTime(r)
    BY <1>3 DEF InTime
  <2> HIDE DEF r
  <2>. QED
    BY <1>3, <2>1, <2>2, <2>3 DEF SemInv
<1>4. CASE Sem!Tick
  BY <1>4 DEF Sem!Tick, SemInv
<1>5. ASSUME NEW t \in Threads, Sem!SemWait(t)
      PROVE  SemInv'
  BY <1>2, <1>5 DEF Sem!SemWait
<1>6. ASSUME NEW t \in Threads, Sem!SemTaken(t)
      PROVE  SemInv'
  BY <1>3, <1>6 DEF Sem!SemTaken
<1>7. ASSUME NEW t \in Threads, Sem!SemBusy(t)
      PROVE  SemInv'
  BY <1>3, <1>7 DEF Sem!SemBusy
<1>8. ASSUME NEW t \in Threads, Sem!SemTimedOut(t)
      PROVE  SemInv'
  <2>1. OnTime(sem_wait[t]) /\ sem_wait[t].since \in Nat /\ sem_wait[t].ms \in Nat /\ now \in Nat
    BY <1>1, <1>8 DEF Sem!SemTimedOut, SemInv
  <2>2. /\ sem_wait[t].sec * Sem!UsPerSec + sem_wait[t].us <= now
        /\ Sem!Ends(t, "TIMEDOUT") /\ now' = now
    <3>1. ~ (sem_wait[t].us >= Sem!UsPerSec)
      BY <1>1, <2>1 DEF OnTime, Sem!UsPerSec
    <3>. QED
      BY <1>8, <3>1 DEF Sem!SemTimedOut
  <2>3. sem_wait[t].ms * UsPerMs \in Nat
    BY <1>1, <2>1
  <2>4. now - sem_wait[t].since >= sem_wait[t].ms * UsPerMs
    BY <2>1, <2>2, <2>3 DEF OnTime
  <2>. QED
    BY <1>3, <2>2, <2>4
<1>9. ASSUME NEW t \in Threads, Sem!SemInterrupted(t)
      PROVE  SemInv'
  BY <1>3, <1>9 DEF Sem!SemInterrupted
<1>10. ASSUME NEW t \in Threads, Sem!SemPost(t) \/ Sem!MutexUnlock(t)
       PROVE  SemInv'
  BY <1>10 DEF Sem!SemPost, Sem!MutexUnlock, SemInv
<1>11. ASSUME NEW t \in Threads, Sem!MutexLock(t)
       PROVE  SemInv'
  BY <1>2, <1>11 DEF Sem!MutexLock
<1>12. ASSUME NEW t \in Threads, Sem!MutexTaken(t)
       PROVE  SemInv'
  BY <1>3, <1>12 DEF Sem!MutexTaken
<1>13. ASSUME NEW t \in Threads, Sem!MutexTrylock(t)
       PROVE  SemInv'
  BY <1>13 DEF Sem!MutexTrylock, SemInv, Sem!NoResult, InTime
<1>14. CASE UNCHANGED Sem!vars
  BY <1>14 DEF Sem!vars, SemInv
<1>. QED
  BY <1>4, <1>5, <1>6, <1>7, <1>8, <1>9, <1>10, <1>11, <1>12, <1>13, <1>14 DEF Sem!Next

(* A wait never ends with TIMEDOUT early, nor with INVAL, and its deadline *)
(* is exact.                                                               *)
THEOREM TimeoutsExactHolds ==
  ASSUME Sem!OsalSemAssumption
  PROVE  Sem!Spec => []TimeoutsExact
<1>1. SemInv => TimeoutsExact
  BY DEF SemInv, InTime, OnTime, TimeoutsExact, Sem!TimeoutsExact
<1>. QED
  BY <1>1, SemInvInit, SemInvStep, PTL DEF Sem!Spec

---------------------------------------------------------------------------
(* Sockets.                                                                *)

(* A call of netx opens once, at its first step or after the look-up of an *)
(* address, and does only other things to the descriptor from there on.    *)
Openers == {"socket", "accept"}
OtherSteps == {"setsockopt", "fcntl", "bind", "listen", "connect"}
FdOps == {"netx_open", "netx_open_2", "netx_connect", "netx_accept"}

WillOpen(todo) == \E o \in Openers, rest \in Seq(OtherSteps) : todo = <<o>> \o rest
WillLookUp(todo) ==
    \E o \in Openers, rest \in Seq(OtherSteps) : todo = <<"getaddrinfo">> \o (<<o>> \o rest)

SockInv ==
    /\ owned \subseteq SocketFds
    /\ results \in {0, 1}
    /\ DOMAIN call = {"op", "todo", "fd", "family"}
    /\ call.fd \in (SocketFds \ owned) \cup {Sock!NoFd}
    /\ open = IF call.fd = Sock!NoFd THEN owned ELSE owned \cup {call.fd}
    /\ results = 1 => call.todo # <<>> /\ Sock!Step = "getaddrinfo"
    /\ \/ call = Sock!NoCall
       \/ /\ call.op \in FdOps \cup {"netx_get_local_ip"} /\ call.fd # Sock!NoFd
          /\ call.todo \in Seq(OtherSteps)
       \/ /\ call.op \in FdOps \cup {"netx_get_local_ip"} /\ call.fd = Sock!NoFd
          /\ WillOpen(call.todo)
       \/ call.op = "netx_open_2" /\ call.fd = Sock!NoFd /\ WillLookUp(call.todo)
       \/ call.op \in {"by_name", "by_interface"} /\ call.todo = <<>>
          /\ (call.op = "by_name" => call.fd = Sock!NoFd)
       \/ call.op = "by_string" /\ call.fd = Sock!NoFd /\ call.todo = <<"getaddrinfo">>

(* The parts of a call's steps. *)
LEMMA FirstStep ==
  ASSUME NEW S, NEW x, NEW s \in Seq(S)
  PROVE  /\ <<x>> \o s # <<>>
         /\ Head(<<x>> \o s) = x
         /\ Tail(<<x>> \o s) = s
<1>1. s \in Seq(S \cup {x}) /\ <<x>> \in Seq(S \cup {x})
  OBVIOUS
<1>2. <<x>> \o s \in Seq(S \cup {x}) /\ Len(<<x>> \o s) = Len(s) + 1 /\ Len(s) \in Nat
  BY <1>1
<1>3. Head(<<x>> \o s) = x
  BY <1>1, <1>2
<1>4. Tail(<<x>> \o s) = s
  BY <1>1
<1>. QED
  BY <1>2, <1>3, <1>4

LEMMA NextStep ==
  ASSUME NEW s \in Seq(OtherSteps), s # <<>>
  PROVE  Head(s) \in OtherSteps /\ Tail(s) \in Seq(OtherSteps)
OBVIOUS

(* The steps of each function of netx are of that form.                    *)
LEMMA StepsTyped ==
  /\ \A b1, b2, b3 \in BOOLEAN : WillOpen(Sock!OpenSteps(b1, b2, b3))
  /\ \A b1, b2, b3 \in BOOLEAN : WillLookUp(Sock!Open2Steps(b1, b2, b3))
  /\ \A b \in BOOLEAN : WillOpen(Sock!ConnectSteps(b))
  /\ WillOpen(Sock!AcceptSteps)
  /\ WillOpen(Sock!LocalIpSteps)
<1>1. ASSUME NEW b \in BOOLEAN, NEW x \in OtherSteps
      PROVE  Sock!Optional(b, x) \in Seq(OtherSteps)
  BY DEF Sock!Optional
<1>2. ASSUME NEW b1 \in BOOLEAN, NEW b2 \in BOOLEAN, NEW b3 \in BOOLEAN
      PROVE  \E rest \in Seq(OtherSteps) : Sock!OpenSteps(b1, b2, b3) = <<"socket">> \o rest
  <2> DEFINE r == Sock!Optional(b3, "setsockopt")
             f == <<"fcntl">>
             b == Sock!Optional(b2, "bind")
             l == Sock!Optional(b1, "listen")
             rest == r \o f \o b \o l
  <2>1. r \in Seq(OtherSteps) /\ f \in Seq(OtherSteps) /\ b \in Seq(OtherSteps)
        /\ l \in Seq(OtherSteps)
    BY <1>1 DEF OtherSteps
  <2>2. <<"socket">> \in Seq(OtherSteps \cup {"socket"})
    OBVIOUS
  <2>3. Sock!OpenSteps(b1, b2, b3) = <<"socket">> \o r \o f \o b \o l
    BY DEF Sock!OpenSteps
  <2> HIDE DEF r, f, b, l
  <2>4. <<"socket">> \o r \o f \o b \o l = <<"socket">> \o rest
    <3> DEFINE S == OtherSteps \cup {"socket"}
    <3>1. <<"socket">> \in Seq(S) /\ r \in Seq(S) /\ f \in Seq(S) /\ b \in Seq(S) /\ l \in Seq(S)
      BY <2>1, <2>2
    <3>2. r \o f \in Seq(S) /\ r \o f \o b \in Seq(S)
      BY <3>1
    <3> HIDE DEF S
    <3>3. ASSUME NEW t \in Seq(S), NEW u \in Seq(S)
          PROVE  <<"socket">> \o (t \o u) = (<<"socket">> \o t) \o u
      <4>1. <<"socket">> \in Seq(S)
        BY <3>1
      <4>. QED
        BY <4>1, ConcatAssociative
    <3>4. /\ <<"socket">> \o (r \o f) = (<<"socket">> \o r) \o f
          /\ <<"socket">> \o ((r \o f) \o b) = (<<"socket">> \o (r \o f)) \o b
          /\ <<"socket">> \o (((r \o f) \o b) \o l) = (<<"socket">> \o ((r \o f) \o b)) \o l
      BY <3>1, <3>2, <3>3, Zenon
    <3>. QED
      BY <3>4, Zenon
  <2>5. rest \in Seq(OtherSteps)
    BY <2>1
  <2>. QED
    BY <2>3, <2>4, <2>5
<1>3. ASSUME NEW b \in BOOLEAN
      PROVE  \E rest \in Seq(OtherSteps) : Sock!ConnectSteps(b) = <<"socket">> \o rest
  <2> DEFINE m == IF b THEN <<"setsockopt", "bind">> ELSE <<>>
             f == <<"fcntl">>
             c == <<"connect">>
             rest == f \o m \o c
  <2>1. f \in Seq(OtherSteps) /\ m \in Seq(OtherSteps) /\ c \in Seq(OtherSteps)
    <3>1. <<"setsockopt", "bind">> \in Seq(OtherSteps) /\ <<>> \in Seq(OtherSteps)
      BY DEF OtherSteps
    <3>2. f \in Seq(OtherSteps) /\ c \in Seq(OtherSteps)
      BY DEF OtherSteps
    <3>. QED
      BY <3>1, <3>2
  <2>2. <<"socket">> \in Seq(OtherSteps \cup {"socket"})
    OBVIOUS
  <2>3. Sock!ConnectSteps(b) = (<<"socket">> \o f) \o m \o c
    BY DEF Sock!ConnectSteps
  <2> HIDE DEF f, m, c
  <2>4. (<<"socket">> \o f) \o m \o c = <<"socket">> \o rest
    BY <2>1, <2>2
  <2>5. rest \in Seq(OtherSteps)
    BY <2>1
  <2>. QED
    BY <2>3, <2>4, <2>5
<1>4. <<"fcntl">> \in Seq(OtherSteps) /\ <<"fcntl", "connect">> \in Seq(OtherSteps)
  BY DEF OtherSteps
<1>5. Sock!AcceptSteps = <<"accept">> \o <<"fcntl">>
  BY DEF Sock!AcceptSteps
<1>6. Sock!LocalIpSteps = <<"socket">> \o <<"fcntl", "connect">>
  BY DEF Sock!LocalIpSteps
<1>7. "socket" \in Openers /\ "accept" \in Openers
  BY DEF Openers
<1>8. \A b1, b2, b3 \in BOOLEAN : WillOpen(Sock!OpenSteps(b1, b2, b3))
  BY <1>2, <1>7 DEF WillOpen
<1>9. \A b1, b2, b3 \in BOOLEAN : WillLookUp(Sock!Open2Steps(b1, b2, b3))
  <2> TAKE b1, b2, b3 \in BOOLEAN
  <2>1. PICK rest \in Seq(OtherSteps) : Sock!OpenSteps(b1, b2, b3) = <<"socket">> \o rest
    BY <1>2
  <2>2. Sock!Open2Steps(b1, b2, b3) = <<"getaddrinfo">> \o (<<"socket">> \o rest)
    BY <2>1, Zenon DEF Sock!Open2Steps
  <2>. QED
    BY <1>7, <2>2, Zenon DEF WillLookUp
<1>10. \A b \in BOOLEAN : WillOpen(Sock!ConnectSteps(b))
  BY <1>3, <1>7 DEF WillOpen
<1>11. WillOpen(Sock!AcceptSteps) /\ WillOpen(Sock!LocalIpSteps)
  BY <1>4, <1>5, <1>6, <1>7 DEF WillOpen
<1>. QED
  BY <1>8, <1>9, <1>10, <1>11

(* What the step is that a call is at.                                     *)
LEMMA AtOpener ==
  ASSUME NEW todo, WillOpen(todo)
  PROVE  todo # <<>> /\ Head(todo) \in Openers /\ Tail(todo) \in Seq(OtherSteps)
BY FirstStep DEF WillOpen

LEMMA AtLookUp ==
  ASSUME NEW todo, WillLookUp(todo)
  PROVE  todo # <<>> /\ Head(todo) = "getaddrinfo" /\ WillOpen(Tail(todo))
<1>1. PICK o \in Openers, rest \in Seq(OtherSteps) :
        todo = <<"getaddrinfo">> \o (<<o>> \o rest)
  BY DEF WillLookUp
<1>2. <<o>> \o rest \in Seq(OtherSteps \cup Openers)
  BY DEF Openers
<1>3. todo # <<>> /\ Head(todo) = "getaddrinfo" /\ Tail(todo) = <<o>> \o rest
  BY <1>1, <1>2, FirstStep, Zenon
<1>. QED
  BY <1>3, Zenon DEF WillOpen

LEMMA SockInvInit == Sock!Init => SockInv
BY DEF Sock!Init, SockInv, Sock!NoCall, Sock!NoFd

LEMMA SockInvStep ==
  ASSUME Sock!NetxSocketAssumption
  PROVE  SockInv /\ [Sock!Next]_Sock!vars => SockInv'
<1> SUFFICES ASSUME SockInv, [Sock!Next]_Sock!vars
             PROVE  SockInv'
  OBVIOUS
<1>1. Sock!NoFd \notin SocketFds
  BY DEF Sock!NoFd, Sock!NetxSocketAssumption
(* A call begins. *)
<1>2. ASSUME NEW op \in FdOps \cup {"netx_get_local_ip"}, NEW steps, Sock!Begin(op, steps),
             \/ WillOpen(steps)
             \/ op = "netx_open_2" /\ WillLookUp(steps)
      PROVE  SockInv'
  <2>1. /\ call'.op = op /\ call'.todo = steps /\ call'.fd = Sock!NoFd
        /\ DOMAIN call' = {"op", "todo", "fd", "family"}
    BY <1>2 DEF Sock!Begin, Sock!NoCall
  <2>2. call = Sock!NoCall /\ results = 0
    BY <1>2 DEF Sock!Begin, SockInv, Sock!NoCall
  <2>. QED
    BY <1>1, <1>2, <2>1, <2>2 DEF SockInv, Sock!Begin, Sock!NoCall, FdOps
<1>3. CASE Sock!NetxOpen \/ Sock!NetxConnect \/ Sock!NetxAccept \/ Sock!NetxGetLocalIp
           \/ Sock!NetxOpen2
  BY <1>2, <1>3, StepsTyped DEF FdOps, Sock!NetxOpen, Sock!NetxConnect, Sock!NetxAccept,
     Sock!NetxGetLocalIp, Sock!NetxOpen2
<1>4. CASE Sock!SockaddrByString
  BY <1>1, <1>4 DEF SockInv, Sock!SockaddrByString, Sock!NoCall
<1>5. CASE Sock!Refused \/ Sock!IfAddrs
  BY <1>5 DEF SockInv, Sock!Refused, Sock!IfAddrs, Sock!NoCall, Sock!Step
<1>6. ASSUME NEW fd \in SocketFds, Sock!Close(fd)
      PROVE  SockInv'
  BY <1>1, <1>6 DEF SockInv, Sock!Close, Sock!NoCall, Sock!Step
(* A call ends: its descriptor is closed, or returned.                     *)
<1>7. ASSUME call' = Sock!NoCall, results' = 0,
             \/ UNCHANGED owned /\ open' = open \ {call.fd}
             \/ call.fd # Sock!NoFd /\ owned' = owned \cup {call.fd} /\ open' = open
      PROVE  SockInv'
  <2>1. call'.fd = Sock!NoFd /\ DOMAIN call' = {"op", "todo", "fd", "family"}
    BY <1>7 DEF Sock!NoCall
  <2>2. owned' \subseteq SocketFds /\ open' = owned'
    BY <1>1, <1>7 DEF SockInv
  <2>. QED
    BY <1>7, <2>1, <2>2 DEF SockInv
<1>8. CASE Sock!ReturnFd
  <2>1. call.fd # Sock!NoFd /\ results = 0
    BY <1>8, AtOpener, AtLookUp DEF SockInv, Sock!ReturnFd, Sock!NoCall, FdOps
  <2>. QED
    BY <1>7, <1>8, <2>1 DEF Sock!ReturnFd, Sock!Return
<1>9. CASE Sock!Fails
  BY <1>7, <1>9 DEF SockInv, Sock!Fails, Sock!Return
<1>10. ASSUME NEW fd \in SocketFds, Sock!Opens(fd)
       PROVE  SockInv'
  <2>1. Sock!Step \in Openers
    BY <1>10 DEF Sock!Opens, Openers
  <2>2. /\ call.op \in FdOps \cup {"netx_get_local_ip"} /\ call.fd = Sock!NoFd
        /\ WillOpen(call.todo)
    BY <1>10, <2>1, NextStep, AtLookUp DEF SockInv, Sock!Opens, Sock!Step, Sock!NoCall, Openers,
       OtherSteps
  <2>3. Tail(call.todo) \in Seq(OtherSteps)
    BY <2>2, AtOpener
  <2>. QED
    BY <1>1, <1>10, <2>2, <2>3 DEF SockInv, Sock!Opens
<1>11. CASE Sock!Succeeds
  <2>1. Sock!Step \in OtherSteps /\ call.todo # <<>> /\ results = 0
    BY <1>11 DEF Sock!Succeeds, OtherSteps, SockInv
  <2>2. /\ call.op \in FdOps \cup {"netx_get_local_ip"} /\ call.fd # Sock!NoFd
        /\ call.todo \in Seq(OtherSteps)
    BY <1>11, <2>1, AtOpener, AtLookUp DEF SockInv, Sock!Step, Sock!NoCall, Openers, OtherSteps
  <2>3. Tail(call.todo) \in Seq(OtherSteps)
    BY <2>1, <2>2, NextStep
  <2>. QED
    BY <1>11, <2>1, <2>2, <2>3 DEF SockInv, Sock!Succeeds
<1>12. CASE Sock!LocalIpBySocket
  <2>1. results = 0
    BY <1>12, AtOpener, NextStep DEF SockInv, Sock!LocalIpBySocket, Sock!Step, Sock!NoCall,
       FdOps, Openers, OtherSteps
  <2>2. CASE call' = Sock!NoCall
    BY <1>7, <1>12, <2>1, <2>2 DEF Sock!LocalIpBySocket
  <2>3. CASE call' = [Sock!NoCall EXCEPT !.op = "by_name"]
    BY <1>1, <1>12, <2>1, <2>3 DEF SockInv, Sock!LocalIpBySocket, Sock!NoCall
  <2>. QED
    BY <1>12, <2>2, <2>3 DEF Sock!LocalIpBySocket, Sock!Return
<1>13. CASE Sock!LocalIpByName
  BY <1>1, <1>13 DEF SockInv, Sock!LocalIpByName, Sock!Return, Sock!NoCall, Sock!Step, FdOps
<1>14. CASE Sock!LocalIpSocket
  BY <1>1, <1>14 DEF SockInv, Sock!LocalIpSocket, Sock!Return, Sock!NoCall, Sock!Step, FdOps
<1>15. CASE Sock!LocalIpByInterface
  <2>1. results = 0
    BY <1>15, AtOpener DEF SockInv, Sock!LocalIpByInterface, Sock!Step, Sock!NoCall, FdOps
  <2>. QED
    BY <1>7, <1>15, <2>1 DEF Sock!LocalIpByInterface, Sock!Return
<1>16. CASE Sock!GetAddrinfo
  BY <1>16 DEF SockInv, Sock!GetAddrinfo, Sock!Step, Sock!NoCall
(* A look-up ends: the call does too, or goes on to open.                  *)
<1>17. ASSUME call.todo # <<>>, Sock!Step = "getaddrinfo", results' = 0,
              UNCHANGED <<open, owned>>, NEW f,
              IF call.op = "by_string" THEN call' = Sock!NoCall
              ELSE call' = [call EXCEPT !.todo = Tail(@), !.family = f]
       PROVE  SockInv'
  <2>1. call.fd = Sock!NoFd /\ (call.op = "by_string" \/
          (call.op = "netx_open_2" /\ WillLookUp(call.todo)))
    BY <1>17, NextStep, AtOpener DEF SockInv, Sock!Step, Sock!NoCall, Openers, OtherSteps
  <2>2. CASE call.op = "by_string"
    <3>1. open' = open \ {call.fd}
      BY <1>1, <1>17, <2>1 DEF SockInv
    <3>. QED
      BY <1>7, <1>17, <2>2, <3>1
  <2>3. CASE call.op # "by_string"
    <3>1. WillOpen(Tail(call.todo)) /\ call.op \in FdOps
      BY <2>1, <2>3, AtLookUp DEF FdOps
    <3>2. /\ call'.todo = Tail(call.todo) /\ call'.op = call.op /\ call'.fd = call.fd
          /\ DOMAIN call' = {"op", "todo", "fd", "family"}
      BY <1>17, <2>3 DEF SockInv
    <3>. QED
      BY <1>17, <2>1, <3>1, <3>2 DEF SockInv
  <2>. QED
    BY <2>2, <2>3
<1>18. CASE Sock!GetAddrinfoFails \/ Sock!UseAddrinfo
  BY <1>17, <1>18 DEF Sock!GetAddrinfoFails, Sock!UseAddrinfo, Sock!Return
<1>19. CASE UNCHANGED Sock!vars
  BY <1>19 DEF SockInv, Sock!vars, Sock!Step
<1>. QED
  BY <1>3, <1>4, <1>5, <1>6, <1>8, <1>9, <1>10, <1>11, <1>12, <1>13, <1>14, <1>15, <1>16,
     <1>18, <1>19 DEF Sock!Next

(* netx leaves nothing open or allocated that it did not return.           *)
THEOREM NothingLostHolds ==
  ASSUME Sock!NetxSocketAssumption
  PROVE  Sock!Spec => []NothingLost
<1>1. SockInv => NothingLost
  BY DEF SockInv, NothingLost, Sock!NothingLost, Sock!NoCall
<1>. QED
  BY <1>1, SockInvInit, SockInvStep, PTL DEF Sock!Spec

LEMMA ResultsStep ==
  ASSUME Sock!NetxSocketAssumption, SockInv, Sock!Next,
         call' = Sock!NoCall
  PROVE  /\ call.op \in FdOps /\ last'.value >= 0 => last'.value \in open' \ owned
         /\ call.op \in {"netx_get_local_ip", "by_name", "by_interface"}
              => (last'.value = 0 <=> last'.addr # "none")
<1> USE DEF Sock!Return, Sock!NoCall, FdOps
<1>1. ASSUME call = Sock!NoCall
      PROVE  call.op = "none"
  BY <1>1
<1>2. CASE Sock!Refused \/ Sock!IfAddrs \/ \E fd \in SocketFds : Sock!Close(fd)
  BY <1>1, <1>2 DEF Sock!Refused, Sock!IfAddrs, Sock!Close
<1>3. CASE Sock!NetxOpen \/ Sock!NetxConnect \/ Sock!NetxAccept \/ Sock!NetxGetLocalIp
           \/ Sock!NetxOpen2 \/ Sock!SockaddrByString
  BY <1>1, <1>3 DEF Sock!NetxOpen, Sock!NetxConnect, Sock!NetxAccept, Sock!NetxGetLocalIp,
     Sock!NetxOpen2, Sock!SockaddrByString, Sock!Begin
<1>4. CASE Sock!ReturnFd
  <2>1. call.fd # Sock!NoFd
    BY <1>4, AtOpener, AtLookUp DEF SockInv, Sock!ReturnFd
  <2>2. call.fd \in open /\ call.fd \notin owned
    BY <2>1 DEF SockInv
  <2>. QED
    BY <1>4, <2>2 DEF Sock!ReturnFd
<1>5. CASE Sock!Fails
  BY <1>5 DEF Sock!Fails
<1>6. CASE Sock!LocalIpBySocket
  BY <1>6 DEF Sock!LocalIpBySocket
<1>7. CASE Sock!LocalIpByName
  BY <1>7 DEF Sock!LocalIpByName
<1>8. CASE Sock!LocalIpSocket
  <2>1. ASSUME NEW fd
        PROVE  call' # [call EXCEPT !.fd = fd]
    BY <1>8 DEF Sock!LocalIpSocket, SockInv
  <2>2. call.op = "by_interface" /\ Sock!Return(-2, "none")
    BY <1>8, <2>1, Zenon DEF Sock!LocalIpSocket
  <2>3. last'.value # 0 /\ last'.addr = "none"
    BY <2>2
  <2>. QED
    BY <2>2, <2>3
<1>9. CASE Sock!LocalIpByInterface
  BY <1>9 DEF Sock!LocalIpByInterface
<1>10. CASE Sock!Succeeds \/ \E fd \in SocketFds : Sock!Opens(fd)
  <2>1. call'.op = call.op /\ call # Sock!NoCall /\ DOMAIN call' = DOMAIN call
    <3>1. DOMAIN call = {"op", "todo", "fd", "family"}
      BY DEF SockInv
    <3>2. call.todo # <<>>
      BY <1>10 DEF Sock!Succeeds, Sock!Opens
    <3>3. CASE Sock!Succeeds
      BY <3>1, <3>2, <3>3 DEF Sock!Succeeds
    <3>4. CASE \E fd \in SocketFds : Sock!Opens(fd)
      BY <3>1, <3>2, <3>4 DEF Sock!Opens
    <3>. QED
      BY <1>10, <3>3, <3>4
  <2>. QED
    BY <2>1 DEF SockInv
<1>11. CASE Sock!GetAddrinfo \/ Sock!GetAddrinfoFails \/ Sock!UseAddrinfo
  <2>1. call.op \in {"by_string", "netx_open_2"}
    <3>1. call.todo # <<>> /\ Head(call.todo) = "getaddrinfo"
      BY <1>11 DEF Sock!GetAddrinfo, Sock!GetAddrinfoFails, Sock!UseAddrinfo, Sock!Step
    <3>. QED
      BY <3>1, NextStep, AtOpener DEF SockInv, Openers, OtherSteps
  <2>2. call.op = "by_string" \/ call'.op = call.op
    BY <1>11 DEF SockInv, Sock!GetAddrinfo, Sock!GetAddrinfoFails, Sock!UseAddrinfo
  <2>. QED
    BY <2>1, <2>2 DEF SockInv
<1>. QED
  BY <1>2, <1>3, <1>4, <1>5, <1>6, <1>7, <1>8, <1>9, <1>10, <1>11 DEF Sock!Next

(* A descriptor that netx returns is open and new, and netx_get_local_ip   *)
(* succeeds with an address or not at all.                                 *)
THEOREM ResultsMeanSomethingHolds ==
  ASSUME Sock!NetxSocketAssumption
  PROVE  Sock!Spec => ResultsMeanSomething
<1>1. SockInv /\ [Sock!Next]_Sock!vars =>
        [/\ call.op \in {"netx_open", "netx_open_2", "netx_connect", "netx_accept"}
              /\ call' = Sock!NoCall /\ last'.value >= 0
           => last'.value \in open' \ owned
         /\ call.op \in {"netx_get_local_ip", "by_name", "by_interface"} /\ call' = Sock!NoCall
           => (last'.value = 0 <=> last'.addr # "none")]_Sock!vars
  BY ResultsStep DEF FdOps
<1>. QED
  BY <1>1, SockInvInit, SockInvStep, PTL DEF Sock!Spec, ResultsMeanSomething,
     Sock!ResultsMeanSomething

---------------------------------------------------------------------------
(* The allocator of mmem_debug.  Numbers have a least one, which gives     *)
(* induction.                                                              *)
LEMMA LeastOne ==
  ASSUME NEW S \in SUBSET Nat, S # {}
  PROVE  \E m \in S : \A k \in S : m <= k
<1>1. PICK m \in S : \A k \in S : <<k, m>> \notin OpToRel(<, Nat)
  BY NatLessThanWellFounded, WFMin, Zenon
<1>2. ASSUME NEW k \in S
      PROVE  m <= k
  <2>1. ~ (k < m)
    BY <1>1 DEF OpToRel
  <2>. QED
    BY <2>1
<1>. QED
  BY <1>2

LEMMA Induction ==
  ASSUME NEW T, NEW n \in Nat, 0 \in T, \A k \in 0 .. n - 1 : k \in T => k + 1 \in T
  PROVE  \A k \in 0 .. n : k \in T
<1> SUFFICES ASSUME (0 .. n) \ T # {}
             PROVE  FALSE
  OBVIOUS
<1>1. PICK m \in (0 .. n) \ T : \A k \in (0 .. n) \ T : m <= k
  <2>1. (0 .. n) \ T \in SUBSET Nat
    OBVIOUS
  <2>. QED
    BY <2>1, LeastOne
<1>2. m # 0 /\ m - 1 \in 0 .. n - 1 /\ m - 1 \in 0 .. n /\ ~ (m <= m - 1) /\ m - 1 + 1 = m
  BY <1>1
<1>3. m - 1 \in T
  BY <1>1, <1>2, Zenon
<1>4. m - 1 + 1 \in T
  BY <1>2, <1>3, Zenon
<1>. QED
  BY <1>1, <1>2, <1>4, Zenon

(* What is computed from number to number is what it is said to be.        *)
Computes(g, F, x, n, D) ==
    g \in [0 .. n -> D] /\ g[0] = x /\ \A k \in 1 .. n : g[k] = F[k][g[k - 1]]

LEMMA Recursion ==
  ASSUME NEW D, NEW F \in [Nat -> [D -> D]], NEW x \in D, NEW n \in Nat
  PROVE  \E g : Computes(g, F, x, n, D)
<1> DEFINE Is(m, g) == g[0] = x /\ \A k \in 1 .. m : g[k] = F[k][g[k - 1]]
           T == {m \in 0 .. n : \E g \in [0 .. m -> D] : Is(m, g)}
<1>1. 0 \in T
  <2> DEFINE g == [k \in 0 .. 0 |-> x]
  <2>1. g \in [0 .. 0 -> D] /\ Is(0, g)
    OBVIOUS
  <2>2. 0 \in 0 .. n
    OBVIOUS
  <2> HIDE DEF g, Is
  <2>. QED
    BY <2>1, <2>2
<1>2. ASSUME NEW m \in 0 .. n - 1, m \in T
      PROVE  m + 1 \in T
  <2>1. PICK g \in [0 .. m -> D] : Is(m, g)
    BY <1>2, Zenon
  <2> DEFINE h == [k \in 0 .. m + 1 |-> IF k = m + 1 THEN F[m + 1][g[m]] ELSE g[k]]
  <2>2. m \in Nat /\ m + 1 \in Nat /\ m + 1 \in 0 .. n /\ g[m] \in D
    OBVIOUS
  <2>3. F[m + 1][g[m]] \in D
    <3>1. F[m + 1] \in [D -> D]
      BY <2>2
    <3>. QED
      BY <2>2, <3>1
  <2>4. h \in [0 .. m + 1 -> D]
    <3>1. \A k \in 0 .. m + 1 : (IF k = m + 1 THEN F[m + 1][g[m]] ELSE g[k]) \in D
      <4>1. \A k \in 0 .. m + 1 : k # m + 1 => g[k] \in D
        BY <2>2
      <4>. QED
        BY <2>3, <4>1, Zenon
    <3>. QED
      BY <3>1, Zenon
  <2>5. h[m + 1] = F[m + 1][g[m]] /\ \A k \in 0 .. m : h[k] = g[k]
    <3>1. m + 1 \in 0 .. m + 1 /\ \A k \in 0 .. m : k \in 0 .. m + 1 /\ k # m + 1
      BY <2>2
    <3>. QED
      BY <3>1, Zenon
  <2> HIDE DEF h
  <2>6. Is(m + 1, h)
    <3>1. h[0] = x
      BY <2>1, <2>5
    <3>2. ASSUME NEW k \in 1 .. m + 1
          PROVE  h[k] = F[k][h[k - 1]]
      <4>1. CASE k = m + 1
        <5>1. k - 1 = m /\ m \in 0 .. m
          BY <2>2, <4>1
        <5>. QED
          BY <2>5, <4>1, <5>1, Zenon
      <4>2. CASE k # m + 1
        <5>1. k \in 1 .. m /\ k \in 0 .. m /\ k - 1 \in 0 .. m
          BY <2>2, <4>2
        <5>2. g[k] = F[k][g[k - 1]]
          BY <2>1, <5>1, Zenon
        <5>. QED
          BY <2>5, <5>1, <5>2, Zenon
      <4>. QED
        BY <4>1, <4>2
    <3>. QED
      BY <3>1, <3>2, Zenon
  <2> HIDE DEF Is
  <2>. QED
    BY <2>2, <2>4, <2>6
<1> HIDE DEF Is
<1>3. \A m \in 0 .. n : m \in T
  <2> HIDE DEF T
  <2>. QED
    BY <1>1, <1>2, Induction
<1>4. n \in 0 .. n
  OBVIOUS
<1>5. \E g \in [0 .. n -> D] : Is(n, g)
  BY <1>3, <1>4, Zenon
<1>. QED
  BY <1>5, Zenon DEF Is, Computes

---------------------------------------------------------------------------
(* The list of blocks: s goes once around the ring, the head before its    *)
(* first block and behind its last one.                                    *)
Nodes == Addrs \cup {ListHead}
Links == [prev : [Nodes -> Nodes \cup {Mmem!Poison}], next : [Nodes -> Nodes \cup {Mmem!Poison}]]

At(s, k) == IF k \in 1 .. Len(s) THEN s[k] ELSE ListHead

Ring(l, s) ==
    /\ \A i, j \in 1 .. Len(s) : s[i] = s[j] => i = j
    /\ \A k \in 0 .. Len(s) : l.next[At(s, k)] = At(s, k + 1) /\ l.prev[At(s, k + 1)] = At(s, k)

LEMMA AtIs ==
  ASSUME NEW s \in Seq(Addrs), ListHead \notin Addrs,
         \A i, j \in 1 .. Len(s) : s[i] = s[j] => i = j
  PROVE  /\ Len(s) \in Nat
         /\ \A k : At(s, k) \in Nodes
         /\ At(s, 0) = ListHead /\ At(s, Len(s) + 1) = ListHead
         /\ \A k \in 1 .. Len(s) : At(s, k) = s[k] /\ s[k] \in Addrs
         /\ \A i, j \in 0 .. Len(s) : At(s, i) = At(s, j) => i = j
         /\ \A i, j \in 1 .. Len(s) + 1 : At(s, i) = At(s, j) => i = j
<1>1. Len(s) \in Nat /\ \A k \in 1 .. Len(s) : s[k] \in Addrs
  OBVIOUS
<1>2. \A k \in 1 .. Len(s) : At(s, k) = s[k] /\ s[k] # ListHead
  BY <1>1 DEF At
<1>3. \A k : At(s, k) \in Nodes
  BY <1>1 DEF At, Nodes
<1>4. \A k : k \notin 1 .. Len(s) => At(s, k) = ListHead
  BY DEF At
<1>5. At(s, 0) = ListHead /\ At(s, Len(s) + 1) = ListHead
  <2>1. 0 \notin 1 .. Len(s) /\ Len(s) + 1 \notin 1 .. Len(s)
    BY <1>1
  <2>. QED
    BY <1>4, <2>1
<1>6. ASSUME NEW i \in 0 .. Len(s), NEW j \in 0 .. Len(s), At(s, i) = At(s, j)
      PROVE  i = j
  <2>1. (i = 0 \/ i \in 1 .. Len(s)) /\ (j = 0 \/ j \in 1 .. Len(s))
    BY <1>1
  <2>. QED
    BY <1>2, <1>5, <1>6, <2>1
<1>7. ASSUME NEW i \in 1 .. Len(s) + 1, NEW j \in 1 .. Len(s) + 1, At(s, i) = At(s, j)
      PROVE  i = j
  <2>1. (i = Len(s) + 1 \/ i \in 1 .. Len(s)) /\ (j = Len(s) + 1 \/ j \in 1 .. Len(s))
    BY <1>1
  <2>. QED
    BY <1>2, <1>5, <1>7, <2>1
<1>. QED
  BY <1>1, <1>2, <1>3, <1>5, <1>6, <1>7, Zenon

LEMMA RingInitNode ==
  ASSUME NEW l \in Links, NEW s \in Seq(Addrs), Ring(l, s), ListHead \notin Addrs,
         NEW b \in Addrs, \A k \in 1 .. Len(s) : s[k] # b
  PROVE  Mmem!ListInit(l, b) \in Links /\ Ring(Mmem!ListInit(l, b), s)
<1> DEFINE m == Mmem!ListInit(l, b)
<1>1. /\ m = [prev |-> [l.prev EXCEPT ![b] = b], next |-> [l.next EXCEPT ![b] = b]]
      /\ b \in Nodes /\ b # ListHead
  BY DEF Mmem!ListInit, Nodes
<1>2. l.prev \in [Nodes -> Nodes \cup {Mmem!Poison}] /\ l.next \in [Nodes -> Nodes \cup {Mmem!Poison}]
  BY DEF Links
<1> HIDE DEF m
<1>3. m \in Links /\ \A x \in Nodes \ {b} : m.prev[x] = l.prev[x] /\ m.next[x] = l.next[x]
  BY <1>1, <1>2 DEF Links
<1>4. \A k : At(s, k) \in Nodes \ {b}
  <2>1. \A k : At(s, k) \in Nodes
    BY AtIs DEF Ring
  <2>2. \A k : At(s, k) # b
    BY <1>1 DEF At
  <2>. QED
    BY <2>1, <2>2
<1>5. Ring(m, s)
  BY <1>3, <1>4 DEF Ring
<1>. QED
  BY <1>3, <1>5 DEF m

LEMMA RingAppend ==
  ASSUME NEW l \in Links, NEW s \in Seq(Addrs), Ring(l, s), ListHead \notin Addrs,
         NEW a \in Addrs, \A k \in 1 .. Len(s) : s[k] # a
  PROVE  /\ Mmem!ListAddTail(l, ListHead, a) \in Links
         /\ Append(s, a) \in Seq(Addrs)
         /\ Ring(Mmem!ListAddTail(l, ListHead, a), Append(s, a))
<1> DEFINE m == Mmem!ListAddTail(l, ListHead, a)
           t == Append(s, a)
<1>1. /\ Len(s) \in Nat
      /\ \A k : At(s, k) \in Nodes
      /\ At(s, 0) = ListHead /\ At(s, Len(s) + 1) = ListHead
      /\ \A i, j \in 0 .. Len(s) : At(s, i) = At(s, j) => i = j
      /\ \A i, j \in 1 .. Len(s) + 1 : At(s, i) = At(s, j) => i = j
  BY AtIs, Zenon DEF Ring
<1>2. \A k \in 0 .. Len(s) : l.next[At(s, k)] = At(s, k + 1) /\ l.prev[At(s, k + 1)] = At(s, k)
  BY DEF Ring
<1>3. PICK n \in Nat : n = Len(s)
  BY <1>1
<1>4. PICK p \in Nodes : p = At(s, n) /\ l.prev[ListHead] = p /\ l.next[p] = ListHead
  <2>1. n \in 0 .. Len(s)
    BY <1>3
  <2>. QED
    BY <1>1, <1>2, <1>3, <2>1
<1>5. a \in Nodes /\ ListHead \in Nodes /\ a # ListHead /\ \A k : At(s, k) # a
  BY DEF Nodes, At
<1>6. m = [prev |-> [l.prev EXCEPT ![a] = p, ![ListHead] = a],
           next |-> [l.next EXCEPT ![a] = ListHead, ![p] = a]]
  BY <1>4, Zenon DEF Mmem!ListAddTail, Mmem!ListAdd
<1>7. l.prev \in [Nodes -> Nodes \cup {Mmem!Poison}] /\ l.next \in [Nodes -> Nodes \cup {Mmem!Poison}]
  BY DEF Links
<1>8. p # a
  BY <1>4, <1>5
<1> HIDE DEF m
<1>9. /\ m \in Links
      /\ m.prev[a] = p /\ m.prev[ListHead] = a /\ m.next[a] = ListHead /\ m.next[p] = a
      /\ \A x \in Nodes \ {a, ListHead} : m.prev[x] = l.prev[x]
      /\ \A x \in Nodes \ {a, p} : m.next[x] = l.next[x]
  BY <1>5, <1>6, <1>7, <1>8 DEF Links
<1>10. t \in Seq(Addrs) /\ Len(t) = n + 1 /\ t[n + 1] = a /\ \A k \in 1 .. n : t[k] = s[k]
  BY <1>3
<1> HIDE DEF t
<1>11. /\ \A k \in 0 .. n : At(t, k) = At(s, k)
       /\ At(t, n + 1) = a /\ At(t, n + 2) = ListHead
  <2>1. \A k \in 1 .. n : k \in 1 .. n + 1
    BY <1>3
  <2>2. 0 \notin 1 .. n + 1 /\ n + 1 \in 1 .. n + 1 /\ n + 2 \notin 1 .. n + 1 /\ 0 \notin 1 .. n
    BY <1>3
  <2>3. \A k \in 0 .. n : k = 0 \/ k \in 1 .. n
    BY <1>3
  <2>. QED
    BY <1>3, <1>10, <2>1, <2>2, <2>3, Zenon DEF At
<1>12. ASSUME NEW i \in 1 .. n + 1, NEW j \in 1 .. n + 1, t[i] = t[j]
       PROVE  i = j
  <2>1. (i = n + 1 \/ i \in 1 .. n) /\ (j = n + 1 \/ j \in 1 .. n)
    BY <1>3
  <2>2. \A k \in 1 .. n : t[k] # a
    BY <1>3, <1>10
  <2>3. \A x, y \in 1 .. n : t[x] = t[y] => x = y
    <3>1. \A x, y \in 1 .. n : s[x] = s[y] => x = y
      BY <1>3, Zenon DEF Ring
    <3>. QED
      BY <1>10, <3>1, Zenon
  <2>. QED
    BY <1>10, <1>12, <2>1, <2>2, <2>3, Zenon
<1>13. ASSUME NEW k \in 0 .. n + 1
       PROVE  m.next[At(t, k)] = At(t, k + 1) /\ m.prev[At(t, k + 1)] = At(t, k)
  <2>1. CASE k = n + 1
    <3>1. k + 1 = n + 2
      BY <1>3, <2>1
    <3>. QED
      BY <1>9, <1>11, <2>1, <3>1, Zenon
  <2>2. CASE k = n
    <3>1. k \in 0 .. n /\ k + 1 = n + 1
      BY <1>3, <2>2
    <3>. QED
      BY <1>4, <1>9, <1>11, <2>2, <3>1, Zenon
  <2>3. CASE k \in 0 .. n - 1
    <3>1. k \in 0 .. n /\ k + 1 \in 0 .. n /\ k # n /\ k + 1 # 0 /\ n \in 0 .. n /\ 0 \in 0 .. n
      BY <1>3, <2>3
    <3>2. At(s, k) # p /\ At(s, k) # a
      BY <1>1, <1>3, <1>4, <1>5, <3>1, Zenon
    <3>3. At(s, k + 1) # ListHead /\ At(s, k + 1) # a
      BY <1>1, <1>3, <1>5, <3>1, Zenon
    <3>4. l.next[At(s, k)] = At(s, k + 1) /\ l.prev[At(s, k + 1)] = At(s, k)
      BY <1>2, <1>3, <3>1, Zenon
    <3>5. At(s, k) \in Nodes \ {a, p} /\ At(s, k + 1) \in Nodes \ {a, ListHead}
      BY <1>1, <3>2, <3>3
    <3>6. m.next[At(s, k)] = At(s, k + 1) /\ m.prev[At(s, k + 1)] = At(s, k)
      BY <1>9, <3>4, <3>5, Zenon
    <3>. QED
      BY <1>11, <3>1, <3>6, Zenon
  <2>4. k = n + 1 \/ k = n \/ k \in 0 .. n - 1
    BY <1>3
  <2>. QED
    BY <2>1, <2>2, <2>3, <2>4
<1>14. Ring(m, t)
  BY <1>10, <1>12, <1>13, Zenon DEF Ring
<1>. QED
  BY <1>9, <1>10, <1>14 DEF m, t

(* The blocks but the kth.                                                 *)
Without(s, k) == [i \in 1 .. Len(s) - 1 |-> IF i < k THEN s[i] ELSE s[i + 1]]

LEMMA WithoutIs ==
  ASSUME NEW s \in Seq(Addrs), NEW k \in 1 .. Len(s), ListHead \notin Addrs,
         \A i, j \in 1 .. Len(s) : s[i] = s[j] => i = j
  PROVE  LET t == Without(s, k)
         IN  /\ t \in Seq(Addrs) /\ Len(t) = Len(s) - 1
             /\ \A i \in 1 .. Len(t) : t[i] = IF i < k THEN s[i] ELSE s[i + 1]
             /\ \A i \in 0 .. Len(s) : At(t, i) = IF i < k THEN At(s, i) ELSE At(s, i + 1)
             /\ \A i, j \in 1 .. Len(t) : t[i] = t[j] => i = j
             /\ {t[i] : i \in 1 .. Len(t)} = {s[i] : i \in 1 .. Len(s)} \ {s[k]}
<1> DEFINE t == Without(s, k)
<1>1. PICK n \in Nat : n = Len(s) - 1 /\ Len(s) = n + 1
  <2>1. Len(s) - 1 \in Nat /\ Len(s) = Len(s) - 1 + 1
    OBVIOUS
  <2>. QED
    BY <2>1
<1>2. /\ t = [i \in 1 .. n |-> IF i < k THEN s[i] ELSE s[i + 1]]
      /\ \A i \in 1 .. n + 1 : s[i] \in Addrs
  BY <1>1 DEF Without
<1> HIDE DEF t
<1>3. \A i \in 1 .. n : t[i] \in Addrs /\ t[i] = IF i < k THEN s[i] ELSE s[i + 1]
  <2>1. ASSUME NEW i \in 1 .. n
        PROVE  (IF i < k THEN s[i] ELSE s[i + 1]) \in Addrs
    <3>1. i \in 1 .. n + 1 /\ i + 1 \in 1 .. n + 1
      BY <1>1
    <3>. QED
      BY <1>2, <3>1
  <2>. QED
    BY <1>2, <2>1
<1>4. t \in Seq(Addrs) /\ Len(t) = n
  <2>1. t \in [1 .. n -> Addrs]
    BY <1>2, <1>3
  <2>. QED
    BY <1>1, <2>1
<1>5. ASSUME NEW i \in 0 .. n + 1
      PROVE  At(t, i) = IF i < k THEN At(s, i) ELSE At(s, i + 1)
  <2>1. CASE i = 0
    <3>1. i < k /\ i \notin 1 .. n /\ i \notin 1 .. n + 1
      BY <1>1, <2>1
    <3>. QED
      BY <1>1, <1>4, <3>1 DEF At
  <2>2. CASE i = n + 1
    <3>1. ~ (i < k) /\ i \notin 1 .. n /\ i + 1 \notin 1 .. n + 1
      BY <1>1, <2>2
    <3>. QED
      BY <1>1, <1>4, <3>1 DEF At
  <2>3. CASE i \in 1 .. n
    <3>1. i \in 1 .. n + 1 /\ i + 1 \in 1 .. n + 1
      BY <1>1, <2>3
    <3>. QED
      BY <1>1, <1>3, <1>4, <2>3, <3>1 DEF At
  <2>4. i = 0 \/ i = n + 1 \/ i \in 1 .. n
    BY <1>1
  <2>. QED
    BY <2>1, <2>2, <2>3, <2>4
<1>6. ASSUME NEW i \in 1 .. n, NEW j \in 1 .. n, t[i] = t[j]
      PROVE  i = j
  <2>1. PICK x \in 1 .. n + 1 : t[i] = s[x] /\ x = IF i < k THEN i ELSE i + 1
    <3>1. (IF i < k THEN i ELSE i + 1) \in 1 .. n + 1
      BY <1>1
    <3>. QED
      BY <1>3, <3>1
  <2>2. PICK y \in 1 .. n + 1 : t[j] = s[y] /\ y = IF j < k THEN j ELSE j + 1
    <3>1. (IF j < k THEN j ELSE j + 1) \in 1 .. n + 1
      BY <1>1
    <3>. QED
      BY <1>3, <3>1
  <2>3. x = y
    BY <1>1, <1>6, <2>1, <2>2
  <2>. QED
    BY <1>1, <2>1, <2>2, <2>3
<1>7. ASSUME NEW i \in 1 .. n
      PROVE  \E j \in 1 .. n + 1 : t[i] = s[j] /\ j # k
  <2>1. (IF i < k THEN i ELSE i + 1) \in (1 .. n + 1) \ {k}
    BY <1>1
  <2>2. t[i] = s[IF i < k THEN i ELSE i + 1]
    BY <1>3
  <2>. QED
    BY <2>1, <2>2
<1>8. ASSUME NEW j \in 1 .. n + 1, j # k
      PROVE  \E i \in 1 .. n : t[i] = s[j]
  <2>1. CASE j < k
    <3>1. j \in 1 .. n
      BY <1>1, <2>1
    <3>. QED
      BY <1>3, <2>1, <3>1
  <2>2. CASE j > k
    <3>1. j - 1 \in 1 .. n /\ ~ (j - 1 < k) /\ j - 1 + 1 = j
      BY <1>1, <2>2
    <3>. QED
      BY <1>3, <3>1
  <2>. QED
    BY <1>1, <1>8, <2>1, <2>2
<1>9. {t[i] : i \in 1 .. n} = {s[i] : i \in 1 .. n + 1} \ {s[k]}
  <2>1. ASSUME NEW x \in {t[i] : i \in 1 .. n}
        PROVE  x \in {s[i] : i \in 1 .. n + 1} \ {s[k]}
    <3>1. PICK j \in 1 .. n + 1 : x = s[j] /\ j # k
      BY <1>7
    <3>2. s[j] # s[k]
      BY <1>1, <3>1
    <3>. QED
      BY <3>1, <3>2
  <2>2. ASSUME NEW x \in {s[i] : i \in 1 .. n + 1} \ {s[k]}
        PROVE  x \in {t[i] : i \in 1 .. n}
    <3>1. PICK j \in 1 .. n + 1 : x = s[j] /\ j # k
      OBVIOUS
    <3>. QED
      BY <1>8, <3>1
  <2>. QED
    BY <2>1, <2>2
<1>10. Len(s) = n + 1 /\ n = Len(s) - 1
  BY <1>1
<1>. QED
  BY <1>3, <1>4, <1>5, <1>6, <1>9, <1>10, Zenon DEF t

LEMMA RingDelete ==
  ASSUME NEW l \in Links, NEW s \in Seq(Addrs), Ring(l, s), ListHead \notin Addrs,
         NEW k \in 1 .. Len(s)
  PROVE  /\ Mmem!ListDel(l, s[k]) \in Links
         /\ Ring(Mmem!ListDel(l, s[k]), Without(s, k))
<1> DEFINE m == Mmem!ListDel(l, s[k])
           t == Without(s, k)
<1>1. /\ Len(s) \in Nat
      /\ \A i : At(s, i) \in Nodes
      /\ At(s, 0) = ListHead /\ At(s, Len(s) + 1) = ListHead
      /\ \A i \in 1 .. Len(s) : At(s, i) = s[i] /\ s[i] \in Addrs
      /\ \A i, j \in 0 .. Len(s) : At(s, i) = At(s, j) => i = j
      /\ \A i, j \in 1 .. Len(s) + 1 : At(s, i) = At(s, j) => i = j
  BY AtIs, Zenon DEF Ring
<1>2. \A i \in 0 .. Len(s) : l.next[At(s, i)] = At(s, i + 1) /\ l.prev[At(s, i + 1)] = At(s, i)
  BY DEF Ring
<1>3. PICK n \in Nat : n = Len(s)
  BY <1>1
<1>4. PICK a \in Addrs : a = s[k] /\ a = At(s, k)
  BY <1>1
<1>5. PICK p \in Nodes, q \in Nodes :
        p = At(s, k - 1) /\ q = At(s, k + 1) /\ l.prev[a] = p /\ l.next[a] = q
  <2>1. k - 1 \in 0 .. Len(s) /\ k \in 0 .. Len(s) /\ k - 1 + 1 = k
    BY <1>1
  <2>2. l.next[At(s, k)] = At(s, k + 1) /\ l.prev[At(s, k - 1 + 1)] = At(s, k - 1)
    BY <1>2, <2>1, Zenon
  <2>3. l.next[a] = At(s, k + 1) /\ l.prev[a] = At(s, k - 1)
    BY <1>4, <2>1, <2>2
  <2>4. At(s, k + 1) \in Nodes /\ At(s, k - 1) \in Nodes
    BY <1>1, Zenon
  <2>. QED
    BY <2>3, <2>4, Zenon
<1>6. a # p /\ a # q
  <2>1. k - 1 \in 0 .. Len(s) /\ k \in 0 .. Len(s) /\ k \in 1 .. Len(s) + 1 /\ k + 1 \in 1 .. Len(s) + 1
        /\ k - 1 # k /\ k + 1 # k
    BY <1>1
  <2>. QED
    BY <1>1, <1>4, <1>5, <2>1, Zenon
<1>7. m = [prev |-> [l.prev EXCEPT ![q] = p, ![a] = Mmem!Poison],
           next |-> [l.next EXCEPT ![p] = q, ![a] = Mmem!Poison]]
  BY <1>4, <1>5, Zenon DEF Mmem!ListDel
<1>8. l.prev \in [Nodes -> Nodes \cup {Mmem!Poison}] /\ l.next \in [Nodes -> Nodes \cup {Mmem!Poison}]
  BY DEF Links
<1>9. a \in Nodes
  BY DEF Nodes
<1> HIDE DEF m
<1>10. /\ m \in Links
       /\ m.prev[q] = p /\ m.next[p] = q
       /\ \A x \in Nodes \ {a, q} : m.prev[x] = l.prev[x]
       /\ \A x \in Nodes \ {a, p} : m.next[x] = l.next[x]
  BY <1>6, <1>7, <1>8, <1>9 DEF Links
<1>11. /\ t \in Seq(Addrs) /\ Len(t) = n - 1
       /\ \A i \in 0 .. n : At(t, i) = IF i < k THEN At(s, i) ELSE At(s, i + 1)
       /\ \A i, j \in 1 .. Len(t) : t[i] = t[j] => i = j
  BY <1>3, WithoutIs DEF Ring
<1> HIDE DEF t
<1>12. ASSUME NEW i \in 0 .. n - 1
       PROVE  m.next[At(t, i)] = At(t, i + 1) /\ m.prev[At(t, i + 1)] = At(t, i)
  <2>1. i \in 0 .. n /\ i + 1 \in 0 .. n
    BY <1>3
  <2>2. CASE i < k - 1
    <3>1. i < k /\ i + 1 < k
      BY <1>3, <2>2
    <3>2. At(t, i) = At(s, i) /\ At(t, i + 1) = At(s, i + 1)
      BY <1>11, <2>1, <3>1, Zenon
    <3>3. /\ i \in 0 .. Len(s) /\ k - 1 \in 0 .. Len(s) /\ k \in 0 .. Len(s) /\ i # k - 1 /\ i # k
          /\ i + 1 \in 1 .. Len(s) + 1 /\ k + 1 \in 1 .. Len(s) + 1 /\ k \in 1 .. Len(s) + 1
          /\ i + 1 # k + 1 /\ i + 1 # k
      BY <1>3, <2>1, <2>2
    <3>4. At(s, i) # p /\ At(s, i) # a /\ At(s, i + 1) # q /\ At(s, i + 1) # a
      BY <1>1, <1>4, <1>5, <3>3, Zenon
    <3>5. At(s, i) \in Nodes \ {a, p} /\ At(s, i + 1) \in Nodes \ {a, q}
      BY <1>1, <3>4
    <3>6. l.next[At(s, i)] = At(s, i + 1) /\ l.prev[At(s, i + 1)] = At(s, i)
      BY <1>2, <3>3, Zenon
    <3>. QED
      BY <1>10, <3>2, <3>5, <3>6, Zenon
  <2>3. CASE i = k - 1
    <3>1. i < k /\ ~ (i + 1 < k) /\ i + 1 + 1 = k + 1
      BY <1>3, <2>3
    <3>2. At(t, i) = p /\ At(t, i + 1) = q
      BY <1>5, <1>11, <2>1, <2>3, <3>1, Zenon
    <3>. QED
      BY <1>10, <3>2, Zenon
  <2>4. CASE i > k - 1
    <3>1. ~ (i < k) /\ ~ (i + 1 < k)
      BY <1>3, <2>4
    <3>2. At(t, i) = At(s, i + 1) /\ At(t, i + 1) = At(s, i + 1 + 1)
      BY <1>11, <2>1, <3>1, Zenon
    <3>3. /\ i + 1 \in 0 .. Len(s) /\ k - 1 \in 0 .. Len(s) /\ k \in 0 .. Len(s)
          /\ i + 1 # k - 1 /\ i + 1 # k
          /\ i + 1 + 1 \in 1 .. Len(s) + 1 /\ k + 1 \in 1 .. Len(s) + 1 /\ k \in 1 .. Len(s) + 1
          /\ i + 1 + 1 # k + 1 /\ i + 1 + 1 # k
      BY <1>3, <2>1, <2>4
    <3>4. /\ At(s, i + 1) # p /\ At(s, i + 1) # a
          /\ At(s, i + 1 + 1) # q /\ At(s, i + 1 + 1) # a
      BY <1>1, <1>4, <1>5, <3>3, Zenon
    <3>5. At(s, i + 1) \in Nodes \ {a, p} /\ At(s, i + 1 + 1) \in Nodes \ {a, q}
      BY <1>1, <3>4
    <3>6. l.next[At(s, i + 1)] = At(s, i + 1 + 1) /\ l.prev[At(s, i + 1 + 1)] = At(s, i + 1)
      BY <1>2, <3>3, Zenon
    <3>. QED
      BY <1>10, <3>2, <3>5, <3>6, Zenon
  <2>. QED
    BY <1>3, <2>2, <2>3, <2>4
<1>13. Ring(m, t)
  BY <1>11, <1>12, Zenon DEF Ring
<1>. QED
  BY <1>10, <1>13 DEF m, t

---------------------------------------------------------------------------
(* What mlist_for_each meets is the blocks of the ring.                    *)
LEMMA ListOfIs ==
  ASSUME NEW l \in Links, NEW s \in Seq(Addrs), Ring(l, s), ListHead \notin Addrs,
         Mmem!Poison \notin Nodes, NEW n \in Nat, Len(s) <= n
  PROVE  Mmem!ListOf(l, ListHead, n) = s
<1> DEFINE at[k \in 0 .. n + 1] ==
             IF k = 0 THEN ListHead
             ELSE IF at[k - 1] = Mmem!Poison THEN Mmem!Poison ELSE l.next[at[k - 1]]
           End == {k \in 1 .. n + 1 : at[k] = ListHead}
<1>1. Mmem!ListOf(l, ListHead, n) = [k \in 1 .. IF End = {} THEN n ELSE Mmem!Min(End) - 1 |-> at[k]]
  BY DEF Mmem!ListOf
<1>2. at = [k \in 0 .. n + 1 |->
             IF k = 0 THEN ListHead
             ELSE IF at[k - 1] = Mmem!Poison THEN Mmem!Poison ELSE l.next[at[k - 1]]]
  <2> DEFINE D == Nodes \cup {Mmem!Poison}
             f == [x \in D |-> IF x = Mmem!Poison THEN Mmem!Poison ELSE l.next[x]]
             F == [k \in Nat |-> f]
  <2>1. F \in [Nat -> [D -> D]]
    <3>1. f \in [D -> D]
      BY DEF Links
    <3> HIDE DEF f
    <3>. QED
      BY <3>1
  <2>2. ListHead \in D
    BY DEF Nodes
  <2>3. \A k \in Nat, x \in D : F[k][x] = IF x = Mmem!Poison THEN Mmem!Poison ELSE l.next[x]
    OBVIOUS
  <2> HIDE DEF F
  <2>4. n + 1 \in Nat
    OBVIOUS
  <2> HIDE DEF D
  <2>5. PICK g \in [0 .. n + 1 -> D] :
          g[0] = ListHead /\ \A k \in 1 .. n + 1 : g[k] = F[k][g[k - 1]]
    <3>1. PICK n1 \in Nat : n1 = n + 1
      BY <2>4
    <3>2. \E g : Computes(g, F, ListHead, n1, D)
      BY <2>1, <2>2, Recursion, Zenon
    <3>. QED
      BY <3>1, <3>2, Zenon DEF Computes
  <2>6. ASSUME NEW k \in 0 .. n + 1
        PROVE  g[k] = IF k = 0 THEN ListHead
                      ELSE IF g[k - 1] = Mmem!Poison THEN Mmem!Poison ELSE l.next[g[k - 1]]
    <3>1. CASE k = 0
      BY <2>5, <3>1, Zenon
    <3>2. CASE k # 0
      <4>1. k \in 1 .. n + 1 /\ k \in Nat /\ k - 1 \in 0 .. n + 1
        BY <3>2
      <4>2. g[k - 1] \in D
        BY <4>1, Zenon
      <4>. QED
        BY <2>3, <2>5, <3>2, <4>1, <4>2, Zenon
    <3>. QED
      BY <3>1, <3>2
  <2>7. g = [k \in 0 .. n + 1 |-> g[k]]
    OBVIOUS
  <2>8. g = [k \in 0 .. n + 1 |->
               IF k = 0 THEN ListHead
               ELSE IF g[k - 1] = Mmem!Poison THEN Mmem!Poison ELSE l.next[g[k - 1]]]
    BY <2>6, <2>7
  <2>. QED
    BY <2>8
<1> HIDE DEF at
<1>3. \A k \in 0 .. n + 1 : at[k] = IF k = 0 THEN ListHead
             ELSE IF at[k - 1] = Mmem!Poison THEN Mmem!Poison ELSE l.next[at[k - 1]]
  BY <1>2, Zenon
<1>4. /\ Len(s) \in Nat
      /\ \A i : At(s, i) \in Nodes
      /\ At(s, 0) = ListHead /\ At(s, Len(s) + 1) = ListHead
      /\ \A i \in 1 .. Len(s) : At(s, i) = s[i] /\ s[i] \in Addrs
  BY AtIs, Zenon DEF Ring
<1>5. PICK m \in Nat : m = Len(s) /\ m <= n
  BY <1>4
<1>6. \A i \in 0 .. m : l.next[At(s, i)] = At(s, i + 1)
  BY <1>5 DEF Ring
<1>7. \A k \in 0 .. m + 1 : at[k] = At(s, k)
  <2> DEFINE T == {k \in 0 .. m + 1 : at[k] = At(s, k)}
  <2>1. 0 \in T
    <3>1. 0 \in 0 .. n + 1 /\ 0 \in 0 .. m + 1
      OBVIOUS
    <3>. QED
      BY <1>3, <1>4, <3>1
  <2>2. ASSUME NEW k \in 0 .. m, k \in T
        PROVE  k + 1 \in T
    <3>1. /\ k + 1 \in 0 .. m + 1 /\ k + 1 \in 0 .. n + 1 /\ k \in 0 .. m /\ k + 1 # 0
          /\ k + 1 - 1 = k
      BY <1>5
    <3>2. at[k] = At(s, k) /\ At(s, k) # Mmem!Poison /\ l.next[At(s, k)] = At(s, k + 1)
      BY <1>4, <1>6, <2>2, <3>1
    <3>3. at[k + 1] = l.next[at[k]]
      BY <1>3, <3>1, <3>2
    <3>. QED
      BY <3>1, <3>2, <3>3
  <2>3. m + 1 \in Nat
    OBVIOUS
  <2> HIDE DEF T
  <2>4. \A k \in 0 .. m + 1 : k \in T
    <3>1. PICK m1 \in Nat : m1 = m + 1 /\ m1 - 1 = m
      BY <2>3
    <3>2. \A k \in 0 .. m1 - 1 : k \in T => k + 1 \in T
      BY <2>2, <3>1
    <3>3. \A k \in 0 .. m1 : k \in T
      BY <2>1, <3>2, Induction
    <3>. QED
      BY <3>1, <3>3
  <2>. QED
    BY <2>4 DEF T
<1>8. m + 1 \in End /\ \A k \in End : m + 1 <= k
  <2>1. m + 1 \in 1 .. n + 1 /\ m + 1 \in 0 .. m + 1
    BY <1>5
  <2>2. at[m + 1] = ListHead
    BY <1>4, <1>5, <1>7, <2>1
  <2>3. ASSUME NEW k \in End, ~ (m + 1 <= k)
        PROVE  FALSE
    <3>1. k \in 1 .. m /\ k \in 0 .. m + 1
      BY <1>5, <2>3
    <3>2. at[k] \in Addrs
      BY <1>4, <1>5, <1>7, <3>1
    <3>. QED
      BY <3>2
  <2>. QED
    BY <2>1, <2>2, <2>3
<1>9. Mmem!Min(End) = m + 1
  <2>1. Mmem!Min(End) \in End /\ \A k \in End : Mmem!Min(End) <= k
    BY <1>8, Zenon DEF Mmem!Min
  <2>2. Mmem!Min(End) <= m + 1 /\ m + 1 <= Mmem!Min(End) /\ Mmem!Min(End) \in Int
    BY <1>8, <2>1
  <2>. QED
    BY <2>2
<1>10. (IF End = {} THEN n ELSE Mmem!Min(End) - 1) = m
  <2>1. End # {} /\ Mmem!Min(End) - 1 = m
    BY <1>8, <1>9
  <2>. QED
    BY <2>1
<1>11. Mmem!ListOf(l, ListHead, n) = [k \in 1 .. m |-> at[k]]
  BY <1>1, <1>10, Zenon
<1>12. \A k \in 1 .. m : at[k] = s[k]
  <2>1. \A k \in 1 .. m : k \in 0 .. m + 1
    OBVIOUS
  <2>. QED
    BY <1>4, <1>5, <1>7, <2>1, Zenon
<1>13. s = [k \in 1 .. m |-> s[k]]
  BY <1>5
<1>. QED
  BY <1>11, <1>12, <1>13

---------------------------------------------------------------------------
(* The blocks of h on the list l, with sizes z, are what the table t says: *)
(* s has them in order, and g how large the first ones are together.       *)
Sums(s, z, g) ==
    /\ g \in [0 .. Len(s) -> Nat] /\ g[0] = 0
    /\ \A k \in 1 .. Len(s) : g[k] = g[k - 1] + z[s[k]]

Says(t, n, sum) ==
    /\ t.count = n /\ t.active = sum /\ t.total = sum + Overhead * n
    /\ t.max_active >= t.active /\ t.max_total >= t.total

Numbers == [count : Int, total : Int, active : Int, max_total : Int, max_active : Int]

Listed(l, z, h, t, s, g) ==
    /\ Ring(l, s) /\ {s[k] : k \in 1 .. Len(s)} = h
    /\ Sums(s, z, g) /\ Says(t, Len(s), g[Len(s)])

Accounted(l, z, h, t) ==
    /\ l \in Links /\ z \in [Addrs -> Nat] /\ h \subseteq Addrs /\ t \in Numbers
    /\ \E s \in Seq(Addrs) : \E g : Listed(l, z, h, t, s, g)

LEMMA AccountedWithNode ==
  ASSUME Mmem!MmemDebugAssumption, NEW l, NEW z, NEW h, NEW t, Accounted(l, z, h, t),
         NEW b \in Addrs \ h
  PROVE  Accounted(Mmem!ListInit(l, b), z, h, t)
<1>0. PICK s \in Seq(Addrs) : \E g : Listed(l, z, h, t, s, g)
  BY DEF Accounted
<1>1. PICK g : Listed(l, z, h, t, s, g)
  BY <1>0
<1>2. ListHead \notin Addrs
  BY DEF Mmem!MmemDebugAssumption
<1>3. \A k \in 1 .. Len(s) : s[k] # b
  BY <1>1 DEF Listed
<1>4. l \in Links /\ Ring(l, s)
  BY <1>1 DEF Accounted, Listed
<1>5. Mmem!ListInit(l, b) \in Links /\ Ring(Mmem!ListInit(l, b), s)
  BY <1>2, <1>3, <1>4, RingInitNode
<1>6. Listed(Mmem!ListInit(l, b), z, h, t, s, g)
  BY <1>1, <1>5 DEF Listed
<1>. QED
  BY <1>5, <1>6 DEF Accounted

LEMMA AccountedAdd ==
  ASSUME Mmem!MmemDebugAssumption, NEW l, NEW z, NEW h, NEW t, Accounted(l, z, h, t),
         NEW a \in Addrs \ h, NEW n \in Nat
  PROVE  Accounted(Mmem!ListAddTail(l, ListHead, a), [z EXCEPT ![a] = n], h \cup {a},
                   Mmem!BlockAdd(t, n))
<1> DEFINE m == Mmem!ListAddTail(l, ListHead, a)
           y == [z EXCEPT ![a] = n]
           u == Mmem!BlockAdd(t, n)
<1>0. PICK s \in Seq(Addrs) : \E g : Listed(l, z, h, t, s, g)
  BY DEF Accounted
<1>1. PICK g : Listed(l, z, h, t, s, g)
  BY <1>0
<1>2. ListHead \notin Addrs /\ Overhead \in Nat
  BY DEF Mmem!MmemDebugAssumption
<1>3. \A k \in 1 .. Len(s) : s[k] # a
  BY <1>1 DEF Listed
<1>4. l \in Links /\ Ring(l, s) /\ z \in [Addrs -> Nat] /\ h \subseteq Addrs /\ t \in Numbers
  BY <1>1 DEF Accounted, Listed
<1>5. PICK r \in Seq(Addrs) : r = Append(s, a) /\ m \in Links /\ Ring(m, r)
  BY <1>2, <1>3, <1>4, RingAppend
<1>6. PICK len \in Nat : len = Len(s) /\ Len(r) = len + 1 /\ r[len + 1] = a /\ \A k \in 1 .. len : r[k] = s[k]
  BY <1>5
<1>7. y \in [Addrs -> Nat] /\ y[a] = n /\ \A x \in h : y[x] = z[x]
  BY <1>4
<1> HIDE DEF y, m
<1>8. {r[k] : k \in 1 .. Len(r)} = h \cup {a}
  <2>1. {s[k] : k \in 1 .. len} = h
    BY <1>1, <1>6 DEF Listed
  <2>2. \A k : k \in 1 .. len + 1 <=> k \in 1 .. len \/ k = len + 1
    BY <1>6
  <2>3. \A x : (\E k \in 1 .. len + 1 : x = r[k]) <=> (\E k \in 1 .. len : x = s[k]) \/ x = a
    BY <1>6, <2>2, Zenon
  <2>. QED
    BY <1>6, <2>1, <2>3
<1>9. g \in [0 .. len -> Nat] /\ g[0] = 0 /\ \A k \in 1 .. len : g[k] = g[k - 1] + z[s[k]]
  BY <1>1, <1>6 DEF Listed, Sums
<1> DEFINE f == [k \in 0 .. len + 1 |-> IF k = len + 1 THEN g[len] + n ELSE g[k]]
<1>10. PICK sum \in Nat : sum = g[len]
  BY <1>9
<1>11. f \in [0 .. len + 1 -> Nat] /\ f[len + 1] = sum + n /\ \A k \in 0 .. len : f[k] = g[k]
  <2>1. \A k \in 0 .. len + 1 : (IF k = len + 1 THEN g[len] + n ELSE g[k]) \in Nat
    <3>1. \A k \in 0 .. len + 1 : k # len + 1 => g[k] \in Nat
      BY <1>9
    <3>. QED
      BY <1>10, <3>1
  <2>2. f \in [0 .. len + 1 -> Nat]
    BY <2>1, Zenon
  <2>3. len + 1 \in 0 .. len + 1 /\ \A k \in 0 .. len : k \in 0 .. len + 1 /\ k # len + 1
    BY <1>6
  <2>. QED
    BY <1>10, <2>2, <2>3, Zenon
<1> HIDE DEF f
<1>12. Sums(r, y, f)
  <2>1. f[0] = 0
    BY <1>9, <1>11
  <2>2. ASSUME NEW k \in 1 .. len + 1
        PROVE  f[k] = f[k - 1] + y[r[k]]
    <3>1. CASE k = len + 1
      <4>1. k - 1 = len /\ len \in 0 .. len
        BY <1>6, <3>1
      <4>. QED
        BY <1>6, <1>7, <1>10, <1>11, <3>1, <4>1
    <3>2. CASE k \in 1 .. len
      <4>1. k \in 0 .. len /\ k - 1 \in 0 .. len
        BY <1>6, <3>2
      <4>2. s[k] \in h
        BY <1>1, <1>6, <3>2 DEF Listed
      <4>3. y[r[k]] = z[s[k]]
        BY <1>6, <1>7, <3>2, <4>2
      <4>. QED
        BY <1>9, <1>11, <3>2, <4>1, <4>3
    <3>3. k = len + 1 \/ k \in 1 .. len
      BY <1>6
    <3>. QED
      BY <3>1, <3>2, <3>3
  <2>. QED
    BY <1>6, <1>11, <2>1, <2>2 DEF Sums
<1>13. Says(t, len, sum)
  BY <1>1, <1>6, <1>10 DEF Listed
<1>14. u \in Numbers /\ Says(u, len + 1, sum + n)
  <2>1. /\ u = [count |-> t.count + 1, total |-> t.total + n + Overhead, active |-> t.active + n,
                max_total |-> Mmem!Larger(t.max_total, t.total + n + Overhead),
                max_active |-> Mmem!Larger(t.max_active, t.active + n)]
    BY DEF Mmem!BlockAdd
  <2>2. \A c, d \in Int : Mmem!Larger(c, d) \in Int /\ Mmem!Larger(c, d) >= d
    BY DEF Mmem!Larger
  <2>3. /\ t.count \in Int /\ t.total \in Int /\ t.active \in Int
        /\ t.max_total \in Int /\ t.max_active \in Int
    BY <1>4 DEF Numbers
  <2>4. t.total + n + Overhead \in Int /\ t.active + n \in Int
    BY <1>2, <2>3
  <2>5. /\ Mmem!Larger(t.max_total, t.total + n + Overhead) \in Int
        /\ Mmem!Larger(t.max_active, t.active + n) \in Int
        /\ Mmem!Larger(t.max_total, t.total + n + Overhead) >= t.total + n + Overhead
        /\ Mmem!Larger(t.max_active, t.active + n) >= t.active + n
    BY <2>2, <2>3, <2>4
  <2> HIDE DEF u
  <2>6. u \in Numbers
    BY <2>1, <2>3, <2>4, <2>5 DEF Numbers
  <2>7. /\ t.count = len /\ t.active = sum /\ t.total = sum + Overhead * len
    BY <1>13 DEF Says
  <2>8. Overhead * (len + 1) = Overhead * len + Overhead /\ Overhead * len \in Nat
    BY <1>2, <1>6
  <2>9. /\ u.count = len + 1 /\ u.active = sum + n /\ u.total = sum + n + Overhead * (len + 1)
    BY <1>2, <1>10, <2>1, <2>7, <2>8
  <2>10. u.max_active >= u.active /\ u.max_total >= u.total
    BY <2>1, <2>5
  <2>. QED
    BY <2>6, <2>9, <2>10 DEF Says
<1> HIDE DEF u
<1>15. Listed(m, y, h \cup {a}, u, r, f)
  BY <1>5, <1>6, <1>8, <1>11, <1>12, <1>14 DEF Listed
<1>16. Accounted(m, y, h \cup {a}, u)
  BY <1>4, <1>5, <1>7, <1>14, <1>15 DEF Accounted
<1>. QED
  BY <1>16 DEF m, y, u

LEMMA AccountedDel ==
  ASSUME Mmem!MmemDebugAssumption, NEW l, NEW z, NEW h, NEW t, Accounted(l, z, h, t),
         NEW a \in h
  PROVE  Accounted(Mmem!ListDel(l, a), z, h \ {a}, Mmem!BlockDel(t, z[a]))
<1> DEFINE m == Mmem!ListDel(l, a)
           u == Mmem!BlockDel(t, z[a])
<1>0. PICK s \in Seq(Addrs) : \E g : Listed(l, z, h, t, s, g)
  BY DEF Accounted
<1>1. PICK g : Listed(l, z, h, t, s, g)
  BY <1>0
<1>2. ListHead \notin Addrs /\ Overhead \in Nat
  BY DEF Mmem!MmemDebugAssumption
<1>3. PICK k \in 1 .. Len(s) : s[k] = a
  BY <1>1 DEF Listed
<1>4. l \in Links /\ Ring(l, s) /\ z \in [Addrs -> Nat] /\ h \subseteq Addrs /\ t \in Numbers
  BY <1>1 DEF Accounted, Listed
<1>5. \A i, j \in 1 .. Len(s) : s[i] = s[j] => i = j
  BY <1>4 DEF Ring
<1>6. PICK r : /\ r = Without(s, k) /\ m \in Links /\ Ring(m, r)
               /\ r \in Seq(Addrs) /\ Len(r) = Len(s) - 1
               /\ \A i \in 1 .. Len(r) : r[i] = IF i < k THEN s[i] ELSE s[i + 1]
               /\ {r[i] : i \in 1 .. Len(r)} = {s[i] : i \in 1 .. Len(s)} \ {s[k]}
  <2>1. m \in Links /\ Ring(m, Without(s, k))
    BY <1>2, <1>3, <1>4, RingDelete
  <2>2. LET r == Without(s, k)
        IN  /\ r \in Seq(Addrs) /\ Len(r) = Len(s) - 1
            /\ \A i \in 1 .. Len(r) : r[i] = IF i < k THEN s[i] ELSE s[i + 1]
            /\ {r[i] : i \in 1 .. Len(r)} = {s[i] : i \in 1 .. Len(s)} \ {s[k]}
    BY <1>2, <1>5, WithoutIs, Zenon
  <2>. QED
    BY <2>1, <2>2, Zenon
<1> HIDE DEF m
<1>7. PICK n \in Nat : n = Len(r) /\ Len(s) = n + 1
  <2>1. Len(r) \in Nat /\ Len(s) = Len(r) + 1
    BY <1>6
  <2>. QED
    BY <2>1
<1>8. PICK c \in Nat : c = z[a]
  BY <1>4
<1>9. /\ g \in [0 .. n + 1 -> Nat] /\ g[0] = 0
      /\ \A i \in 1 .. n + 1 : g[i] = g[i - 1] + z[s[i]]
  BY <1>1, <1>7, Zenon DEF Listed, Sums
<1>10. \A i \in 1 .. n + 1 : z[s[i]] \in Nat
  <2>1. \A i \in 1 .. n + 1 : s[i] \in Addrs
    BY <1>7
  <2>. QED
    BY <1>4, <2>1
<1>11. \A i \in 0 .. n + 1 : i >= k => g[i] >= c
  <2> DEFINE T == {i \in 0 .. n + 1 : i >= k => g[i] >= c}
  <2>1. 0 \in T
    BY <1>3, <1>7
  <2>2. ASSUME NEW i \in 0 .. n, i \in T
        PROVE  i + 1 \in T
    <3>1. i + 1 \in 1 .. n + 1 /\ i + 1 - 1 = i /\ i \in 0 .. n + 1 /\ i + 1 \in 0 .. n + 1
      BY <1>7
    <3>2. g[i + 1] = g[i] + z[s[i + 1]]
      BY <1>9, <3>1
    <3>3. g[i] \in Nat /\ g[i + 1] \in Nat /\ z[s[i + 1]] \in Nat
      BY <1>9, <1>10, <3>1
    <3>4. CASE i + 1 = k
      <4>1. z[s[i + 1]] = c
        BY <1>3, <1>8, <3>4
      <4>. QED
        BY <3>1, <3>2, <3>3, <4>1
    <3>5. CASE i >= k
      BY <2>2, <3>1, <3>2, <3>3, <3>5
    <3>6. CASE ~ (i + 1 >= k)
      BY <3>1, <3>6
    <3>7. i + 1 = k \/ i >= k \/ ~ (i + 1 >= k)
      BY <1>3, <1>7
    <3>. QED
      BY <3>4, <3>5, <3>6, <3>7
  <2>3. PICK n1 \in Nat : n1 = n + 1 /\ n1 - 1 = n
    <3>1. n + 1 \in Nat /\ n + 1 - 1 = n
      OBVIOUS
    <3>. QED
      BY <3>1
  <2> HIDE DEF T
  <2>4. \A i \in 0 .. n1 - 1 : i \in T => i + 1 \in T
    BY <2>2, <2>3
  <2>5. \A i \in 0 .. n1 : i \in T
    BY <2>1, <2>4, Induction
  <2>. QED
    BY <2>3, <2>5 DEF T
<1> DEFINE f == [i \in 0 .. n |-> IF i < k THEN g[i] ELSE g[i + 1] - c]
<1>12. /\ \A i \in 0 .. n : i < k => f[i] = g[i] /\ g[i] \in Nat
       /\ \A i \in 0 .. n : ~ (i < k) => /\ f[i] = g[i + 1] - c
                                         /\ g[i + 1] \in Nat /\ g[i + 1] >= c
  <2>1. \A i \in 0 .. n : i \in 0 .. n + 1 /\ i + 1 \in 0 .. n + 1 /\ (i < k \/ i + 1 >= k)
    BY <1>3, <1>7
  <2>2. \A i \in 0 .. n : g[i] \in Nat /\ g[i + 1] \in Nat /\ (~ (i < k) => g[i + 1] >= c)
    BY <1>9, <1>11, <2>1
  <2>3. \A i \in 0 .. n : f[i] = IF i < k THEN g[i] ELSE g[i + 1] - c
    OBVIOUS
  <2> HIDE DEF f
  <2>. QED
    BY <2>2, <2>3
<1>13. f \in [0 .. n -> Nat]
  <2>1. \A i \in 0 .. n : f[i] \in Nat
    <3> HIDE DEF f
    <3>1. \A x \in Nat : x >= c => x - c \in Nat
      BY <1>8
    <3>. QED
      BY <1>12, <3>1, Zenon
  <2>2. f = [i \in 0 .. n |-> f[i]]
    OBVIOUS
  <2> HIDE DEF f
  <2>. QED
    BY <2>1, <2>2
<1> HIDE DEF f
<1>14. f[0] = 0
  <2>1. 0 \in 0 .. n /\ 0 < k
    BY <1>3, <1>7
  <2>. QED
    BY <1>9, <1>12, <2>1
<1>15. ASSUME NEW i \in 1 .. n
       PROVE  f[i] = f[i - 1] + z[r[i]]
  <2>1. /\ i \in 0 .. n /\ i - 1 \in 0 .. n /\ i \in 1 .. n + 1 /\ i + 1 \in 1 .. n + 1
        /\ i + 1 - 1 = i /\ i - 1 + 1 = i
    BY <1>7
  <2>2. r[i] = IF i < k THEN s[i] ELSE s[i + 1]
    BY <1>6, <1>7
  <2>3. g[i] = g[i - 1] + z[s[i]] /\ g[i + 1] = g[i] + z[s[i + 1]]
    <3>1. PICK j \in 1 .. n + 1 : j = i + 1 /\ j - 1 = i
      BY <2>1
    <3>2. g[j] = g[j - 1] + z[s[j]]
      BY <1>9, Zenon
    <3>. QED
      BY <1>9, <2>1, <3>1, <3>2, Zenon
  <2>4. z[s[i]] \in Nat /\ z[s[i + 1]] \in Nat
    BY <1>10, <2>1
  <2>5. CASE i < k
    <3>1. i - 1 < k /\ r[i] = s[i]
      BY <1>3, <1>7, <2>2, <2>5
    <3>. QED
      BY <1>12, <2>1, <2>3, <2>5, <3>1
  <2>6. CASE i = k
    <3>1. i - 1 < k /\ ~ (i < k) /\ r[i] = s[i + 1]
      BY <1>3, <1>7, <2>2, <2>6
    <3>2. z[s[i]] = c
      BY <1>3, <1>8, <2>6
    <3>3. f[i - 1] = g[i - 1] /\ f[i] = g[i + 1] - c
      BY <1>12, <2>1, <3>1
    <3>4. g[i - 1] \in Nat
      BY <1>12, <2>1, <3>1
    <3>. QED
      BY <1>8, <2>3, <2>4, <3>1, <3>2, <3>3, <3>4
  <2>7. CASE i > k
    <3>1. ~ (i - 1 < k) /\ ~ (i < k) /\ r[i] = s[i + 1]
      BY <1>3, <1>7, <2>2, <2>7
    <3>2. f[i - 1] = g[i] - c /\ f[i] = g[i + 1] - c /\ g[i] \in Nat
      BY <1>12, <2>1, <3>1
    <3>3. PICK x \in Nat, y \in Nat : x = g[i] /\ y = z[s[i + 1]]
      BY <2>4, <3>2
    <3>4. z[r[i]] = y /\ g[i + 1] = x + y /\ f[i - 1] = x - c
      BY <2>3, <3>1, <3>2, <3>3, Zenon
    <3>5. f[i] = (x + y) - c
      BY <3>2, <3>4, Zenon
    <3>6. (x + y) - c = (x - c) + y
      BY <1>8
    <3>. QED
      BY <3>4, <3>5, <3>6, Zenon
  <2>. QED
    BY <1>3, <1>7, <2>5, <2>6, <2>7
<1>16. Sums(r, z, f)
  BY <1>7, <1>13, <1>14, <1>15 DEF Sums
<1>17. f[n] = g[n + 1] - c /\ g[n + 1] \in Nat /\ f[n] \in Nat
  <2>1. n \in 0 .. n /\ (n < k \/ ~ (n < k))
    OBVIOUS
  <2>2. CASE n < k
    <3>1. n + 1 = k /\ n + 1 \in 1 .. n + 1 /\ n + 1 - 1 = n
      BY <1>3, <1>7, <2>2
    <3>2. g[n + 1] = g[n] + c
      <4>1. g[n + 1] = g[n + 1 - 1] + z[s[n + 1]]
        BY <1>9, <3>1
      <4>. QED
        BY <1>3, <1>8, <3>1, <4>1, Zenon
    <3>3. f[n] = g[n] /\ g[n] \in Nat
      BY <1>12, <2>1, <2>2
    <3>. QED
      BY <1>8, <3>2, <3>3
  <2>3. CASE ~ (n < k)
    BY <1>12, <1>13, <2>1, <2>3
  <2>. QED
    BY <2>1, <2>2, <2>3
<1>18. PICK sum \in Nat : sum = g[n + 1] /\ Says(t, n + 1, sum)
  BY <1>1, <1>7, <1>17 DEF Listed
<1>19. u \in Numbers /\ Says(u, n, f[n])
  <2>1. u = [t EXCEPT !.count = @ - 1, !.total = @ - c - Overhead, !.active = @ - c]
    BY <1>8 DEF Mmem!BlockDel
  <2>2. /\ t.count \in Int /\ t.total \in Int /\ t.active \in Int
        /\ t.max_total \in Int /\ t.max_active \in Int
    BY <1>4 DEF Numbers
  <2>3. /\ u.count = t.count - 1 /\ u.total = t.total - c - Overhead /\ u.active = t.active - c
        /\ u.max_total = t.max_total /\ u.max_active = t.max_active
    BY <1>4, <2>1 DEF Numbers
  <2>4. u \in Numbers
    <3>1. t.count - 1 \in Int /\ t.total - c - Overhead \in Int /\ t.active - c \in Int
      <4>1. \A i \in Int : i - 1 \in Int /\ i - c \in Int /\ i - c - Overhead \in Int
        <5>1. Overhead \in Int /\ c \in Int
          BY <1>2
        <5>. QED
          BY <5>1
      <4>. QED
        BY <2>2, <4>1, Zenon
    <3>2. u = [count |-> t.count - 1, total |-> t.total - c - Overhead, active |-> t.active - c,
               max_total |-> t.max_total, max_active |-> t.max_active]
      BY <1>4, <2>1 DEF Numbers
    <3>. QED
      BY <2>2, <3>1, <3>2 DEF Numbers
  <2>5. /\ t.count = n + 1 /\ t.active = sum /\ t.total = sum + Overhead * (n + 1)
        /\ t.max_active >= t.active /\ t.max_total >= t.total
    BY <1>18 DEF Says
  <2>6. Overhead * (n + 1) = Overhead * n + Overhead /\ Overhead * n \in Nat
    BY <1>2, <1>7
  <2> HIDE DEF u
  <2>7. /\ u.count = n /\ u.active = f[n] /\ u.total = f[n] + Overhead * n
    <3>1. f[n] = sum - c
      BY <1>17, <1>18
    <3>2. u.count = n
      BY <1>7, <2>3, <2>5
    <3>3. u.active = f[n]
      BY <2>3, <2>5, <3>1
    <3>4. u.total = f[n] + Overhead * n
      <4>1. PICK o \in Nat : o = Overhead * n
        BY <2>6
      <4>2. PICK p : p = Overhead * (n + 1) /\ t.total = sum + p
        BY <2>5, Zenon
      <4>3. p = o + Overhead
        BY <2>6, <4>1, <4>2, Zenon
      <4>4. u.total = (sum + (o + Overhead)) - c - Overhead
        BY <2>3, <4>2, <4>3
      <4>5. (sum + (o + Overhead)) - c - Overhead = (sum - c) + o
        BY <1>2, <1>8, <4>1
      <4>. QED
        BY <3>1, <4>1, <4>4, <4>5, Zenon
    <3>. QED
      BY <3>2, <3>3, <3>4
  <2>8. u.max_active >= u.active /\ u.max_total >= u.total
    <3>1. \A i, j \in Int : i >= j => i >= j - c /\ i >= j - c - Overhead
      BY <1>2, <1>8
    <3>2. t.max_active >= t.active /\ t.max_total >= t.total
      BY <2>5
    <3>3. t.max_active >= t.active - c /\ t.max_total >= t.total - c - Overhead
      BY <2>2, <3>1, <3>2, Zenon
    <3>. QED
      BY <2>3, <3>3, Zenon
  <2>. QED
    BY <2>4, <2>7, <2>8 DEF Says
<1> HIDE DEF u
<1>20. {r[i] : i \in 1 .. Len(r)} = h \ {a}
  BY <1>1, <1>3, <1>6, Zenon DEF Listed
<1>21. Listed(m, z, h \ {a}, u, r, f)
  BY <1>6, <1>7, <1>16, <1>19, <1>20, Zenon DEF Listed
<1>22. Accounted(m, z, h \ {a}, u)
  <2>1. h \ {a} \subseteq Addrs
    BY <1>4
  <2>. QED
    BY <1>4, <1>6, <1>19, <1>21, <2>1, Zenon DEF Accounted
<1>. QED
  BY <1>22 DEF m, u


---------------------------------------------------------------------------
(* The blocks that are allocated are the active ones and the ones that the *)
(* list and the table account for.                                         *)
MmemInv ==
    /\ magic \in [Addrs -> {"active", "free"}]
    /\ \A a \in Addrs : magic[a] = "active" <=> a \in heap
    /\ Accounted(block_links, size, heap, table)
    /\ Mmem!DumpFits

LEMMA MmemCardinality ==
  ASSUME NEW S
  PROVE  Mmem!Cardinality(S) = Cardinality(S)
BY Zenon DEF Mmem!Cardinality, Cardinality

(* A list of blocks is as long as there are blocks on it.                  *)
LEMMA AsManyAsListed ==
  ASSUME NEW s \in Seq(Addrs), \A i, j \in 1 .. Len(s) : s[i] = s[j] => i = j
  PROVE  /\ IsFiniteSet({s[k] : k \in 1 .. Len(s)})
         /\ Cardinality({s[k] : k \in 1 .. Len(s)}) = Len(s)
<1> DEFINE h == {s[k] : k \in 1 .. Len(s)}
<1>1. PICK n \in Nat : n = Len(s)
  OBVIOUS
<1>2. h = {s[k] : k \in 1 .. n} /\ \A i, j \in 1 .. n : s[i] = s[j] => i = j
  BY <1>1
<1> HIDE DEF h
<1>3. PICK f : f = [k \in 1 .. n |-> s[k]]
  OBVIOUS
<1>4. f \in Surjection(1 .. n, h)
  BY <1>2, <1>3 DEF Surjection
<1>5. f \in Injection(1 .. n, h)
  BY <1>2, <1>3 DEF Injection, IsInjective
<1>6. ExistsBijection(1 .. n, h)
  BY <1>4, <1>5 DEF ExistsBijection, Bijection
<1>7. Cardinality(h) = n
  BY <1>6, FS_CountingElements
<1>8. IsFiniteSet(1 .. n)
  BY FS_Interval
<1>9. IsFiniteSet(h)
  BY <1>4, <1>8, FS_Surjection
<1>. QED
  BY <1>1, <1>7, <1>9 DEF h

LEMMA BlocksAre ==
  ASSUME Mmem!MmemDebugAssumption, Accounted(block_links, size, heap, table)
  PROVE  /\ Mmem!Blocks \in Seq(Addrs)
         /\ \E g : Listed(block_links, size, heap, table, Mmem!Blocks, g)
<1>0. PICK s \in Seq(Addrs) : \E g : Listed(block_links, size, heap, table, s, g)
  BY DEF Accounted
<1>1. PICK g : Listed(block_links, size, heap, table, s, g)
  BY <1>0
<1>2. ListHead \notin Addrs /\ Mmem!Poison \notin Nodes
  BY DEF Mmem!MmemDebugAssumption, Nodes
<1>3. IsFiniteSet(Addrs)
  BY Zenon DEF Mmem!MmemDebugAssumption, Mmem!IsFiniteSet, IsFiniteSet
<1>4. PICK n \in Nat : n = Mmem!Cardinality(Addrs) /\ Len(s) <= n
  <2>1. {s[k] : k \in 1 .. Len(s)} \in SUBSET Addrs
    OBVIOUS
  <2>2. Cardinality({s[k] : k \in 1 .. Len(s)}) <= Cardinality(Addrs)
    BY <1>3, <2>1, FS_Subset
  <2>3. Cardinality({s[k] : k \in 1 .. Len(s)}) = Len(s)
    BY <1>1, AsManyAsListed DEF Listed, Ring
  <2>4. Cardinality(Addrs) \in Nat
    BY <1>3, FS_CardinalityType
  <2>. QED
    BY <2>2, <2>3, <2>4, MmemCardinality
<1>5. block_links \in Links /\ Ring(block_links, s)
  BY <1>1 DEF Accounted, Listed
<1>6. Mmem!ListOf(block_links, ListHead, n) = s
  BY <1>2, <1>4, <1>5, ListOfIs
<1>7. Mmem!Blocks = s
  BY <1>4, <1>6 DEF Mmem!Blocks
<1>. QED
  BY <1>1, <1>7

(* What mmem_free_all leaves of the list l and the table t, the blocks s   *)
(* deleted one by one.                                                     *)
AfterDels(l, z, t, s) ==
    LET AfterDel[k \in 0 .. Len(s)] ==
            IF k = 0 THEN [links |-> l, table |-> t]
            ELSE [links |-> Mmem!ListDel(AfterDel[k - 1].links, s[k]),
                  table |-> Mmem!BlockDel(AfterDel[k - 1].table, z[s[k]])]
    IN  AfterDel[Len(s)]

LEMMA AccountedNone ==
  ASSUME Mmem!MmemDebugAssumption, NEW l, NEW z, NEW h, NEW t, Accounted(l, z, h, t),
         NEW s \in Seq(Addrs), \A i, j \in 1 .. Len(s) : s[i] = s[j] => i = j,
         {s[k] : k \in 1 .. Len(s)} = h
  PROVE  Accounted(AfterDels(l, z, t, s).links, z, {}, AfterDels(l, z, t, s).table)
<1> DEFINE AfterDel[k \in 0 .. Len(s)] ==
             IF k = 0 THEN [links |-> l, table |-> t]
             ELSE [links |-> Mmem!ListDel(AfterDel[k - 1].links, s[k]),
                   table |-> Mmem!BlockDel(AfterDel[k - 1].table, z[s[k]])]
<1>1. AfterDels(l, z, t, s) = AfterDel[Len(s)]
  BY DEF AfterDels
<1>2. PICK n \in Nat : n = Len(s)
  OBVIOUS
<1>3. \A k \in 1 .. n : s[k] \in Addrs /\ s[k] \in Nodes
  BY <1>2 DEF Nodes
<1>4. z \in [Addrs -> Nat] /\ Overhead \in Nat /\ l \in Links /\ t \in Numbers
  BY DEF Accounted, Mmem!MmemDebugAssumption
<1>5. AfterDel = [k \in 0 .. Len(s) |->
             IF k = 0 THEN [links |-> l, table |-> t]
             ELSE [links |-> Mmem!ListDel(AfterDel[k - 1].links, s[k]),
                   table |-> Mmem!BlockDel(AfterDel[k - 1].table, z[s[k]])]]
  <2> DEFINE D == [links : Links, table : Numbers]
             Del(k, x) == [links |-> Mmem!ListDel(x.links, s[k]),
                           table |-> Mmem!BlockDel(x.table, z[s[k]])]
             F == [k \in Nat |-> [x \in D |-> IF k \in 1 .. n THEN Del(k, x) ELSE x]]
             first == [links |-> l, table |-> t]
  <2>1. \A k \in 1 .. n : \A x \in D : Del(k, x) \in D
    <3>1. ASSUME NEW k \in 1 .. n, NEW x \in D
          PROVE  Mmem!ListDel(x.links, s[k]) \in Links
      <4>1. x.links \in Links
        OBVIOUS
      <4>2. PICK y : y = x.links /\ y \in Links
        BY <4>1
      <4>3. PICK a \in Nodes : a = s[k]
        BY <1>3
      <4>4. /\ y.prev \in [Nodes -> Nodes \cup {Mmem!Poison}]
            /\ y.next \in [Nodes -> Nodes \cup {Mmem!Poison}]
        BY <4>2 DEF Links
      <4>5. Mmem!ListDel(y, a) = [prev |-> [y.prev EXCEPT ![y.next[a]] = y.prev[a], ![a] = Mmem!Poison],
                                  next |-> [y.next EXCEPT ![y.prev[a]] = y.next[a], ![a] = Mmem!Poison]]
        BY DEF Mmem!ListDel
      <4>6. /\ [y.prev EXCEPT ![y.next[a]] = y.prev[a], ![a] = Mmem!Poison]
                 \in [Nodes -> Nodes \cup {Mmem!Poison}]
            /\ [y.next EXCEPT ![y.prev[a]] = y.next[a], ![a] = Mmem!Poison]
                 \in [Nodes -> Nodes \cup {Mmem!Poison}]
        BY <4>4
      <4>7. PICK p, q \in [Nodes -> Nodes \cup {Mmem!Poison}] :
                 /\ p = [y.prev EXCEPT ![y.next[a]] = y.prev[a], ![a] = Mmem!Poison]
                 /\ q = [y.next EXCEPT ![y.prev[a]] = y.next[a], ![a] = Mmem!Poison]
        BY <4>6, Zenon
      <4>8. Mmem!ListDel(y, a) = [prev |-> p, next |-> q]
        BY <4>5, <4>7, Zenon
      <4>9. Mmem!ListDel(y, a) \in Links
        BY <4>8 DEF Links
      <4>. QED
        BY <4>2, <4>3, <4>9, Zenon
    <3>2. ASSUME NEW k \in 1 .. n, NEW x \in D
          PROVE  Mmem!BlockDel(x.table, z[s[k]]) \in Numbers
      <4>1. x.table \in Numbers
        OBVIOUS
      <4>2. PICK u : u = x.table /\ u \in Numbers
        BY <4>1
      <4>3. PICK c \in Nat : c = z[s[k]]
        BY <1>3, <1>4
      <4>4. /\ u.count \in Int /\ u.total \in Int /\ u.active \in Int
            /\ u.max_total \in Int /\ u.max_active \in Int
        BY <4>2 DEF Numbers
      <4>5. u.count - 1 \in Int /\ u.total - c - Overhead \in Int /\ u.active - c \in Int
        <5>1. \A i \in Int : i - 1 \in Int /\ i - c \in Int /\ i - c - Overhead \in Int
          <6>1. Overhead \in Int /\ c \in Int
            BY <1>4
          <6>. QED
            BY <6>1
        <5>. QED
          BY <4>4, <5>1, Zenon
      <4>6. Mmem!BlockDel(u, c) =
              [count |-> u.count - 1, total |-> u.total - c - Overhead, active |-> u.active - c,
               max_total |-> u.max_total, max_active |-> u.max_active]
        <5>1. Mmem!BlockDel(u, c) = [u EXCEPT !.count = @ - 1, !.total = @ - c - Overhead, !.active = @ - c]
          BY DEF Mmem!BlockDel
        <5>. QED
          BY <4>2, <5>1 DEF Numbers
      <4>7. Mmem!BlockDel(u, c) \in Numbers
        BY <4>4, <4>5, <4>6 DEF Numbers
      <4>. QED
        BY <4>2, <4>3, <4>7
    <3>. QED
      BY <3>1, <3>2
  <2>2. first \in D
    BY <1>4
  <2>3. \A k \in 1 .. n : \A x \in D : Del(k, x) = [links |-> Mmem!ListDel(x.links, s[k]),
                                                    table |-> Mmem!BlockDel(x.table, z[s[k]])]
    OBVIOUS
  <2>4. first = [links |-> l, table |-> t]
    OBVIOUS
  <2> HIDE DEF D, Del, first
  <2>5. F \in [Nat -> [D -> D]]
    <3>1. \A k \in Nat : [x \in D |-> IF k \in 1 .. n THEN Del(k, x) ELSE x] \in [D -> D]
      BY <2>1
    <3>. QED
      BY <3>1
  <2>6. \A k \in 1 .. n : \A x \in D : F[k][x] = Del(k, x)
    OBVIOUS
  <2> HIDE DEF F
  <2>7. PICK g : Computes(g, F, first, n, D)
    BY <2>2, <2>5, Recursion, Zenon
  <2>8. g \in [0 .. n -> D] /\ g[0] = first /\ \A k \in 1 .. n : g[k] = F[k][g[k - 1]]
    BY <2>7 DEF Computes
  <2>9. ASSUME NEW k \in 0 .. n
        PROVE  g[k] = IF k = 0 THEN [links |-> l, table |-> t]
                      ELSE [links |-> Mmem!ListDel(g[k - 1].links, s[k]),
                            table |-> Mmem!BlockDel(g[k - 1].table, z[s[k]])]
    <3>1. CASE k = 0
      BY <2>4, <2>8, <3>1, Zenon
    <3>2. CASE k # 0
      <4>1. k \in 1 .. n /\ k - 1 \in 0 .. n
        BY <3>2
      <4>2. g[k - 1] \in D
        BY <2>8, <4>1, Zenon
      <4>3. g[k] = Del(k, g[k - 1])
        BY <2>6, <2>8, <4>1, <4>2, Zenon
      <4>. QED
        BY <2>3, <3>2, <4>1, <4>2, <4>3, Zenon
    <3>. QED
      BY <3>1, <3>2
  <2>10. g = [k \in 0 .. n |-> g[k]]
    BY <2>8
  <2>11. g = [k \in 0 .. n |->
               IF k = 0 THEN [links |-> l, table |-> t]
               ELSE [links |-> Mmem!ListDel(g[k - 1].links, s[k]),
                     table |-> Mmem!BlockDel(g[k - 1].table, z[s[k]])]]
    BY <2>9, <2>10
  <2>12. g = [k \in 0 .. Len(s) |->
               IF k = 0 THEN [links |-> l, table |-> t]
               ELSE [links |-> Mmem!ListDel(g[k - 1].links, s[k]),
                     table |-> Mmem!BlockDel(g[k - 1].table, z[s[k]])]]
    BY <1>2, <2>11
  <2>. QED
    BY <2>12
<1> HIDE DEF AfterDel
<1>6. \A k \in 0 .. n : AfterDel[k] =
             IF k = 0 THEN [links |-> l, table |-> t]
             ELSE [links |-> Mmem!ListDel(AfterDel[k - 1].links, s[k]),
                   table |-> Mmem!BlockDel(AfterDel[k - 1].table, z[s[k]])]
  BY <1>2, <1>5, Zenon
<1> DEFINE Left(k) == {s[i] : i \in k + 1 .. n}
           T == {k \in 0 .. n : Accounted(AfterDel[k].links, z, Left(k), AfterDel[k].table)}
<1>7. 0 \in T
  <2>1. AfterDel[0] = [links |-> l, table |-> t]
    <3>1. 0 \in 0 .. n
      OBVIOUS
    <3>. QED
      BY <1>6, <3>1, Zenon
  <2>2. AfterDel[0].links = l /\ AfterDel[0].table = t
    BY <2>1
  <2>3. Left(0) = h
    BY <1>2
  <2> HIDE DEF Left
  <2>. QED
    BY <2>2, <2>3
<1>8. ASSUME NEW k \in 0 .. n - 1, k \in T
      PROVE  k + 1 \in T
  <2>1. k \in 0 .. n /\ k + 1 \in 0 .. n /\ k + 1 \in 1 .. n /\ k + 1 # 0 /\ k + 1 - 1 = k
    OBVIOUS
  <2>2. AfterDel[k + 1] = [links |-> Mmem!ListDel(AfterDel[k].links, s[k + 1]),
                           table |-> Mmem!BlockDel(AfterDel[k].table, z[s[k + 1]])]
    <3>1. AfterDel[k + 1] = [links |-> Mmem!ListDel(AfterDel[k + 1 - 1].links, s[k + 1]),
                             table |-> Mmem!BlockDel(AfterDel[k + 1 - 1].table, z[s[k + 1]])]
      BY <1>6, <2>1
    <3>. QED
      BY <2>1, <3>1, Zenon
  <2>3. /\ AfterDel[k + 1].links = Mmem!ListDel(AfterDel[k].links, s[k + 1])
        /\ AfterDel[k + 1].table = Mmem!BlockDel(AfterDel[k].table, z[s[k + 1]])
    BY <2>2
  <2>4. s[k + 1] \in Left(k)
    OBVIOUS
  <2>5. Left(k + 1) = Left(k) \ {s[k + 1]}
    <3>1. \A i : i \in k + 1 .. n <=> i = k + 1 \/ i \in k + 1 + 1 .. n
      BY <2>1
    <3>2. \A i \in k + 1 + 1 .. n : s[i] # s[k + 1]
      BY <1>2, <2>1
    <3>. QED
      BY <3>1, <3>2
  <2>6. Accounted(AfterDel[k].links, z, Left(k), AfterDel[k].table)
    BY <1>8
  <2> HIDE DEF Left
  <2>7. Accounted(Mmem!ListDel(AfterDel[k].links, s[k + 1]), z, Left(k) \ {s[k + 1]},
                  Mmem!BlockDel(AfterDel[k].table, z[s[k + 1]]))
    BY <2>4, <2>6, AccountedDel, Zenon
  <2>. QED
    BY <2>1, <2>3, <2>5, <2>7, Zenon
<1>9. n \in T
  <2> HIDE DEF T
  <2>1. \A k \in 0 .. n - 1 : k \in T => k + 1 \in T
    BY <1>8
  <2>2. \A k \in 0 .. n : k \in T
    BY <1>7, <2>1, Induction
  <2>3. n \in 0 .. n
    OBVIOUS
  <2>. QED
    BY <2>2, <2>3
<1>10. Left(n) = {}
  OBVIOUS
<1>11. Accounted(AfterDel[n].links, z, Left(n), AfterDel[n].table)
  BY <1>9, Zenon
<1> HIDE DEF Left
<1>. QED
  BY <1>1, <1>2, <1>10, <1>11, Zenon


---------------------------------------------------------------------------
(* Initially the ring is the head alone.                                   *)
LEMMA AccountedInit ==
  ASSUME Mmem!MmemDebugAssumption, Mmem!Init
  PROVE  Accounted(block_links, size, heap, table)
<1> DEFINE s == <<>>
           g == [k \in 0 .. 0 |-> 0]
<1>1. /\ block_links = [prev |-> [x \in Nodes |-> IF x = ListHead THEN ListHead ELSE Mmem!Poison],
                  next |-> [x \in Nodes |-> IF x = ListHead THEN ListHead ELSE Mmem!Poison]]
      /\ heap = {} /\ size = [a \in Addrs |-> 0]
      /\ table = [count |-> 0, total |-> 0, active |-> 0, max_total |-> 0, max_active |-> 0]
  BY DEF Mmem!Init, Mmem!ListInit, Mmem!NoTable, Nodes
<1>2. ListHead \in Nodes /\ Overhead \in Nat
  BY DEF Nodes, Mmem!MmemDebugAssumption
<1>3. /\ block_links \in Links
      /\ block_links.prev[ListHead] = ListHead /\ block_links.next[ListHead] = ListHead
  BY <1>1, <1>2 DEF Links
<1>4. s \in Seq(Addrs) /\ Len(s) = 0 /\ \A k : At(s, k) = ListHead
  BY DEF At
<1>5. g \in [0 .. 0 -> Nat] /\ g[0] = 0
  OBVIOUS
<1> HIDE DEF s, g
<1>6. Ring(block_links, s)
  BY <1>3, <1>4 DEF Ring
<1>7. Sums(s, size, g)
  BY <1>4, <1>5 DEF Sums
<1>8. Says(table, 0, 0)
  <2>1. Overhead * 0 = 0
    BY <1>2
  <2>. QED
    BY <1>1, <2>1 DEF Says
<1>9. Listed(block_links, size, heap, table, s, g)
  BY <1>1, <1>4, <1>5, <1>6, <1>7, <1>8 DEF Listed
<1>10. table \in Numbers /\ size \in [Addrs -> Nat]
  BY <1>1 DEF Numbers
<1>. QED
  BY <1>1, <1>3, <1>4, <1>9, <1>10 DEF Accounted

LEMMA MmemAlloc ==
  ASSUME Mmem!MmemDebugAssumption, MmemInv, NEW a \in Addrs, NEW n \in Sizes, Mmem!Alloc(a, n)
  PROVE  MmemInv'
<1>1. /\ n \in Nat /\ a \in Addrs \ heap
      /\ magic \in [Addrs -> {"active", "free"}] /\ \A x \in Addrs : magic[x] = "active" <=> x \in heap
      /\ Accounted(block_links, size, heap, table)
  BY DEF MmemInv, Mmem!Alloc, Mmem!MmemDebugAssumption
<1>2. /\ heap' = heap \cup {a} /\ magic' = [magic EXCEPT ![a] = "active"]
      /\ size' = [size EXCEPT ![a] = n] /\ block_links' = Mmem!ListAddTail(block_links, ListHead, a)
      /\ table' = Mmem!BlockAdd(table, n) /\ dump' = Mmem!NoDump
  BY DEF Mmem!Alloc
<1>3. Accounted(block_links', size', heap', table')
  BY <1>1, <1>2, AccountedAdd
<1>4. magic' \in [Addrs -> {"active", "free"}] /\ \A x \in Addrs : magic'[x] = "active" <=> x \in heap'
  BY <1>1, <1>2
<1>. QED
  BY <1>2, <1>3, <1>4 DEF MmemInv, Mmem!DumpFits, Mmem!NoDump

LEMMA MmemFree ==
  ASSUME Mmem!MmemDebugAssumption, MmemInv, NEW a \in Addrs, Mmem!Free(a)
  PROVE  MmemInv'
<1>1. /\ a \in heap
      /\ magic \in [Addrs -> {"active", "free"}] /\ \A x \in Addrs : magic[x] = "active" <=> x \in heap
      /\ Accounted(block_links, size, heap, table)
  BY DEF MmemInv, Mmem!Free
<1>2. /\ heap' = heap \ {a} /\ magic' = [magic EXCEPT ![a] = "free"]
      /\ size' = size /\ block_links' = Mmem!ListDel(block_links, a)
      /\ table' = Mmem!BlockDel(table, size[a]) /\ dump' = Mmem!NoDump
  BY DEF Mmem!Free
<1>3. Accounted(block_links', size', heap', table')
  BY <1>1, <1>2, AccountedDel
<1>4. magic' \in [Addrs -> {"active", "free"}] /\ \A x \in Addrs : magic'[x] = "active" <=> x \in heap'
  BY <1>1, <1>2
<1>. QED
  BY <1>2, <1>3, <1>4 DEF MmemInv, Mmem!DumpFits, Mmem!NoDump

(* A block that is taken from the list and put back, here or where the C   *)
(* allocator moved it, is accounted for with the size that it has then.    *)
LEMMA AccountedMoved ==
  ASSUME Mmem!MmemDebugAssumption, NEW l, NEW z, NEW h, NEW t, Accounted(l, z, h, t),
         NEW a \in h, NEW b \in Addrs, b = a \/ b \notin h, NEW n \in Nat
  PROVE  Accounted(Mmem!ListAddTail(Mmem!ListInit(Mmem!ListDel(l, a), b), ListHead, b),
                   [z EXCEPT ![b] = n], (h \ {a}) \cup {b},
                   Mmem!BlockAdd(Mmem!BlockDel(t, z[a]), n))
<1>1. b \in Addrs \ (h \ {a})
  OBVIOUS
<1>2. Accounted(Mmem!ListDel(l, a), z, h \ {a}, Mmem!BlockDel(t, z[a]))
  BY AccountedDel, Zenon
<1>3. Accounted(Mmem!ListInit(Mmem!ListDel(l, a), b), z, h \ {a}, Mmem!BlockDel(t, z[a]))
  BY <1>1, <1>2, AccountedWithNode, Zenon
<1>. QED
  BY <1>1, <1>3, AccountedAdd, Zenon

LEMMA MmemReallocFails ==
  ASSUME Mmem!MmemDebugAssumption, MmemInv, NEW a \in Addrs, NEW n \in Sizes,
         Mmem!ReallocFails(a, n)
  PROVE  MmemInv'
<1>1. /\ a \in heap
      /\ magic \in [Addrs -> {"active", "free"}] /\ \A x \in Addrs : magic[x] = "active" <=> x \in heap
      /\ Accounted(block_links, size, heap, table)
  BY DEF MmemInv, Mmem!ReallocFails
<1>2. /\ block_links' = Mmem!ListAddTail(Mmem!ListInit(Mmem!ListDel(block_links, a), a), ListHead, a)
      /\ table' = Mmem!BlockAdd(Mmem!BlockDel(table, size[a]), size[a])
      /\ dump' = Mmem!NoDump /\ heap' = heap /\ magic' = magic /\ size' = size
  BY DEF Mmem!ReallocFails
<1>3. size[a] \in Nat /\ size = [size EXCEPT ![a] = size[a]] /\ heap = (heap \ {a}) \cup {a}
  BY <1>1 DEF Accounted
<1>4. Accounted(Mmem!ListAddTail(Mmem!ListInit(Mmem!ListDel(block_links, a), a), ListHead, a),
                [size EXCEPT ![a] = size[a]], (heap \ {a}) \cup {a},
                Mmem!BlockAdd(Mmem!BlockDel(table, size[a]), size[a]))
  BY <1>1, <1>3, AccountedMoved, Zenon
<1>5. Accounted(block_links', size', heap', table')
  BY <1>2, <1>3, <1>4, Zenon
<1>. QED
  BY <1>1, <1>2, <1>5 DEF MmemInv, Mmem!DumpFits, Mmem!NoDump

LEMMA MmemRealloc ==
  ASSUME Mmem!MmemDebugAssumption, MmemInv, NEW a \in Addrs, NEW b \in Addrs, NEW n \in Sizes,
         Mmem!Realloc(a, b, n)
  PROVE  MmemInv'
<1>1. /\ a \in heap /\ n \in Nat /\ (b = a \/ b \notin heap)
      /\ magic \in [Addrs -> {"active", "free"}] /\ \A x \in Addrs : magic[x] = "active" <=> x \in heap
      /\ Accounted(block_links, size, heap, table)
  BY DEF MmemInv, Mmem!Realloc, Mmem!MmemDebugAssumption
<1>2. /\ block_links' = Mmem!ListAddTail(Mmem!ListInit(Mmem!ListDel(block_links, a), b), ListHead, b)
      /\ table' = Mmem!BlockAdd(Mmem!BlockDel(table, size[a]), n)
      /\ dump' = Mmem!NoDump /\ heap' = (heap \ {a}) \cup {b}
      /\ magic' = [magic EXCEPT ![a] = "free", ![b] = "active"]
      /\ size' = [size EXCEPT ![b] = n]
  BY DEF Mmem!Realloc
<1>3. Accounted(block_links', size', heap', table')
  BY <1>1, <1>2, AccountedMoved, Zenon
<1>4. magic' \in [Addrs -> {"active", "free"}] /\ \A x \in Addrs : magic'[x] = "active" <=> x \in heap'
  BY <1>1, <1>2
<1>. QED
  BY <1>2, <1>3, <1>4 DEF MmemInv, Mmem!DumpFits, Mmem!NoDump

LEMMA MmemFreeAll ==
  ASSUME Mmem!MmemDebugAssumption, MmemInv, Mmem!FreeAll
  PROVE  MmemInv'
<1>1. /\ magic \in [Addrs -> {"active", "free"}] /\ \A x \in Addrs : magic[x] = "active" <=> x \in heap
      /\ Accounted(block_links, size, heap, table)
  BY DEF MmemInv
<1>2. /\ block_links' = AfterDels(block_links, size, table, Mmem!Blocks).links
      /\ table' = AfterDels(block_links, size, table, Mmem!Blocks).table
  BY Zenon DEF Mmem!FreeAll, AfterDels
<1>list. PICK s \in Seq(Addrs) : s = Mmem!Blocks /\ \E g : Listed(block_links, size, heap, table, s, g)
  BY <1>1, BlocksAre
<1>3. PICK g : s = Mmem!Blocks /\ Listed(block_links, size, heap, table, s, g)
  BY <1>list
<1>4. {s[k] : k \in 1 .. Len(s)} = heap /\ \A i, j \in 1 .. Len(s) : s[i] = s[j] => i = j
  BY <1>3 DEF Listed, Ring
<1>5. Accounted(AfterDels(block_links, size, table, s).links, size, {}, AfterDels(block_links, size, table, s).table)
  BY <1>1, <1>4, AccountedNone, Zenon
<1>6. Mmem!ToSet(s) = heap
  <2>1. DOMAIN s = 1 .. Len(s)
    OBVIOUS
  <2>. QED
    BY <1>4, <2>1, Zenon DEF Mmem!ToSet
<1>7. /\ heap' = heap \ Mmem!ToSet(s)
      /\ magic' = [a \in Addrs |-> IF a \in Mmem!ToSet(s) THEN "free" ELSE magic[a]]
      /\ dump' = Mmem!NoDump /\ size' = size
  BY <1>3, Zenon DEF Mmem!FreeAll
<1>8. heap' = {}
  BY <1>6, <1>7
<1>9. Accounted(block_links', size', heap', table')
  BY <1>2, <1>3, <1>5, <1>7, <1>8, Zenon
<1>10. magic' \in [Addrs -> {"active", "free"}] /\ \A x \in Addrs : magic'[x] = "active" <=> x \in heap'
  BY <1>1, <1>6, <1>7, <1>8
<1>. QED
  BY <1>7, <1>9, <1>10 DEF MmemInv, Mmem!DumpFits, Mmem!NoDump

LEMMA MmemDump ==
  ASSUME Mmem!MmemDebugAssumption, MmemInv, NEW asked \in 0 .. MaxInfos,
         NEW room \in 0 .. MaxInfos, Mmem!Dump(asked, room)
  PROVE  MmemInv'
<1>1. Accounted(block_links, size, heap, table) /\ asked \in Nat /\ room \in Nat /\ asked >= 1 /\ room >= 1
  BY DEF MmemInv, Mmem!MmemDebugAssumption, Mmem!Dump
<1>list. PICK s \in Seq(Addrs) : s = Mmem!Blocks /\ \E g : Listed(block_links, size, heap, table, s, g)
  BY <1>1, BlocksAre
<1>2. PICK g : s = Mmem!Blocks /\ Listed(block_links, size, heap, table, s, g)
  BY <1>list
<1>3. PICK len \in Nat : len = Len(s) /\ table.count = len
  BY <1>2 DEF Listed, Says
<1> DEFINE n == Mmem!InfoCount(s, asked, room)
           Stops(k) == k = len \/ k >= asked \/ room - k < 1
<1>4. /\ n \in 0 .. len /\ Stops(n)
      /\ \A k \in 1 .. n - 1 : k < asked /\ room - k >= 1
  <2>1. PICK m \in {k \in 0 .. len : Stops(k)} : \A k \in {k \in 0 .. len : Stops(k)} : m <= k
    <3>1. {k \in 0 .. len : Stops(k)} \in SUBSET Nat
      OBVIOUS
    <3>2. len \in {k \in 0 .. len : Stops(k)}
      OBVIOUS
    <3> HIDE DEF Stops
    <3>3. {k \in 0 .. len : Stops(k)} # {}
      BY <3>2
    <3>. QED
      BY <3>1, <3>3, LeastOne
  <2>2. \A k \in 1 .. m - 1 : k < asked /\ room - k >= 1
    <3>1. ASSUME NEW k \in 1 .. m - 1
          PROVE  k < asked /\ room - k >= 1
      <4>1. k \in 0 .. len /\ ~ (m <= k)
        BY <1>3, <2>1
      <4>2. ~ Stops(k)
        BY <2>1, <4>1
      <4>. QED
        BY <1>1, <4>2
    <3>. QED
      BY <3>1
  <2>3. m \in 0 .. len /\ Stops(m)
    BY <2>1
  <2>4. n = CHOOSE k \in 0 .. len : Stops(k) /\ \A i \in 1 .. k - 1 : i < asked /\ room - i >= 1
    BY <1>3, Zenon DEF Mmem!InfoCount
  <2> HIDE DEF n, Stops
  <2>. QED
    BY <2>2, <2>3, <2>4, Zenon
<1>5. /\ dump'.counts = asked /\ dump'.room = room /\ dump'.infos = [k \in 1 .. n |-> size[s[k]]]
      /\ heap' = heap /\ magic' = magic /\ size' = size /\ block_links' = block_links /\ table' = table
  <2>1. dump' = [counts |-> asked, room |-> room, infos |-> [k \in 1 .. n |-> size[s[k]]]]
    BY <1>2, Zenon DEF Mmem!Dump
  <2> HIDE DEF n
  <2>2. /\ heap' = heap /\ magic' = magic /\ size' = size /\ block_links' = block_links /\ table' = table
    BY DEF Mmem!Dump
  <2>. QED
    BY <2>1, <2>2
<1> HIDE DEF n
<1>6. Len(dump'.infos) = n
  <2>1. n \in Nat /\ dump'.infos = [k \in 1 .. n |-> size[s[k]]]
    BY <1>4, <1>5
  <2>. QED
    BY <2>1
<1>7. n <= asked /\ n <= room
  <2>1. CASE n <= 1
    BY <1>1, <1>4, <2>1
  <2>2. CASE n > 1
    <3>1. n - 1 \in 1 .. n - 1
      BY <1>4, <2>2
    <3>2. n - 1 < asked /\ room - (n - 1) >= 1
      BY <1>4, <3>1
    <3>. QED
      BY <1>1, <1>4, <3>2
  <2>. QED
    BY <1>4, <2>1, <2>2
<1>8. n = asked \/ n = room \/ n = len
  BY <1>1, <1>4, <1>7
<1>9. Mmem!DumpFits'
  <2>1. /\ Len(dump'.infos) <= dump'.counts /\ Len(dump'.infos) <= dump'.room
        /\ Len(dump'.infos) \in {dump'.counts, dump'.room, table'.count}
    BY <1>3, <1>5, <1>6, <1>7, <1>8
  <2>. QED
    BY <2>1, Zenon DEF Mmem!DumpFits
<1>. QED
  BY <1>5, <1>9 DEF MmemInv


LEMMA MmemInvHolds ==
  ASSUME Mmem!MmemDebugAssumption
  PROVE  Mmem!Spec => []MmemInv
<1>1. Mmem!Init => MmemInv
  <2> SUFFICES ASSUME Mmem!Init PROVE MmemInv
    OBVIOUS
  <2>1. Accounted(block_links, size, heap, table)
    BY AccountedInit
  <2>2. magic = [a \in Addrs |-> "free"] /\ heap = {} /\ dump = Mmem!NoDump
    BY DEF Mmem!Init
  <2>. QED
    BY <2>1, <2>2 DEF MmemInv, Mmem!DumpFits
<1>2. MmemInv /\ [Mmem!Next]_Mmem!vars => MmemInv'
  <2> SUFFICES ASSUME MmemInv, [Mmem!Next]_Mmem!vars
               PROVE  MmemInv'
    OBVIOUS
  <2>1. ASSUME NEW a \in Addrs, NEW n \in Sizes, Mmem!Alloc(a, n)
        PROVE  MmemInv'
    BY <2>1, MmemAlloc
  <2>2. ASSUME NEW a \in Addrs, NEW n \in Sizes, Mmem!ReallocFails(a, n)
        PROVE  MmemInv'
    BY <2>2, MmemReallocFails
  <2>3. ASSUME NEW a \in Addrs, NEW b \in Addrs, NEW n \in Sizes, Mmem!Realloc(a, b, n)
        PROVE  MmemInv'
    BY <2>3, MmemRealloc
  <2>4. ASSUME NEW a \in Addrs, Mmem!Free(a)
        PROVE  MmemInv'
    BY <2>4, MmemFree
  <2>5. ASSUME NEW a \in Addrs, Mmem!FreeRefused(a)
        PROVE  MmemInv'
    BY <2>5 DEF MmemInv, Mmem!FreeRefused, Mmem!DumpFits, Mmem!NoDump
  <2>6. CASE Mmem!FreeAll
    BY <2>6, MmemFreeAll
  <2>7. ASSUME NEW asked \in 0 .. MaxInfos, NEW room \in 0 .. MaxInfos, Mmem!Dump(asked, room)
        PROVE  MmemInv'
    BY <2>7, MmemDump
  <2>8. CASE UNCHANGED Mmem!vars
    BY <2>8 DEF MmemInv, Mmem!vars, Mmem!DumpFits, Mmem!NoDump
  <2>. QED
    BY <2>1, <2>2, <2>3, <2>4, <2>5, <2>6, <2>7, <2>8, Zenon DEF Mmem!Next
<1>. QED
  BY <1>1, <1>2, PTL DEF Mmem!Spec

LEMMA SumSizesIs ==
  ASSUME NEW s \in Seq(Addrs), NEW g, Sums(s, size, g), size \in [Addrs -> Nat]
  PROVE  Mmem!SumSizes(s) = g[Len(s)]
<1> DEFINE sum[k \in 0 .. Len(s)] == IF k = 0 THEN 0 ELSE sum[k - 1] + size[s[k]]
<1>1. Mmem!SumSizes(s) = sum[Len(s)]
  BY DEF Mmem!SumSizes
<1>2. PICK n \in Nat : n = Len(s)
  OBVIOUS
<1>3. g \in [0 .. n -> Nat] /\ g[0] = 0 /\ \A k \in 1 .. n : g[k] = g[k - 1] + size[s[k]]
  BY <1>2 DEF Sums
<1>4. sum = [k \in 0 .. Len(s) |-> IF k = 0 THEN 0 ELSE sum[k - 1] + size[s[k]]]
  <2>1. \A k \in 0 .. n : g[k] = IF k = 0 THEN 0 ELSE g[k - 1] + size[s[k]]
    <3>1. \A k \in 0 .. n : k = 0 \/ k \in 1 .. n
      OBVIOUS
    <3>. QED
      BY <1>3, <3>1
  <2>2. g = [k \in 0 .. n |-> g[k]]
    BY <1>3
  <2>3. g = [k \in 0 .. n |-> IF k = 0 THEN 0 ELSE g[k - 1] + size[s[k]]]
    BY <2>1, <2>2
  <2>4. g = [k \in 0 .. Len(s) |-> IF k = 0 THEN 0 ELSE g[k - 1] + size[s[k]]]
    BY <1>2, <2>3
  <2>. QED
    BY <2>4
<1> HIDE DEF sum
<1>5. \A k \in 0 .. n : sum[k] = IF k = 0 THEN 0 ELSE sum[k - 1] + size[s[k]]
  BY <1>2, <1>4, Zenon
<1> DEFINE T == {k \in 0 .. n : sum[k] = g[k]}
<1>6. 0 \in T
  BY <1>3, <1>5
<1>7. ASSUME NEW k \in 0 .. n - 1, k \in T
      PROVE  k + 1 \in T
  <2>1. k + 1 \in 0 .. n /\ k + 1 \in 1 .. n /\ k + 1 # 0 /\ k + 1 - 1 = k
    OBVIOUS
  <2>2. sum[k + 1] = sum[k] + size[s[k + 1]]
    BY <1>5, <2>1
  <2>3. g[k + 1] = g[k] + size[s[k + 1]]
    BY <1>3, <2>1
  <2>. QED
    BY <1>7, <2>1, <2>2, <2>3
<1>8. n \in T
  <2> HIDE DEF T
  <2>1. \A k \in 0 .. n - 1 : k \in T => k + 1 \in T
    BY <1>7
  <2>2. \A k \in 0 .. n : k \in T
    BY <1>6, <2>1, Induction
  <2>3. n \in 0 .. n
    OBVIOUS
  <2>. QED
    BY <2>2, <2>3
<1>. QED
  BY <1>1, <1>2, <1>8

(* A ring of links is a list, as mlist_for_each and its inverse see it.    *)
LEMMA RingIsList ==
  ASSUME NEW l, NEW s \in Seq(Addrs), Ring(l, s), ListHead \notin Addrs
  PROVE  Mmem!ListIs(l, ListHead, s)
<1> DEFINE ring == <<ListHead>> \o s
           After(k) == IF k = Len(ring) THEN ListHead ELSE ring[k + 1]
<1>1. PICK n \in Nat : n = Len(s)
  OBVIOUS
<1>2. /\ Len(ring) = n + 1 /\ DOMAIN ring = 1 .. n + 1 /\ ring[1] = ListHead
      /\ \A k \in 1 .. n : ring[k + 1] = s[k]
  BY <1>1
<1>3. \A k \in 1 .. n + 1 : After(k) = IF k = n + 1 THEN ListHead ELSE ring[k + 1]
  BY <1>2
<1> HIDE DEF ring, After
<1>4. /\ At(s, 0) = ListHead /\ At(s, n + 1) = ListHead
      /\ \A k \in 1 .. n : At(s, k) = s[k]
      /\ \A i, j \in 0 .. n : At(s, i) = At(s, j) => i = j
  BY <1>1, AtIs, Zenon DEF Ring
<1>5. \A k \in 1 .. n + 1 : ring[k] = At(s, k - 1)
  <2>1. ASSUME NEW k \in 1 .. n + 1
        PROVE  ring[k] = At(s, k - 1)
    <3>1. CASE k = 1
      BY <1>2, <1>4, <3>1
    <3>2. CASE k # 1
      <4>1. k - 1 \in 1 .. n /\ k - 1 + 1 = k
        BY <3>2
      <4>. QED
        BY <1>2, <1>4, <4>1
    <3>. QED
      BY <3>1, <3>2
  <2>. QED
    BY <2>1
<1>6. \A k \in 1 .. n + 1 : After(k) = At(s, k)
  <2>1. ASSUME NEW k \in 1 .. n + 1
        PROVE  After(k) = At(s, k)
    <3>1. CASE k = n + 1
      BY <1>3, <1>4, <3>1
    <3>2. CASE k # n + 1
      <4>1. k \in 1 .. n
        BY <3>2
      <4>. QED
        BY <1>2, <1>3, <1>4, <3>2, <4>1
    <3>. QED
      BY <3>1, <3>2
  <2>. QED
    BY <2>1
<1>7. \A k \in 1 .. Len(ring) : l.next[ring[k]] = After(k) /\ l.prev[After(k)] = ring[k]
  <2>1. ASSUME NEW k \in 1 .. n + 1
        PROVE  l.next[ring[k]] = After(k) /\ l.prev[After(k)] = ring[k]
    <3>1. PICK i \in 0 .. n : i = k - 1 /\ i + 1 = k
      <4>1. k - 1 \in 0 .. n /\ k - 1 + 1 = k
        OBVIOUS
      <4>. QED
        BY <4>1
    <3>2. l.next[At(s, i)] = At(s, i + 1) /\ l.prev[At(s, i + 1)] = At(s, i)
      BY <1>1 DEF Ring
    <3>. QED
      BY <1>5, <1>6, <3>1, <3>2
  <2>. QED
    BY <1>2, <2>1
<1>8. \A i, j \in DOMAIN ring : ring[i] = ring[j] => i = j
  <2>1. ASSUME NEW i \in 1 .. n + 1, NEW j \in 1 .. n + 1, ring[i] = ring[j]
        PROVE  i = j
    <3>1. i - 1 \in 0 .. n /\ j - 1 \in 0 .. n
      OBVIOUS
    <3>2. i - 1 = j - 1
      BY <1>4, <1>5, <2>1, <3>1
    <3>. QED
      BY <3>2
  <2>. QED
    BY <1>2, <2>1
<1>. QED
  BY <1>7, <1>8, Zenon DEF ring, After, Mmem!ListIs, Mmem!IsInjective

(* However blocks are allocated, reallocated and freed, none is lost to    *)
(* the list, none stays on it after its memory has gone back, and the      *)
(* counters and a dump say what is on it (mmem_debug.c:143-558).           *)
THEOREM BlocksAccountedHolds ==
  ASSUME Mmem!MmemDebugAssumption
  PROVE  Mmem!Spec => []BlocksAccounted
<1>1. ASSUME MmemInv
      PROVE  BlocksAccounted
  <2>1. Accounted(block_links, size, heap, table) /\ Mmem!DumpFits
        /\ \A a \in Addrs : magic[a] = "active" <=> a \in heap
    BY <1>1 DEF MmemInv
  <2>list. PICK s \in Seq(Addrs) : s = Mmem!Blocks /\ \E g : Listed(block_links, size, heap, table, s, g)
    BY <2>1, BlocksAre
  <2>2. PICK g : s = Mmem!Blocks /\ Listed(block_links, size, heap, table, s, g)
    BY <2>list
  <2>3. Ring(block_links, s) /\ {s[k] : k \in 1 .. Len(s)} = heap /\ Sums(s, size, g)
        /\ Says(table, Len(s), g[Len(s)])
    BY <2>2 DEF Listed
  <2>4. ListHead \notin Addrs
    BY DEF Mmem!MmemDebugAssumption
  <2>5. Mmem!ListIs(block_links, ListHead, s)
    BY <2>3, <2>4, RingIsList
  <2>6. Mmem!ToSet(s) = heap
    <3>1. DOMAIN s = 1 .. Len(s)
      OBVIOUS
    <3>. QED
      BY <2>3, <3>1, Zenon DEF Mmem!ToSet
  <2>7. Mmem!SumSizes(s) = g[Len(s)]
    BY <2>1, <2>3, SumSizesIs DEF Accounted
  <2>8. Mmem!Cardinality(heap) = Len(s)
    <3>1. \A i, j \in 1 .. Len(s) : s[i] = s[j] => i = j
      BY <2>3 DEF Ring
    <3>2. Cardinality(heap) = Len(s)
      BY <2>3, <3>1, AsManyAsListed, Zenon
    <3>. QED
      BY <3>2, MmemCardinality, Zenon
  <2>9. /\ table.count = Mmem!Cardinality(heap)
        /\ table.active = Mmem!SumSizes(s)
        /\ table.total = Mmem!SumSizes(s) + Overhead * Mmem!Cardinality(heap)
        /\ table.max_active >= table.active /\ table.max_total >= table.total
    BY <2>3, <2>7, <2>8, Zenon DEF Says
  <2>. QED
    BY <2>1, <2>2, <2>5, <2>6, <2>9, Zenon DEF BlocksAccounted, Mmem!BlocksAccounted
<1>. QED
  BY <1>1, MmemInvHolds, PTL

---------------------------------------------------------------------------
(* The table of polls.                                                     *)

(* EveryPollListed, word for word. *)
PollsListed ==
    /\ allocated = {list[i] : i \in 1 .. Len(list)} \ {NoPoll}
    /\ poll_counts = Cardinality(allocated)
    /\ \A i, j \in 1 .. Len(list) : list[i] = list[j] /\ list[i] # NoPoll => i = j

(* Handles lead to the polls that are allocated, and counts counts them.   *)
(* With EveryPollListed this is kept by every step; the number of polls is *)
(* needed to know which destroy is the last one, and the handles of polls  *)
(* that are gone, to know that the last one leaves none.                   *)
PollsInv ==
    /\ Netx!TypeOK
    /\ IsFiniteSet(allocated)
    /\ PollsListed
    /\ \A p \in allocated : handle[p] \in 1 .. Len(list) /\ list[handle[p]] = p
    /\ \A p \in Polls \ allocated : handle[p] = 0

LEMMA NetxCardinality ==
  ASSUME NEW S
  PROVE  Netx!Cardinality(S) = Cardinality(S)
BY Zenon DEF Netx!Cardinality, Cardinality

LEMMA PollsInvInit == Netx!Init => PollsInv
<1> SUFFICES ASSUME Netx!Init
             PROVE  PollsInv
  OBVIOUS
<1>1. IsFiniteSet({}) /\ Cardinality({}) = 0
  BY FS_EmptySet
<1>. QED
  BY <1>1 DEF Netx!Init, PollsInv, Netx!TypeOK, PollsListed

(* A table that is not to grow has a free place: its polls are fewer than  *)
(* its places.                                                             *)
LEMMA PlaceFree ==
  ASSUME Netx!NetxPollsAssumption, PollsInv
  PROVE  /\ Netx!CreateFindsPlace
         /\ Netx!Grown \in Seq(Polls \cup {NoPoll})
         /\ Len(list) <= Len(Netx!Grown)
         /\ \A i \in 1 .. Len(list) : Netx!Grown[i] = list[i]
         /\ \A i \in 1 .. Len(Netx!Grown) : Netx!Grown[i] # NoPoll => i \in 1 .. Len(list)
<1> USE DEF Netx!NetxPollsAssumption
<1>1. list \in Seq(Polls \cup {NoPoll}) /\ poll_counts \in Nat
  BY DEF PollsInv, Netx!TypeOK
<1>2. CASE poll_counts < Len(list)
  <2>1. Netx!Grown = list
    BY <1>2 DEF Netx!Grown
  <2>2. ASSUME Netx!Free(list) = {}
        PROVE  FALSE
    <3>1. \A i \in 1 .. Len(list) : list[i] \in allocated
      BY <1>1, <2>2 DEF PollsInv, PollsListed, Netx!Free
    <3> DEFINE f == [i \in 1 .. Len(list) |-> list[i]]
    <3>2. f \in Injection(1 .. Len(list), allocated)
      BY <2>2, <3>1 DEF PollsInv, PollsListed, Netx!Free, Injection, IsInjective
    <3>3. Cardinality(1 .. Len(list)) <= Cardinality(allocated)
      BY <3>2, FS_Injection DEF PollsInv, ExistsInjection
    <3>4. Cardinality(1 .. Len(list)) = Len(list)
      <4>1. Len(list) \in Nat /\ Len(list) \in Int /\ 1 \in Int
        BY <1>1
      <4>2. Cardinality(1 .. Len(list)) = IF 1 > Len(list) THEN 0 ELSE Len(list) - 1 + 1
        BY <4>1, FS_Interval
      <4>. QED
        BY <4>1, <4>2
    <3>. QED
      BY <1>1, <1>2, <3>3, <3>4 DEF PollsInv, PollsListed
  <2>. QED
    BY <1>1, <2>1, <2>2 DEF Netx!CreateFindsPlace
<1>3. CASE poll_counts >= Len(list)
  <2>1. Netx!Grown = list \o [i \in 1 .. Chunk |-> NoPoll]
    BY <1>1, <1>3 DEF Netx!Grown
  <2> DEFINE new == [i \in 1 .. Chunk |-> NoPoll]
  <2>2. new \in Seq(Polls \cup {NoPoll}) /\ Len(new) = Chunk
    OBVIOUS
  <2>3. /\ Netx!Grown \in Seq(Polls \cup {NoPoll})
        /\ Len(Netx!Grown) = Len(list) + Chunk
        /\ \A i \in 1 .. Len(Netx!Grown) :
             Netx!Grown[i] = IF i <= Len(list) THEN list[i] ELSE new[i - Len(list)]
    BY <1>1, <2>1, <2>2
  <2>4. Len(list) + 1 \in Netx!Free(Netx!Grown)
    BY <1>1, <2>3 DEF Netx!Free
  <2>. QED
    BY <1>1, <2>3, <2>4 DEF Netx!CreateFindsPlace
<1>. QED
  BY <1>1, <1>2, <1>3

LEMMA CreateKeeps ==
  ASSUME Netx!NetxPollsAssumption, PollsInv, NEW p \in Polls, Netx!Create(p)
  PROVE  PollsInv'
<1> USE DEF Netx!NetxPollsAssumption
<1> PICK k \in Netx!FirstFree(Netx!Grown) :
         /\ list' = [Netx!Grown EXCEPT ![k] = p]
         /\ handle' = [handle EXCEPT ![p] = k]
         /\ poll_ret' = k
  BY DEF Netx!Create
<1>1. k \in 1 .. Len(Netx!Grown) /\ Netx!Grown[k] = NoPoll
  BY DEF Netx!FirstFree, Netx!Free
<1>2. /\ list' = [Netx!Grown EXCEPT ![k] = p]
      /\ handle' = [handle EXCEPT ![p] = k]
      /\ allocated' = allocated \cup {p}
      /\ poll_counts' = poll_counts + 1
      /\ p \notin allocated
      /\ poll_ret' = k
  BY DEF Netx!Create
<1>3. /\ Netx!Grown \in Seq(Polls \cup {NoPoll})
      /\ Len(list) \in Nat /\ Len(Netx!Grown) \in Nat /\ Len(list) <= Len(Netx!Grown)
      /\ \A i \in 1 .. Len(list) : Netx!Grown[i] = list[i]
      /\ \A i \in 1 .. Len(Netx!Grown) : Netx!Grown[i] # NoPoll => i \in 1 .. Len(list)
  <2>1. list \in Seq(Polls \cup {NoPoll})
    BY DEF PollsInv, Netx!TypeOK
  <2>2. Len(list) \in Nat
    BY <2>1
  <2>3. /\ Netx!Grown \in Seq(Polls \cup {NoPoll})
        /\ Len(list) <= Len(Netx!Grown)
        /\ \A i \in 1 .. Len(list) : Netx!Grown[i] = list[i]
        /\ \A i \in 1 .. Len(Netx!Grown) : Netx!Grown[i] # NoPoll => i \in 1 .. Len(list)
    BY PlaceFree
  <2>4. Len(Netx!Grown) \in Nat
    BY <2>3
  <2>. QED
    BY <2>2, <2>3, <2>4
<1>4. /\ list' \in Seq(Polls \cup {NoPoll})
      /\ Len(list') = Len(Netx!Grown)
      /\ \A i \in 1 .. Len(Netx!Grown) : list'[i] = IF i = k THEN p ELSE Netx!Grown[i]
  BY <1>1, <1>2, <1>3
<1>5. Netx!TypeOK'
  <2>1. handle' \in [Polls -> 0 .. Len(list')]
    BY <1>1, <1>2, <1>3, <1>4 DEF PollsInv, Netx!TypeOK
  <2>2. poll_counts' \in Nat /\ poll_ret' \in Int /\ allocated' \subseteq Polls
    BY <1>1, <1>2, <1>3 DEF PollsInv, Netx!TypeOK
  <2>. QED
    BY <1>4, <2>1, <2>2 DEF Netx!TypeOK
<1>6. IsFiniteSet(allocated') /\ Cardinality(allocated') = Cardinality(allocated) + 1
  BY <1>2, FS_AddElement DEF PollsInv
<1>7. allocated' = {list'[i] : i \in 1 .. Len(list')} \ {NoPoll}
  <2>1. ASSUME NEW q \in allocated'
        PROVE  q \in {list'[i] : i \in 1 .. Len(list')} \ {NoPoll}
    <3>1. CASE q = p
      BY <1>1, <1>4, <3>1
    <3>2. CASE q \in allocated
      <4>1. PICK i \in 1 .. Len(list) : list[i] = q /\ q # NoPoll
        BY <3>2 DEF PollsInv, PollsListed
      <4>2. i \in 1 .. Len(Netx!Grown) /\ i # k /\ list'[i] = q
        BY <1>1, <1>3, <1>4, <4>1
      <4>. QED
        BY <1>4, <4>1, <4>2
    <3>. QED
      BY <1>2, <2>1, <3>1, <3>2
  <2>2. ASSUME NEW i \in 1 .. Len(list'), list'[i] # NoPoll
        PROVE  list'[i] \in allocated'
    <3>1. CASE i = k
      BY <1>2, <1>4, <3>1
    <3>2. CASE i # k
      <4>1. i \in 1 .. Len(list) /\ list'[i] = list[i]
        BY <1>3, <1>4, <2>2, <3>2
      <4>. QED
        BY <1>2, <2>2, <4>1 DEF PollsInv, PollsListed
    <3>. QED
      BY <3>1, <3>2
  <2>. QED
    BY <2>1, <2>2
<1>8. ASSUME NEW i \in 1 .. Len(list'), NEW j \in 1 .. Len(list'),
             list'[i] = list'[j], list'[i] # NoPoll
      PROVE  i = j
  <2>1. \A n \in 1 .. Len(list') : list'[n] # NoPoll /\ n # k =>
            n \in 1 .. Len(list) /\ list'[n] = list[n] /\ list[n] # p
    BY <1>2, <1>3, <1>4 DEF PollsInv, PollsListed
  <2>. QED
    BY <1>4, <1>8, <2>1 DEF PollsInv, PollsListed
<1>9. ASSUME NEW q \in allocated'
      PROVE  handle'[q] \in 1 .. Len(list') /\ list'[handle'[q]] = q
  <2>1. CASE q = p
    BY <1>1, <1>2, <1>4, <2>1 DEF PollsInv, Netx!TypeOK
  <2>2. CASE q # p
    <3>1. /\ q \in allocated /\ q \in Polls /\ handle'[q] = handle[q]
          /\ handle[q] \in 1 .. Len(list) /\ list[handle[q]] = q
      BY <1>2, <2>2 DEF PollsInv, Netx!TypeOK
    <3>2. handle[q] \in 1 .. Len(Netx!Grown) /\ Netx!Grown[handle[q]] = q /\ handle[q] # k
      BY <1>1, <1>3, <3>1
    <3>. QED
      BY <1>4, <3>1, <3>2
  <2>. QED
    BY <2>1, <2>2
<1>10. \A q \in Polls \ allocated' : handle'[q] = 0
  BY <1>2 DEF PollsInv, Netx!TypeOK
<1>. QED
  BY <1>2, <1>5, <1>6, <1>7, <1>8, <1>9, <1>10 DEF PollsInv, PollsListed

(* A table that grows though no poll comes into it. *)
LEMMA GrowKeeps ==
  ASSUME Netx!NetxPollsAssumption, PollsInv,
         list' \in {list, Netx!Grown}, poll_ret' \in Int, UNCHANGED <<poll_counts, allocated, handle>>
  PROVE  PollsInv'
<1>1. /\ list' \in Seq(Polls \cup {NoPoll})
      /\ Len(list) \in Nat /\ Len(list') \in Nat /\ Len(list) <= Len(list')
      /\ \A i \in 1 .. Len(list) : list'[i] = list[i]
      /\ \A i \in 1 .. Len(list') : list'[i] # NoPoll => i \in 1 .. Len(list)
  <2>1. /\ Netx!Grown \in Seq(Polls \cup {NoPoll})
        /\ Len(list) <= Len(Netx!Grown)
        /\ \A i \in 1 .. Len(list) : Netx!Grown[i] = list[i]
        /\ \A i \in 1 .. Len(Netx!Grown) : Netx!Grown[i] # NoPoll => i \in 1 .. Len(list)
    BY PlaceFree
  <2>2. list \in Seq(Polls \cup {NoPoll})
    BY DEF PollsInv, Netx!TypeOK
  <2>. QED
    BY <2>1, <2>2
<1>2. Netx!TypeOK'
  BY <1>1 DEF PollsInv, Netx!TypeOK
<1>3. allocated' = {list'[i] : i \in 1 .. Len(list')} \ {NoPoll}
  BY <1>1 DEF PollsInv, PollsListed
<1>4. \A i, j \in 1 .. Len(list') : list'[i] = list'[j] /\ list'[i] # NoPoll => i = j
  BY <1>1 DEF PollsInv, PollsListed
<1>5. \A p \in allocated' : handle'[p] \in 1 .. Len(list') /\ list'[handle'[p]] = p
  BY <1>1 DEF PollsInv
<1>6. \A p \in Polls \ allocated' : handle'[p] = 0
  BY DEF PollsInv
<1>. QED
  BY <1>2, <1>3, <1>4, <1>5, <1>6 DEF PollsInv, PollsListed

LEMMA DestroyKeeps ==
  ASSUME PollsInv, NEW h, Netx!Destroy(h)
  PROVE  PollsInv'
<1> DEFINE p == list[h]
<1>1. /\ h \in 1 .. Len(list) /\ p # NoPoll /\ Netx!PollOf(h) = p
      /\ list \in Seq(Polls \cup {NoPoll}) /\ p \in Polls
  BY DEF Netx!Destroy, Netx!PollOf, PollsInv, Netx!TypeOK
<1>2. p \in allocated /\ h = handle[p]
  BY <1>1 DEF PollsInv, PollsListed
<1>3. /\ list' = Netx!Shrunk(h)
      /\ handle' = [handle EXCEPT ![p] = 0]
      /\ allocated' = allocated \ {p}
      /\ poll_counts' = poll_counts - 1
      /\ poll_ret' = 0
  BY <1>1 DEF Netx!Destroy
<1>4. /\ IsFiniteSet(allocated') /\ Cardinality(allocated') = Cardinality(allocated) - 1
      /\ poll_counts \in Nat \ {0}
  <2>1. IsFiniteSet(allocated') /\ Cardinality(allocated') = Cardinality(allocated) - 1
    BY <1>2, <1>3, FS_RemoveElement DEF PollsInv
  <2>2. Cardinality(allocated) # 0
    BY <1>2, FS_EmptySet DEF PollsInv
  <2>3. poll_counts \in Nat /\ poll_counts = Cardinality(allocated)
    BY DEF PollsInv, Netx!TypeOK, PollsListed
  <2>. QED
    BY <2>1, <2>2, <2>3
<1>5. CASE poll_counts = 1
  <2>1. allocated' = {} /\ list' = <<>>
    <3>1. Cardinality(allocated') = 0
      <4>1. Cardinality(allocated) = 1
        BY <1>5 DEF PollsInv, PollsListed
      <4>. QED
        BY <1>4, <4>1
    <3>2. allocated' = {}
      BY <1>4, <3>1, FS_EmptySet
    <3>. QED
      BY <1>3, <1>5, <3>2 DEF Netx!Shrunk
  <2>2. list' \in Seq(Polls \cup {NoPoll}) /\ Len(list') = 0
    BY <2>1
  <2>3. \A q \in Polls : handle'[q] = 0
    BY <1>3, <2>1 DEF PollsInv, Netx!TypeOK
  <2>4. handle' \in [Polls -> 0 .. Len(list')]
    <3>1. handle' = [q \in Polls |-> handle'[q]]
      BY <1>3 DEF PollsInv, Netx!TypeOK
    <3>. QED
      BY <2>2, <2>3, <3>1
  <2>5. Netx!TypeOK'
    BY <1>3, <1>4, <1>5, <2>1, <2>2, <2>4 DEF Netx!TypeOK
  <2>6. PollsListed'
    <3>1. {list'[i] : i \in 1 .. Len(list')} = {}
      BY <2>2
    <3>2. poll_counts' = Cardinality(allocated')
      BY <1>3, <1>4 DEF PollsInv, PollsListed
    <3>3. \A i, j \in 1 .. Len(list') : list'[i] = list'[j] /\ list'[i] # NoPoll => i = j
      BY <2>2
    <3>. QED
      BY <2>1, <3>1, <3>2, <3>3 DEF PollsListed
  <2>. QED
    BY <1>4, <2>1, <2>3, <2>5, <2>6 DEF PollsInv
<1>6. CASE poll_counts # 1
  <2>1. list' = [list EXCEPT ![h] = NoPoll]
    BY <1>3, <1>6 DEF Netx!Shrunk
  <2>2. /\ list' \in Seq(Polls \cup {NoPoll}) /\ Len(list') = Len(list)
        /\ \A i \in 1 .. Len(list) : list'[i] = IF i = h THEN NoPoll ELSE list[i]
    BY <1>1, <2>1
  <2>3. Netx!TypeOK'
    BY <1>1, <1>3, <1>4, <2>2 DEF PollsInv, Netx!TypeOK
  <2>4. allocated' = {list'[i] : i \in 1 .. Len(list')} \ {NoPoll}
    <3>1. \A i \in 1 .. Len(list) : list[i] = p => i = h
      BY <1>1 DEF PollsInv, PollsListed
    <3>. QED
      BY <1>1, <1>3, <2>2, <3>1 DEF PollsInv, PollsListed
  <2>5. \A i, j \in 1 .. Len(list') : list'[i] = list'[j] /\ list'[i] # NoPoll => i = j
    BY <2>2 DEF PollsInv, PollsListed
  <2>6. ASSUME NEW q \in allocated'
        PROVE  handle'[q] \in 1 .. Len(list') /\ list'[handle'[q]] = q
    <3>1. /\ q # p /\ q \in allocated /\ q \in Polls
          /\ handle'[q] = handle[q] /\ handle[q] \in 1 .. Len(list) /\ list[handle[q]] = q
      BY <1>3 DEF PollsInv, Netx!TypeOK
    <3>. QED
      BY <2>2, <3>1
  <2>7. \A q \in Polls \ allocated' : handle'[q] = 0
    BY <1>1, <1>3 DEF PollsInv, Netx!TypeOK
  <2>. QED
    BY <1>3, <1>4, <2>3, <2>4, <2>5, <2>6, <2>7 DEF PollsInv, PollsListed
<1>. QED
  BY <1>5, <1>6

LEMMA PollsInvStep == Netx!NetxPollsAssumption /\ PollsInv /\ [Netx!Next]_Netx!vars => PollsInv'
<1> SUFFICES ASSUME Netx!NetxPollsAssumption, PollsInv, [Netx!Next]_Netx!vars
             PROVE  PollsInv'
  OBVIOUS
<1>1. ASSUME NEW p \in Polls, Netx!Create(p)
      PROVE  PollsInv'
  BY <1>1, CreateKeeps
<1>2. CASE Netx!CreateInvalid \/ Netx!CreateNoTable \/ Netx!CreateNoPoll
  BY <1>2, GrowKeeps DEF Netx!CreateInvalid, Netx!CreateNoTable, Netx!CreateNoPoll
<1>3. ASSUME NEW h \in Netx!Handles, Netx!Destroy(h) \/ Netx!DestroyInvalid(h)
      PROVE  PollsInv'
  BY <1>3, DestroyKeeps, GrowKeeps DEF Netx!DestroyInvalid
<1>4. CASE UNCHANGED Netx!vars
  BY <1>4, GrowKeeps DEF Netx!vars, PollsInv, Netx!TypeOK
<1>. QED
  BY <1>1, <1>2, <1>3, <1>4 DEF Netx!Next

LEMMA PollsInvHolds ==
  ASSUME Netx!NetxPollsAssumption
  PROVE  Netx!Spec => []PollsInv
BY PollsInvInit, PollsInvStep, PTL DEF Netx!Spec

(* Theorem: every value has its type.  netx_create and netx_destroy keep   *)
(* handles inside the table (netx.c:103-217).                              *)
THEOREM PollsTypeCorrect ==
  ASSUME Netx!NetxPollsAssumption
  PROVE  Netx!Spec => []Netx!TypeOK
<1>1. PollsInv => Netx!TypeOK
  BY DEF PollsInv
<1>. QED
  BY <1>1, PollsInvHolds, PTL

(* Theorem: netx_create never gets to its inner error, whatever was        *)
(* created and destroyed before and whichever allocations failed           *)
(* (netx.c:139-172).                                                       *)
THEOREM CreateFindsPlaceHolds ==
  ASSUME Netx!NetxPollsAssumption
  PROVE  Netx!Spec => []Netx!CreateFindsPlace
<1>1. PollsInv => Netx!CreateFindsPlace
  BY PlaceFree
<1>. QED
  BY <1>1, PollsInvHolds, PTL

(* Theorem: no poll is lost, and the table is freed with its last one      *)
(* (netx.c:139-150, 203-215).                                              *)
THEOREM EveryPollListedHolds ==
  ASSUME Netx!NetxPollsAssumption
  PROVE  Netx!Spec => []EveryPollListed
<1>1. PollsInv => EveryPollListed
  BY NetxCardinality DEF PollsInv, PollsListed, EveryPollListed, Netx!EveryPollListed
<1>. QED
  BY <1>1, PollsInvHolds, PTL

(* Theorem: a handle leads to its poll until the poll is destroyed, when   *)
(* the table grows and when others are destroyed (netx.c:124-144, 183).    *)
THEOREM HandleFindsItsPollHolds ==
  ASSUME Netx!NetxPollsAssumption
  PROVE  Netx!Spec => []HandleFindsItsPoll
<1>1. PollsInv => HandleFindsItsPoll
  BY DEF PollsInv, HandleFindsItsPoll, Netx!HandleFindsItsPoll, Netx!PollOf
<1>. QED
  BY <1>1, PollsInvHolds, PTL
=============================================================================
