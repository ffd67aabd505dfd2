------------------------------ MODULE ElogFile ------------------------------
(***************************************************************************)
(* The file plugin of EasyLogger (elog_file.c) in processes that log to    *)
(* the same file, and the System V semaphore they share (elog_file_port.c).*)
(* A file is known by the order in which it was created, whatever its      *)
(* name; of what is in it only the number of logs is kept, each of size 1. *)
(* A process may be killed anywhere: SEM_UNDO gives back the semaphore it  *)
(* holds, and what stdio has not written is lost.                          *)
(*                                                                         *)
(* A definition whose comment calls it a fault stands before the one it    *)
(* is a faulty variant of; nothing uses it but the mutants of the runs.    *)
(***************************************************************************)
EXTENDS Integers, FiniteSets

CONSTANTS Procs,
          MaxSize,      \* ELOG_FILE_MAX_SIZE
          MaxRotate,    \* ELOG_FILE_MAX_ROTATE
          MaxFiles,     \* bound: files created
          MaxKills      \* bound: processes killed

ElogFileAssumption == MaxSize \in Nat /\ MaxRotate \in Nat \ {0} /\ MaxFiles \in Nat

VARIABLES sem,          \* the semaphore: does it exist, its value, sem_otime # 0
          proc,         \* processes: where each is, its fp, its file lock
          path,         \* what name (0) and name.i-1 (i > 0) are names of
          size,         \* logs in each file created, in order of creation
          last,         \* the file each process has last written into
          kills,
          unlocked      \* some process has gone on without the lock

vars == <<sem, proc, path, size, last, kills, unlocked>>

NoFile == 0
Files == DOMAIN size
Down == [pc |-> "down", fp |-> NoFile, semid |-> FALSE, holds |-> FALSE, n |-> 0,
         ok |-> TRUE, unflushed |-> 0]

Init ==
    /\ sem = [exists |-> FALSE, val |-> 0, otime |-> FALSE]
    /\ proc = [p \in Procs |-> Down]
    /\ path = [i \in 0 .. MaxRotate |-> NoFile]
    /\ size = [f \in {} |-> 0]
    /\ last = [p \in Procs |-> NoFile]
    /\ kills = 0 /\ unlocked = FALSE

Goes(p, to) == proc' = [proc EXCEPT ![p].pc = to]

(* elog_file_init, elog_file_port_init: lock_init creates the semaphore or *)
(* finds that it exists. *)
FileInit(p) ==
    /\ proc[p].pc = "down"
    /\ IF sem.exists THEN Goes(p, "open") /\ UNCHANGED sem
       ELSE Goes(p, "setval") /\ sem' = [sem EXCEPT !.exists = TRUE]
    /\ UNCHANGED <<path, size, last, kills, unlocked>>

SetVal(p) ==
    /\ proc[p].pc = "setval"
    /\ sem' = [sem EXCEPT !.val = 0]
    /\ Goes(p, "semup")
    /\ UNCHANGED <<path, size, last, kills, unlocked>>

SemUp(p) ==
    /\ proc[p].pc = "semup"
    /\ sem' = [sem EXCEPT !.val = @ + 1, !.otime = TRUE]
    /\ proc' = [proc EXCEPT ![p].pc = "config", ![p].semid = TRUE]
    /\ UNCHANGED <<path, size, last, kills, unlocked>>

(* lock_open: looks ten times whether the creator is done, and gives up.   *)
LockOpen(p) ==
    /\ proc[p].pc = "open"
    /\ proc' = [proc EXCEPT ![p].pc = "config", ![p].semid = sem.otime]
    /\ unlocked' = (unlocked \/ ~ sem.otime)
    /\ UNCHANGED <<sem, path, size, last, kills>>

(* fopen of name with "a+": creates the file if there is none, or fails.   *)
Opened(p, to) ==
    \/ /\ path[0] # NoFile
       /\ proc' = [proc EXCEPT ![p].pc = to, ![p].fp = path[0]]
       /\ UNCHANGED <<path, size>>
    \/ LET new == Cardinality(Files) + 1
       IN  /\ path[0] = NoFile /\ new <= MaxFiles
           /\ proc' = [proc EXCEPT ![p].pc = to, ![p].fp = new]
           /\ path' = [path EXCEPT ![0] = new]
           /\ size' = [f \in Files \cup {new} |-> IF f = new THEN 0 ELSE size[f]]
    \/ /\ proc' = [proc EXCEPT ![p].pc = to, ![p].fp = NoFile]
       /\ UNCHANGED <<path, size>>

Available(p) == proc[p].semid => sem.val > 0

(* elog_file_config from elog_file_init. *)
Config(p) ==
    /\ proc[p].pc = "config" /\ Available(p)
    /\ Opened(p, "idle")
    /\ UNCHANGED <<sem, last, kills, unlocked>>

(* fclose and fseek write out what stdio holds. *)
Flushed(p) ==
    IF proc[p].fp = NoFile THEN size
    ELSE [size EXCEPT ![proc[p].fp] = @ + proc[p].unflushed]

(* elog_file_deinit, with elog_file_config of no name. *)
FileDeinit(p) ==
    /\ proc[p].pc = "idle" /\ Available(p)
    /\ size' = Flushed(p)
    /\ proc' = [proc EXCEPT ![p] = Down]
    /\ UNCHANGED <<sem, path, last, kills, unlocked>>

---------------------------------------------------------------------------
(* elog_file_write; without a file nothing is written. *)
WriteCall(p) ==
    /\ proc[p].pc = "idle" /\ proc[p].fp # NoFile
    /\ Goes(p, "lock")
    /\ UNCHANGED <<sem, path, size, last, kills, unlocked>>

(* Fault: the semaphore is counted down without a wait. *)
LockNoWait(p) ==
    /\ proc[p].pc = "lock"
    /\ sem' = IF proc[p].semid THEN [sem EXCEPT !.val = 0] ELSE sem
    /\ proc' = [proc EXCEPT ![p].pc = "test", ![p].holds = proc[p].semid]
    /\ UNCHANGED <<path, size, last, kills, unlocked>>

Lock(p) ==
    /\ proc[p].pc = "lock" /\ Available(p)
    /\ sem' = IF proc[p].semid THEN [sem EXCEPT !.val = @ - 1] ELSE sem
    /\ proc' = [proc EXCEPT ![p].pc = "test", ![p].holds = proc[p].semid]
    /\ UNCHANGED <<path, size, last, kills, unlocked>>

Test(p) ==
    /\ proc[p].pc = "test"
    /\ size' = Flushed(p)
    /\ proc' = IF size'[proc[p].fp] > MaxSize
               THEN [proc EXCEPT ![p].pc = "rotate", ![p].n = MaxRotate - 1,
                                 ![p].unflushed = 0, ![p].fp = NoFile]
               ELSE [proc EXCEPT ![p].pc = "write", ![p].unflushed = 0]
    /\ UNCHANGED <<sem, path, last, kills, unlocked>>

(* What the names stand for when name.n-1, if there is such a file, has    *)
(* been renamed to name.n, in whose place it comes.                        *)
Renamed(n) ==
    [path EXCEPT ![n + 1] = path[n], ![n] = NoFile]

(* Fault: the files are renamed from the newest to the oldest. *)
RotateStepUpwards(p) ==
    LET n == MaxRotate - 1 - proc[p].n
        next == IF proc[p].n = 0 THEN "reopen" ELSE "rotate"
    IN  /\ proc[p].pc = "rotate"
        /\ path' = Renamed(n)
        /\ proc' = [proc EXCEPT ![p].pc = next, ![p].n = IF next = "reopen" THEN 0 ELSE @ - 1]
        /\ UNCHANGED <<sem, size, last, kills, unlocked>>

(* A turn of elog_file_rotate, from the oldest file to name: name.n is     *)
(* removed, and name.n-1 renamed, which may fail and ends the rotation.    *)
RotateStep(p) ==
    LET n == proc[p].n
        next == IF n = 0 THEN "reopen" ELSE "rotate"
    IN  /\ proc[p].pc = "rotate"
        /\ \/ /\ path' = Renamed(n)
              /\ proc' = [proc EXCEPT ![p].pc = next, ![p].n = IF n = 0 THEN 0 ELSE n - 1]
           \/ /\ path[n] # NoFile
              /\ path' = [path EXCEPT ![n + 1] = NoFile]
              /\ proc' = [proc EXCEPT ![p].pc = "reopen", ![p].n = 0, ![p].ok = FALSE]
        /\ UNCHANGED <<sem, size, last, kills, unlocked>>

(* After a failed rotation the log is dropped. *)
Reopen(p) ==
    /\ proc[p].pc = "reopen"
    /\ Opened(p, IF proc[p].ok THEN "write" ELSE "unlock")
    /\ UNCHANGED <<sem, last, kills, unlocked>>

Write(p) ==
    /\ proc[p].pc = "write" /\ proc[p].fp # NoFile
    /\ proc' = [proc EXCEPT ![p].pc = "unlock", ![p].unflushed = 1]
    /\ last' = [last EXCEPT ![p] = proc[p].fp]
    /\ UNCHANGED <<sem, path, size, kills, unlocked>>

Unlock(p) ==
    /\ proc[p].pc = "unlock"
    /\ sem' = IF proc[p].holds THEN [sem EXCEPT !.val = @ + 1] ELSE sem
    /\ proc' = [proc EXCEPT ![p].pc = "idle", ![p].holds = FALSE, ![p].ok = TRUE]
    /\ UNCHANGED <<path, size, last, kills, unlocked>>

(* A process is killed, or writes to a file that could not be reopened:    *)
(* elog_file_write does not look at fp again after a rotation.             *)
Dies(p) ==
    /\ proc' = [proc EXCEPT ![p] = Down]
    /\ sem' = IF proc[p].holds THEN [sem EXCEPT !.val = @ + 1] ELSE sem
    /\ last' = [last EXCEPT ![p] = NoFile]
    /\ UNCHANGED <<path, size, unlocked>>

Kill(p) ==
    /\ proc[p].pc # "down" /\ kills < MaxKills
    /\ kills' = kills + 1
    /\ Dies(p)

WriteFails(p) ==
    /\ proc[p].pc = "write" /\ proc[p].fp = NoFile
    /\ UNCHANGED kills
    /\ Dies(p)

Next ==
    \E p \in Procs :
        \/ FileInit(p) \/ SetVal(p) \/ SemUp(p) \/ LockOpen(p) \/ Config(p) \/ FileDeinit(p)
        \/ WriteCall(p) \/ Lock(p) \/ Test(p) \/ RotateStep(p) \/ Reopen(p) \/ Write(p)
        \/ Unlock(p) \/ Kill(p) \/ WriteFails(p)

Spec == Init /\ [][Next]_vars

---------------------------------------------------------------------------
Named == {path[i] : i \in 0 .. MaxRotate} \ {NoFile}

(* As long as every process found the lock initialised, the files that are *)
(* left are the newest ones, named in the order of their age: whichever    *)
(* rename failed, whoever was killed during a rotation or rotates behind   *)
(* the back of the others, only the oldest file is given up, and a process *)
(* goes on in a file that is not older than the one it wrote into          *)
(* (elog_file.c:69-109, 124-133).                                          *)
NewestFilesKept ==
    ~ unlocked =>
        /\ \A f \in Named : \A g \in Files : g > f => g \in Named
        /\ \A i, j \in 0 .. MaxRotate :
             i < j /\ path[i] # NoFile /\ path[j] # NoFile => path[i] > path[j]
        /\ \A p \in Procs : proc[p].fp # NoFile => proc[p].fp >= last[p]

(* The semaphore is free or held by one process, and never beyond 1,       *)
(* whoever creates it, opens it or is killed with it (elog_file_port.c     *)
(* :74-88, 100-129, 134-163).                                              *)
LockIsOneProcess ==
    sem.val + Cardinality({p \in Procs : proc[p].holds}) = IF sem.otime THEN 1 ELSE 0
=============================================================================
