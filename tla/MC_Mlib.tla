------------------------------- MODULE MC_Mlib ------------------------------
(***************************************************************************)
(* One instance of the parts of mlib that share no state: the lists of one *)
(* poll, which are the unprefixed names, and the parts that Mlib has side  *)
(* by side.  A behaviour is one of one of the parts, while the others stay *)
(* as they began.                                                          *)
(***************************************************************************)
EXTENDS NetxPoll, Mlib

VARIABLE part

allVars == <<part, vars, pollsVars, sockVars, mmemVars, taskVars, semVars>>

ASSUME MlibAssumption ==
    /\ Netx!NetxPollsAssumption
    /\ Sock!NetxSocketAssumption /\ Mmem!MmemDebugAssumption
    /\ Task!OsalTaskAssumption /\ Sem!OsalSemAssumption

MlibInit ==
    /\ part \in {"poll", "polls", "sock", "mmem", "task", "sem"}
    /\ Init /\ Netx!Init
    /\ Sock!Init /\ Mmem!Init /\ Task!Init /\ Sem!Init
    /\ part # "task" => port = "posix"
    /\ part # "sem" => value = 0

PollNext  == part = "poll" /\ Next
             /\ UNCHANGED <<pollsVars, sockVars, mmemVars, taskVars, semVars>>
PollsNext == part = "polls" /\ Netx!Next
             /\ UNCHANGED <<vars, sockVars, mmemVars, taskVars, semVars>>
SockNext  == part = "sock" /\ Sock!Next
             /\ UNCHANGED <<vars, pollsVars, mmemVars, taskVars, semVars>>
MmemNext  == part = "mmem" /\ Mmem!Next
             /\ UNCHANGED <<vars, pollsVars, sockVars, taskVars, semVars>>
TaskNext  == part = "task" /\ Task!Next
             /\ UNCHANGED <<vars, pollsVars, sockVars, mmemVars, semVars>>
SemNext   == part = "sem" /\ Sem!Next
             /\ UNCHANGED <<vars, pollsVars, sockVars, mmemVars, taskVars>>

MlibNext ==
    /\ UNCHANGED part
    /\ \/ PollNext \/ PollsNext
       \/ SockNext \/ MmemNext \/ TaskNext \/ SemNext

MlibSpec == MlibInit /\ [][MlibNext]_allVars

(* The threads that take the semaphore are interchangeable. *)
ThreadSymmetry == Permutations(Threads)
=============================================================================
