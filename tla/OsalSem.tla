------------------------------ MODULE OsalSem -------------------------------
(***************************************************************************)
(* Semaphores and mutexes of osal on POSIX (osal_posix.c:248-428) and the  *)
(* deadlines that osal_calc_timedwait computes for them (776-802), against *)
(* a clock.  The sem_t and the pthread_mutex_t are external: they are what *)
(* the calls of osal make of them.  UsPerMs, MsPerSec scale the 1000s.     *)
(*                                                                         *)
(* A definition whose comment calls it a fault stands before the one it    *)
(* is a faulty variant of; nothing uses it but the mutants of the runs.    *)
(***************************************************************************)
EXTENDS Integers, FiniteSets

CONSTANTS Threads, NoThread,
          UsPerMs, MsPerSec,
          Timeouts,     \* milliseconds that a wait may be given, without 0
          MaxNow,       \* bound: microseconds that the clock goes on for
          MaxValue      \* bound: posts that nobody has waited for

OsalSemAssumption ==
    /\ NoThread \notin Threads
    /\ UsPerMs \in Nat \ {0} /\ MsPerSec \in Nat \ {0}
    /\ Timeouts \subseteq Nat \ {0} /\ MaxNow \in Nat /\ MaxValue \in Nat

VARIABLES now,          \* gettimeofday, in microseconds
          value,        \* of the semaphore
          owner,        \* of the mutex
          wait,         \* per thread: the call it is in
          result        \* per thread: how its last call ended, and when

vars == <<now, value, owner, wait, result>>

UsPerSec == UsPerMs * MsPerSec
WaitForever == -1
NotWaiting == [on |-> "none", ms |-> 0, since |-> 0, sec |-> 0, us |-> 0]
NoResult == [ret |-> "none", ms |-> 0, took |-> 0]

Init ==
    /\ now = 0 /\ value \in 0 .. MaxValue /\ owner = NoThread
    /\ wait = [t \in Threads |-> NotWaiting]
    /\ result = [t \in Threads |-> NoResult]

(* Fault: the microseconds are not carried into the seconds. *)
CalcTimedwaitNoCarry(ms) ==
    [sec |-> (now \div UsPerSec) + (ms \div MsPerSec),
     us |-> (now % UsPerSec) + (ms % MsPerSec) * UsPerMs]

(* osal_calc_timedwait: what is below a second of the clock and of ms make *)
(* less than two seconds, so one carry is enough.                          *)
CalcTimedwait(ms) ==
    LET us == (now % UsPerSec) + (ms % MsPerSec) * UsPerMs
        sec == (now \div UsPerSec) + (ms \div MsPerSec)
    IN  IF us >= UsPerSec THEN [sec |-> sec + 1, us |-> us - UsPerSec]
        ELSE [sec |-> sec, us |-> us]

Tick == now < MaxNow /\ now' = now + 1 /\ UNCHANGED <<value, owner, wait, result>>

Ends(t, ret) ==
    /\ wait' = [wait EXCEPT ![t] = NotWaiting]
    /\ result' = [result EXCEPT ![t] =
           [ret |-> ret, ms |-> wait[t].ms, took |-> now - wait[t].since]]

Calls(t, on, ms, deadline) ==
    /\ wait[t] = NotWaiting
    /\ wait' = [wait EXCEPT ![t] =
           [on |-> on, ms |-> ms, since |-> now, sec |-> deadline.sec, us |-> deadline.us]]
    /\ result' = [result EXCEPT ![t] = NoResult]
    /\ UNCHANGED <<now, value, owner>>

---------------------------------------------------------------------------
(* osal_sem_wait: one of the three waits of POSIX. *)
SemWait(t) ==
    \E ms \in Timeouts \cup {0, WaitForever} :
        Calls(t, "sem", ms, IF ms \in Timeouts THEN CalcTimedwait(ms) ELSE NotWaiting)

SemTaken(t) ==
    /\ wait[t].on = "sem" /\ value > 0
    /\ value' = value - 1
    /\ Ends(t, "OK")
    /\ UNCHANGED <<now, owner>>

(* sem_trywait: EAGAIN is none of the errors that have a name here. *)
SemBusy(t) ==
    /\ wait[t].on = "sem" /\ wait[t].ms = 0 /\ value = 0
    /\ Ends(t, "FAIL")
    /\ UNCHANGED <<now, value, owner>>

(* sem_timedwait of a deadline that is past, or that is no time at all. *)
SemTimedOut(t) ==
    /\ wait[t].on = "sem" /\ wait[t].ms \in Timeouts /\ value = 0
    /\ \/ wait[t].us >= UsPerSec /\ Ends(t, "INVAL")
       \/ /\ wait[t].us < UsPerSec /\ wait[t].sec * UsPerSec + wait[t].us <= now
          /\ Ends(t, "TIMEDOUT")
    /\ UNCHANGED <<now, value, owner>>

(* A signal interrupts a wait: FAIL. *)
SemInterrupted(t) ==
    /\ wait[t].on = "sem" /\ wait[t].ms # 0 /\ value = 0
    /\ Ends(t, "FAIL")
    /\ UNCHANGED <<now, value, owner>>

(* The maximum given to osal_sem_create is not looked at. *)
SemPost(t) ==
    /\ wait[t] = NotWaiting /\ value < MaxValue
    /\ value' = value + 1
    /\ UNCHANGED <<now, owner, wait, result>>

---------------------------------------------------------------------------
(* osal_mutex_lock, whose timeout is not looked at, and osal_mutex_trylock. *)
MutexLock(t) ==
    /\ owner # t
    /\ \E ms \in Timeouts : Calls(t, "mutex", ms, NotWaiting)

MutexTaken(t) ==
    /\ wait[t].on = "mutex" /\ owner = NoThread
    /\ owner' = t
    /\ Ends(t, "OK")
    /\ UNCHANGED <<now, value>>

MutexTrylock(t) ==
    /\ wait[t] = NotWaiting
    /\ owner' = IF owner = NoThread THEN t ELSE owner
    /\ result' = [result EXCEPT ![t] =
           [NoResult EXCEPT !.ret = IF owner = NoThread THEN "OK" ELSE "FAIL"]]
    /\ UNCHANGED <<now, value, wait>>

MutexUnlock(t) ==
    /\ wait[t] = NotWaiting /\ owner = t
    /\ owner' = NoThread
    /\ UNCHANGED <<now, value, wait, result>>

---------------------------------------------------------------------------
Next ==
    \/ Tick
    \/ \E t \in Threads :
         \/ SemWait(t) \/ SemTaken(t) \/ SemBusy(t) \/ SemTimedOut(t) \/ SemInterrupted(t)
         \/ SemPost(t)
         \/ MutexLock(t) \/ MutexTaken(t) \/ MutexTrylock(t) \/ MutexUnlock(t)

Spec == Init /\ [][Next]_vars

---------------------------------------------------------------------------
(* A wait with a timeout never ends with TIMEDOUT before that many         *)
(* milliseconds are over, wherever in a second it began, and never with    *)
(* INVAL for a deadline that is not a time (osal_posix.c:776-802).         *)
TimeoutsExact ==
    \A t \in Threads :
        /\ result[t].ret # "INVAL"
        /\ result[t].ret = "TIMEDOUT" => result[t].took >= result[t].ms * UsPerMs
        /\ wait[t].on = "sem" /\ wait[t].ms \in Timeouts
             => wait[t].sec * UsPerSec + wait[t].us = wait[t].since + wait[t].ms * UsPerMs
=============================================================================
