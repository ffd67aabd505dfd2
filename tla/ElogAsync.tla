------------------------------ MODULE ElogAsync -----------------------------
(***************************************************************************)
(* Asynchronous output of EasyLogger (elog_async.c), driven by elog_init,  *)
(* elog_start, elog_stop and elog_deinit (elog.c).  Threads that log hold  *)
(* the output lock while they put a log into a ring or, above the level of *)
(* asynchronous output, print it; a thread of its own waits for a notice,  *)
(* takes what the ring has under the lock, and prints it without.          *)
(*                                                                         *)
(* A byte is <<number, ends a line>>, numbers counting what was put modulo *)
(* M, which is more than there can be between put and print.               *)
(*                                                                         *)
(* A definition whose comment calls it a fault stands before the one it    *)
(* is a faulty variant of; nothing uses it but the mutants of the runs.    *)
(***************************************************************************)
EXTENDS Integers, Sequences, FiniteSets

CONSTANTS Loggers, Async, NoThread,
          BufSize,      \* OUTPUT_BUF_SIZE
          PollSize,     \* ELOG_ASYNC_POLL_GET_LOG_BUF_SIZE
          LogSizes,     \* lengths of the lines that are logged
          ByLine,       \* whether ELOG_ASYNC_LINE_OUTPUT may be defined: a set
          MaxNotices    \* bound: notices that nobody has waited for

ElogAsyncAssumption ==
    /\ Async \notin Loggers /\ NoThread \notin Loggers \cup {Async}
    /\ BufSize \in Nat \ {0} /\ PollSize \in 1 .. BufSize - 1
    /\ LogSizes \subseteq Nat \ {0} /\ MaxNotices \in Nat /\ ByLine \subseteq BOOLEAN

VARIABLES by_line,          \* ELOG_ASYNC_LINE_OUTPUT, which no step changes
          main,             \* where the thread that starts and stops is
          output_enabled,   \* elog.output_enabled
          is_enabled, thread_running, notices,
          lock,             \* elog_mutex: who holds it
          log_buf, write_index, read_index, buf_is_full, buf_is_empty,
          logger,           \* loggers: where each is, with its log
          async,            \* the output thread, with its buffer
          put_count, print_count,   \* bytes put and printed, modulo M
          stranded          \* a deinit has left logs in the ring

ring == <<log_buf, write_index, read_index, buf_is_full, buf_is_empty>>
core == <<by_line, main, output_enabled, is_enabled, thread_running>>
counts == <<put_count, print_count>>
vars == <<core, notices, lock, ring, logger, async, counts, stranded>>

M == 2 * BufSize
NoByte == <<0, FALSE>>
Idle == [pc |-> "idle", level |-> "none", size |-> 0]

Init ==
    /\ by_line \in ByLine
    /\ main = "down" /\ output_enabled = FALSE
    /\ is_enabled = FALSE /\ thread_running = FALSE /\ notices = 0
    /\ lock = NoThread
    /\ log_buf = [i \in 0 .. BufSize - 1 |-> NoByte]
    /\ write_index = 0 /\ read_index = 0 /\ buf_is_full = FALSE /\ buf_is_empty = TRUE
    /\ logger = [t \in Loggers |-> Idle]
    /\ async = [pc |-> "gone", buf |-> <<>>]
    /\ put_count = 0 /\ print_count = 0 /\ stranded = FALSE

---------------------------------------------------------------------------
(* elog_async_get_buf_used; that a ring of equal indices is full or empty  *)
(* is not said here but in RingMatches.                                    *)
Used ==
    IF write_index > read_index THEN write_index - read_index
    ELSE IF ~ buf_is_full /\ ~ buf_is_empty THEN BufSize - (read_index - write_index)
    ELSE IF buf_is_full THEN BufSize ELSE 0

Contents == [k \in 1 .. Used |-> log_buf[(read_index + k - 1) % BufSize]]

(* Where an index is after n bytes: a copy that reaches the end of the     *)
(* buffer goes on at its beginning.                                        *)
After(index, n) == IF index + n < BufSize THEN index + n ELSE index + n - BufSize

(* Fault: a log that fills the ring exactly does not mark it full. *)
FillsTooLate(size) == BufSize - Used < size

(* A log that does not fit is cut; one that just fits is not. *)
Fills(size) == BufSize - Used <= size

(* async_put_log, of a line of size bytes. *)
Put(size, stored) ==
    LET start == write_index
        Slot(i) == ((i - start + BufSize) % BufSize) + 1
    IN  /\ log_buf' = [i \in 0 .. BufSize - 1 |->
               IF Slot(i) <= stored
               THEN <<(put_count + Slot(i) - 1) % M, Slot(i) = size>> ELSE log_buf[i]]
        /\ write_index' = After(write_index, stored)
        /\ buf_is_full' = (buf_is_full \/ Fills(size))
        /\ buf_is_empty' = FALSE
        /\ put_count' = (put_count + stored) % M
        /\ UNCHANGED read_index

(* elog_cpyln: the bytes up to the end of a line, of s. *)
FirstLine(s) ==
    LET ends == {k \in 1 .. Len(s) : s[k][2]}
    IN  IF ends = {} THEN s ELSE SubSeq(s, 1, CHOOSE k \in ends : \A j \in ends : k <= j)

(* elog_async_get_line_log: where the wanted bytes reach the end of the    *)
(* buffer and no line ends before, another line may follow from its start. *)
LineOf(s) ==
    LET before == IF BufSize - read_index < Len(s) THEN BufSize - read_index ELSE Len(s)
        first == FirstLine(SubSeq(s, 1, before))
    IN  IF read_index + Len(s) < BufSize \/ Len(first) < BufSize - read_index THEN first
        ELSE first \o FirstLine(SubSeq(s, before + 1, Len(s)))

(* Fault: what is left after a cut to the size of the buffer is forgotten. *)
TakenMarksEmpty(got) == TRUE

Taken(got) == Len(got) = Used

(* elog_async_get_log and elog_async_get_line_log. *)
Get ==
    LET wanted == SubSeq(Contents, 1, IF Used <= PollSize THEN Used ELSE PollSize)
        got == IF by_line THEN LineOf(wanted) ELSE wanted
    IN  /\ async' = [pc |-> "unlock", buf |-> got]
        /\ IF got = <<>> THEN UNCHANGED ring
           ELSE /\ read_index' = After(read_index, Len(got))
                /\ buf_is_empty' = (buf_is_empty \/ Taken(got))
                /\ buf_is_full' = FALSE
                /\ UNCHANGED <<log_buf, write_index>>

---------------------------------------------------------------------------
(* elog_output, elog_hexdump and elog_raw_output.  Output may be disabled  *)
(* after it was looked at.  elog_get_filter_tag_lvl, which takes and gives *)
(* back the lock, and the formatting are left out.                         *)
Log(t, level, size) ==
    /\ main \in {"up", "starting", "stopping"} /\ output_enabled
    /\ logger[t] = Idle
    /\ notices + Cardinality({u \in Loggers : logger[u] # Idle}) < MaxNotices
    /\ logger' = [logger EXCEPT ![t] = [pc |-> "lock", level |-> level, size |-> size]]
    /\ UNCHANGED <<core, notices, lock, ring, async, counts, stranded>>

Lock(t) ==
    /\ logger[t].pc = "lock" /\ lock = NoThread
    /\ lock' = t
    /\ logger' = [logger EXCEPT ![t].pc = "output"]
    /\ UNCHANGED <<core, notices, ring, async, counts, stranded>>

(* Levels from ELOG_ASYNC_OUTPUT_LVL, DEBUG, on are asynchronous.  Every   *)
(* log of such a level ends in a newline: no empty log, which would make   *)
(* an empty ring look full, gets here.                                     *)
AsyncOutput(t) ==
    LET size == logger[t].size
        stored == IF BufSize - Used < size THEN BufSize - Used ELSE size
    IN  /\ logger[t].pc = "output" /\ is_enabled /\ logger[t].level = "debug"
        /\ IF Used = BufSize THEN UNCHANGED <<ring, put_count>> ELSE Put(size, stored)
        /\ logger' = [logger EXCEPT ![t].pc = IF Used = BufSize THEN "unlock" ELSE "notice"]
        /\ UNCHANGED <<core, notices, lock, async, print_count, stranded>>

(* Fault: only a thread that waits is given notice. *)
NoticeIfWaiting(t) ==
    /\ logger[t].pc = "notice"
    /\ notices' = IF async.pc = "wait" THEN notices + 1 ELSE notices
    /\ logger' = [logger EXCEPT ![t].pc = "unlock"]
    /\ UNCHANGED <<core, lock, ring, async, counts, stranded>>

Notice(t) ==
    /\ logger[t].pc = "notice"
    /\ notices' = notices + 1
    /\ logger' = [logger EXCEPT ![t].pc = "unlock"]
    /\ UNCHANGED <<core, lock, ring, async, counts, stranded>>

SyncOutput(t) ==
    /\ logger[t].pc = "output" /\ ~ (is_enabled /\ logger[t].level = "debug")
    /\ logger' = [logger EXCEPT ![t].pc = "printing"]
    /\ UNCHANGED <<core, notices, lock, ring, async, counts, stranded>>

Printed(t) ==
    /\ logger[t].pc = "printing"
    /\ logger' = [logger EXCEPT ![t].pc = "unlock"]
    /\ UNCHANGED <<core, notices, lock, ring, async, counts, stranded>>

Unlock(t) ==
    /\ logger[t].pc = "unlock"
    /\ lock' = NoThread
    /\ logger' = [logger EXCEPT ![t] = Idle]
    /\ UNCHANGED <<core, notices, ring, async, counts, stranded>>

---------------------------------------------------------------------------
(* async_output: the thread. *)
AsyncTest ==
    /\ async.pc = "test"
    /\ async' = [async EXCEPT !.pc = IF thread_running THEN "wait" ELSE "gone"]
    /\ UNCHANGED <<core, notices, lock, ring, logger, counts, stranded>>

AsyncWait ==
    /\ async.pc = "wait" /\ notices > 0
    /\ notices' = notices - 1
    /\ async' = [async EXCEPT !.pc = "lock"]
    /\ UNCHANGED <<core, lock, ring, logger, counts, stranded>>

AsyncLock ==
    /\ async.pc = "lock" /\ lock = NoThread
    /\ lock' = Async
    /\ async' = [async EXCEPT !.pc = "get"]
    /\ UNCHANGED <<core, notices, ring, logger, counts, stranded>>

AsyncGet ==
    /\ async.pc = "get"
    /\ Get
    /\ UNCHANGED <<core, notices, lock, logger, counts, stranded>>

AsyncUnlock ==
    /\ async.pc = "unlock"
    /\ lock' = NoThread
    /\ async' = [async EXCEPT !.pc = IF async.buf = <<>> THEN "test" ELSE "printing"]
    /\ UNCHANGED <<core, notices, ring, logger, counts, stranded>>

AsyncPrint ==
    /\ async.pc = "printing"
    /\ print_count' = (print_count + Len(async.buf)) % M
    /\ async' = [pc |-> "lock", buf |-> <<>>]
    /\ UNCHANGED <<core, notices, lock, ring, logger, put_count, stranded>>

---------------------------------------------------------------------------
(* elog_init, with a thread that is created; elog_start and elog_stop set  *)
(* one flag after the other; elog_deinit, when nobody logs, ends the       *)
(* thread and leaves the ring as it is.                                    *)
Quiet == \A t \in Loggers : logger[t] = Idle

ElogInit ==
    /\ main = "down"
    /\ main' = "up" /\ thread_running' = TRUE /\ notices' = 0
    /\ async' = [pc |-> "test", buf |-> <<>>]
    /\ UNCHANGED <<by_line, output_enabled, is_enabled, lock, ring, logger, counts, stranded>>

Sets(from, to, output, enabled) ==
    /\ main = from /\ main' = to
    /\ output_enabled' = output /\ is_enabled' = enabled
    /\ UNCHANGED <<by_line, thread_running, notices, lock, ring, logger, async, counts, stranded>>

ElogStart == Sets("up", "starting", TRUE, is_enabled)
ElogAsyncEnable == Sets("starting", "up", output_enabled, TRUE)
ElogStop == Sets("up", "stopping", FALSE, is_enabled)
ElogAsyncDisable == Sets("stopping", "up", output_enabled, FALSE)

ElogDeinit ==
    /\ main = "up" /\ Quiet /\ ~ output_enabled
    /\ main' = "notify" /\ thread_running' = FALSE
    /\ UNCHANGED <<by_line, output_enabled, is_enabled, notices, lock, ring, logger, async, counts, stranded>>

DeinitNotice ==
    /\ main = "notify"
    /\ main' = "join" /\ notices' = notices + 1
    /\ UNCHANGED <<by_line, output_enabled, is_enabled, thread_running, lock, ring, logger, async, counts, stranded>>

DeinitJoin ==
    /\ main = "join" /\ async.pc = "gone"
    /\ main' = "down" /\ stranded' = (Used > 0)
    /\ UNCHANGED <<by_line, output_enabled, is_enabled, thread_running, notices, lock, ring, logger, async, counts>>

---------------------------------------------------------------------------
LoggerStep(t) == Lock(t) \/ AsyncOutput(t) \/ Notice(t) \/ SyncOutput(t) \/ Printed(t) \/ Unlock(t)
AsyncStep ==
    AsyncTest \/ AsyncWait \/ AsyncLock \/ AsyncGet \/ AsyncUnlock \/ AsyncPrint
MainStep ==
    \/ ElogInit \/ ElogStart \/ ElogAsyncEnable \/ ElogStop \/ ElogAsyncDisable
    \/ ElogDeinit \/ DeinitNotice \/ DeinitJoin

Next ==
    \/ \E t \in Loggers :
         \/ LoggerStep(t)
         \/ \E level \in {"info", "debug"}, size \in LogSizes : Log(t, level, size)
    \/ AsyncStep
    \/ MainStep

(* Threads run, and a mutex that becomes free again and again is got. *)
Fairness ==
    /\ \A t \in Loggers : WF_vars(LoggerStep(t))
    /\ WF_vars(AsyncStep) /\ SF_vars(AsyncLock)
    /\ WF_vars(ElogAsyncEnable \/ ElogAsyncDisable \/ DeinitNotice \/ DeinitJoin)

Spec == Init /\ [][Next]_vars
FairSpec == Spec /\ Fairness

---------------------------------------------------------------------------
(* The bytes the output thread holds and those in the ring are the ones    *)
(* put and not yet printed, in order, whatever wrapped, was cut or filled  *)
(* the ring (elog_async.c:109-264): two indices and two flags tell them.    *)
RingMatches ==
    LET held == async.buf \o Contents
    IN  /\ Len(held) = (put_count - print_count + M) % M
        /\ \A k \in 1 .. Len(held) : held[k][1] = (print_count + k - 1) % M
        /\ ~ (buf_is_full /\ buf_is_empty)
        /\ write_index = read_index <=> buf_is_full \/ buf_is_empty

(* While the ring has logs, some are printed, so that in the end all are,  *)
(* unless the logger is shut down (a thread that sees thread_running false *)
(* leaves the ring as it is; elog_async.c:292-316).                        *)
LogsPrinted ==
    Used > 0 ~> async.pc = "printing" \/ ~ thread_running \/ stranded

(* elog_port_output is called by one thread at a time. *)
OutputsExclusive ==
    ~ (async.pc = "printing" /\ \E t \in Loggers : logger[t].pc = "printing")
=============================================================================
