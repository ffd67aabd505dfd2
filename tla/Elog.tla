------------------------------- MODULE Elog ---------------------------------
(***************************************************************************)
(* The parts of EasyLogger side by side, which share no state in the       *)
(* configurations that are modelled, and what each of them promises:       *)
(* asynchronous output, the filters, the lock that can be disabled, the    *)
(* line buffer, buffered output, and the plugins for flash and files.      *)
(***************************************************************************)
CONSTANTS Loggers, AsyncThread, NoThread, RingSize, PollSize, LineLengths, ByLine, MaxNotices,
          Tags, NoTag, Short(_), Strstr(_, _), Slots,
          MaxSwitches, MaxDepth,
          LineSize, CsiEnd, Width16, Widths,
          BufSize, BufSizes, MaxLogged,
          Writers, Nobody, Word, FlashBufSize, ReadSize, WriteSizes, MaxWritten,
          Procs, MaxSize, MaxRotate, MaxFiles, MaxKills

VARIABLES by_line, main, output_enabled, is_enabled, thread_running, notices, lock, log_buf,
          write_index, read_index, buf_is_full, buf_is_empty, logger, async, put_count,
          print_count, stranded,
          init_ok, filter_output, filter_level, filter_tag, tag_lvl, asked,
          enabled, before_enable, before_disable, port, depth, last_lock, used, settled,
          switches,
          line, dump,
          buf_enabled, buffered, printed, flush, logged, switched,
          flash_lock, flash_buf, flash, writer,
          sem, proc, path, size, last, kills, unlocked

asyncVars == <<by_line, main, output_enabled, is_enabled, thread_running, notices, lock, log_buf,
               write_index, read_index, buf_is_full, buf_is_empty, logger, async, put_count,
               print_count, stranded>>
filterVars == <<init_ok, filter_output, filter_level, filter_tag, tag_lvl, asked>>
lockVars == <<enabled, before_enable, before_disable, port, depth, last_lock, used, settled,
              switches>>
lineVars == <<line, dump>>
bufVars == <<buf_enabled, buffered, printed, flush, logged, switched>>
flashVars == <<flash_lock, flash_buf, flash, writer>>
fileVars == <<sem, proc, path, size, last, kills, unlocked>>

Async == INSTANCE ElogAsync WITH Async <- AsyncThread, BufSize <- RingSize,
                                 LogSizes <- LineLengths
Filter == INSTANCE ElogFilter WITH output_enabled <- filter_output
Lock == INSTANCE ElogLock WITH last <- last_lock
Line == INSTANCE ElogLine
Buf == INSTANCE ElogBuf WITH LogSizes <- BufSizes, MaxBytes <- MaxLogged,
                             is_enabled <- buf_enabled, log_buf <- buffered, port <- printed
Flash == INSTANCE ElogFlash WITH BufSize <- FlashBufSize, LogSizes <- WriteSizes,
                                 MaxBytes <- MaxWritten, lock <- flash_lock, log_buf <- flash_buf
File == INSTANCE ElogFile

(* The ring of logs holds what was put and not taken (elog_async.c).       *)
RingMatches == Async!RingMatches

(* Filters pass what was asked for (elog.c:276-500, 576-585), and the lock *)
(* that is disabled and enabled is settled (elog.c:372-391, 757-769).      *)
FilterAsAsked == Filter!FilterAsAsked
LockSettled == Lock!LockSettled

(* Lines end as they should, however long, and so do dumps (elog.c:508-936). *)
LinesWhole == Line!LinesWhole /\ Line!HexdumpEnds

(* Buffered logs are printed once and in order (elog_buf.c:54-104).        *)
PrintedOnce == Buf!PrintedOnce

(* The flash has what was written, and the last of it is found again       *)
(* (elog_flash.c:87-236).                                                  *)
FlashKeepsLogs == Flash!FlashKeepsLogs /\ Flash!PrintsRecent

(* Rotations lose the oldest file only (elog_file.c:69-109), and one       *)
(* process at a time is inside (elog_file_port.c:52-171).                  *)
NewestFilesKept == File!NewestFilesKept
LockIsOneProcess == File!LockIsOneProcess
=============================================================================
