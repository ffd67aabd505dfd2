# fwk: specifications

TLA+ specifications of `fwk`, a C framework for small systems: what its
concurrent and stateful parts do, what is model-checked about them, and what is
proved. Paths are relative to `src/`; `osal/` stands for
`frameworks/mlib/osal/src/`.

`PROJECT.json` names, for every definition, the lines of the source it stands
for, for every run what it checks, and for every hazard of the code the
properties that look at it.

## 1. Inventory

| Component | State | Operations | What is hard | What makes it correct |
|---|---|---|---|---|
| **osal message queue**, POSIX (`osal/osal_posix.c:565-770`) | two mutexes, a condition variable, `exit_flag`, a ring | create, destroy, send, recv | senders hold `w_mutex`, receivers `r_mutex`, and nothing orders a push against a pop; the signal comes after the push, under the other mutex; destroy races receivers | linearizable FIFO, no lost wakeup, no use after free, everything given back |
| **osal lock-free ring** (`osal/osal_lock_free_queue.c`) | `read`, `write` and a buffer of bytes | init, push, pop, deinit | no lock; offsets wrap; copies in two parts | FIFO of whole messages for one producer and one consumer |
| **osal tasks**, POSIX and FreeRTOS (`osal/osal_posix.c:115-209`, `osal_freertos.c`) | a wrapper per thread | create, cancel, delete | who frees the wrapper; thread ids given out again | every wrapper has one owner or is freed |
| **osal mutexes, semaphores, time**, POSIX (`osal/osal_posix.c:210-564`) | objects of pthread | lock, wait, post | relative timeouts made absolute in seconds and nanoseconds | a wait ends when it was told to |
| **netx poll** (`frameworks/mlib/netx/netx.c:45-492`) | table of polls; in each, items on a free list, in hash chains and in a ring of used items | create, destroy, ctl (add, mod, del), wait | three linked structures share the items; a wait that stops early; descriptor 0 | every item in exactly one place; every ready descriptor is reported in the end |
| **netx sockets** (`netx.c:495-1376`) | descriptors | open, connect, accept, keepalive, address look-up | failures half-way | no descriptor lost, results that mean something |
| **mlist** (`frameworks/mlib/mlist/mlist.h`) | circular list | init, add, add_tail, del, deinit, iteration | removal during iteration | the links stay inverse to each other |
| **mmem_debug** (`frameworks/mlib/mmem_debug/src/mmem_debug.c`) | list of live blocks, counters, adapter lock | calloc, alloc, realloc, free, dump, free_all | realloc that fails | list and counters agree with what is allocated |
| **EasyLogger** (`frameworks/elib/easylogger`): core, async, buf, flash and file plugins and their ports | output lock state, filters, a line, ring of log bytes, buffers, a file and its rotations, System V semaphore | output, start/stop, filter, lock enable, async put/get, flush, write, rotate | producer against drain thread; shutdown; lines cut in the middle of what ends them; rotation half-way; semaphore created by a racing process | logs whole, in order and not lost unless the ring is full |
| **CUnit**, framework (`frameworks/elib/cunit-3.2.7/CUnit/Sources/Framework`) | registry, results of the run, the suite and test that run | register, activate, run all, run a suite, run a test | functions left by `longjmp` from a failing check, in a test, a fixture or a suite function | every test that ran is counted once, everything set up is torn down |
| **nanopb** (`frameworks/elib/nanopb/pb_*.c`) | the place in the bytes; per message the field reached, the required fields seen | encode, decode | fields in any order and form, unknown, repeated, nested, cut off; two sizes of varint | what is decoded is what the bytes mean, or nothing is accepted |
| **KCP** (`application/examples/kcp_test/kcp/ikcp.c`) and the programs that drive it | send and receive queues and windows, timers | send, input, flush, recv, update | loss, duplication, reordering, retransmission, zero windows, wrapping numbers | a reliable ordered stream |
| quirc, FlashDB configuration, front ends of CUnit, tests, demos, build files | | | | image processing, absent or test code; not modelled |

How they interact: EasyLogger's port takes the output lock from pthread; the
tests of osal and the demos call osal through its table of functions
(`osal/osal_posix.c:817-842`); a message queue is a lock-free ring, two mutexes
and a condition variable; the kcp_test programs drive a KCP control block from
one loop, with UDP sockets below it. netx, mlist and mmem_debug stand alone, and
so do CUnit and nanopb.

## 2. Plan

| step | modules | |
|---|---|---|
| 1 | `MessageQueue`, `OsalMq`, `OsalMq_proofs` | what a queue promises; the code; type invariant, safety, refinement |
| 2 | `LockFreeQueue`, `LockFreeQueue_proofs` | the ring byte by byte, implementing `MessageQueue` |
| 3 | `EventPoll`, `NetxPoll`, `NetxPoll_proofs`, `NetxPolls`, `NetxSocket` | what a poll promises; its items and their lists; the table of handles; sockets |
| 4 | `Mlist`, `MmemDebug` | the list, and the allocator over it |
| 5 | `OsalTask`, `OsalSem`, `Mlib`, `Mlib_proofs` | wrappers and cancellation; timeouts with a clock; proofs about both, the sockets, the allocator and the table of polls |
| 6 | `ElogAsync`, `ElogFilter`, `ElogLock`, `ElogLine`, `ElogBuf`, `ElogFlash`, `ElogFile`, `Elog`, `ElogOutput_proofs`, `Elog_proofs` | EasyLogger, one module per mechanism |
| 7 | `ReliableStream`, `Kcp`, `Kcp_proofs` | what KCP promises; the protocol over a network that loses, repeats and reorders; proofs about its windows and acknowledgements |
| 8 | `CUnit`, `CUnit_proofs`, `Nanopb` | the two vendored libraries that have states worth checking; proofs about the first |

All of these exist. Left out, in the order in which they would come next: KCP's timers and
congestion window; nanopb's callbacks.

Runs use two or three actors of each role, rings and windows of two or three
entries, and one or two failures of each kind. There are few of them: one for
each question a component raises, with as many properties as it can carry.
Components that share no state are checked in one run, one of them per
behaviour, by a module that is their sum: `MC_Mlib` for netx, mmem_debug and the
other parts of osal, `MC_Elib` for EasyLogger, CUnit and nanopb. A constant or
variable there belongs to one part, whose module says what it is. Parts that are also proved about are instances in `Mlib` and `Elog`, with
what each promises under one name: the sums extend these, and so do the proofs,
so that a run and a theorem speak of the same formula.

## 3. The message queue

### Modules

`MessageQueue` is a bounded FIFO shared by threads. A call has an invocation,
one instant at which it takes effect and a return; a receive may also block,
be woken, expire, or abort once the queue is closed.

`OsalMq` is `osal_posix_mq_create`, `_destroy`, `_send` and `_recv` over the
ring. An action is one access to shared state: a lock, an unlock, a test of the
ring, a copy, a store to an index, a signal, the atomic unlock-and-sleep of a
wait. `pc[t]` is thread `t`'s place in its call:

| places | code |
|---|---|
| `lock_w`, `push`, `copy_in`, `publish_in`, `unlock_w`, `unlock_w_full` | `osal_posix.c:668-685`, `osal_lock_free_queue.c:58-83` |
| `lock_r_signal`, `signal`, `unlock_r_signal` | `osal_posix.c:687-704` |
| `lock_r`, `pop`, `copy_out`, `publish_out` | `osal_posix.c:721-727`, `osal_lock_free_queue.c:85-110` |
| `wait`, `blocked`, `relock`, `relock_timedout`, `unlock_r` | `osal_posix.c:729-769` |
| `undefined` | the thread touched something freed or destroyed |

`owner` is the same for the one thread that creates and destroys the queue, and
`objs` is what exists. `At(t, p)` lets a step happen only while what it touches
exists; otherwise `UseAfterFree(t)` is the only step, and the thread is
`undefined` from then on, an outcome the properties exclude instead of giving
it a meaning.

Choices worth knowing:

- The copy into a slot and the store to the index are separate steps in program
  order. The C code has no barrier; x86-64 performs the two stores in order and
  the compiler does not move the `memcpy` past the store to `write`. On a
  weaker machine the mutexes order a push against the pops that follow its
  signal only.
- The test of the ring reads one index that its thread owns and one that it does
  not; it is one step, since only the latter read can race.
- `pthread_cond_signal` wakes at most one sleeper, any of them; spurious wakeups
  are a step of their own, `MaxSpurious` of them.
- A timed wait may expire at any instant: there is no clock (`OsalSem` has one).
  The deadline that line 741 computes anew at each turn needs none; that it may
  add up is listed as a hazard that is not covered.
- `pthread_mutex_destroy` refuses a held mutex, a result osal ignores
  (`osal_posix.c:648-649`); glibc's `pthread_cond_destroy` waits for sleepers.
- pthread calls that can fail only for arguments osal never passes do not fail.
- The ring is measured in messages. `LockFreeQueue` is the same ring in bytes,
  32-bit offsets and two-part copies included; its `NeverSplit` is the reason
  why messages suffice in `OsalMq`.

### Runs

| run | bounds | shows |
|---|---|---|
| `mq_safety` | 2 senders and 2 receivers of which one thread is both, 3 slots, 2 message values, 2 calls each, every kind of wait, 1 spurious wakeup, creation failing where the code reports it | `TypeOK`, `NoSlotOverlap`, `NoLostWakeup`, `DestroyReleasesAll`, `NoUseAfterFree`, `ImplementsMessageQueue` |
| `mq_live` | 2 senders and 2 receivers of which one thread is both, fairness | `BoundedCallsReturn`, `BlockedReceiverServed` |
| `mq_destroy` | 1 sender, 2 receivers, creation failing anywhere, destroy during calls, fairness | `DestroyReturns`, `PopNotCutShort` |
| `ring_bytes` | 3 bytes a message, 3 messages, no bound on calls | `NeverSplit`, `CopiesDisjoint`, `ImplementsMessageQueue` |

Three slots and two calls of two senders fill the ring (it holds two), wrap it
and make sends fail; two receivers make a signalled one find its message taken.
In `mq_safety` a thread that sends and receives stands for one of each, which
leaves room for two message values: with one, an order could not be told. For
any number of threads there are the theorems of section 9. Symmetry is used where no liveness
is checked: messages are interchangeable. Deadlock is not checked in the runs of
`OsalMq`: when all calls have been made, or a receiver waits for ever, nothing
more happens. `ring_bytes` checks it.

Fairness (`OsalMq!Fairness`): each thread that can take its next step does, a
timed wait expires, and the owner finishes what it began. It is weak, so a
thread that competes for a mutex again and again is not promised it; calls are
bounded, which is why that suffices here. Nobody has to call, and no spurious
wakeup has to occur.

### What the code does differently from what is said of it

The run `mq_lost_exit` shows `DestroyWakesReceivers` violated: `exit_flag` and
the broadcast (`osal_posix.c:641-642`) can fall between a receiver's pop and its
wait, which then lasts for ever, while `testsuites/mq/t_osal_mq_001.c:31`
expects an error.

`OsalMq` states two more that the code does not keep; no run is spent on them:

- `FailedCreateReturnsNull`. After a failed `pthread_cond_init` or ring
  allocation create frees `mq` and still returns it (`osal_posix.c:610-628`),
  where `osal_api.h:451` promises NULL.
- `WokenReceiverReturns`. A woken receiver must take `r_mutex` again, which
  destroy does not wait for before it destroys it and frees the queue
  (`osal_posix.c:648-652`).

`osal_api.h:448` calls `msg_max` the maximum number of messages, while the ring
keeps one slot free (`osal_lock_free_queue.c:35`): it holds `msg_max - 1`, and
none for `msg_max = 1`. This needs no run: `ImplementsMessageQueue` gives the
abstract queue the capacity `msg_max - 1`, and says with it that a send fails
for want of room exactly then.

The second half of the test of line 31 (`mq_01`) is the scenario of
`mq_lost_exit` and of the last: it sleeps a second between starting the receiver and the destroy.

## 4. The polls of netx

### Modules

`EventPoll` is a table of descriptors, each with the events it is watched for
and its caller's data, and a wait in four steps: the call, `select`, the report,
the return.

`NetxPoll` is `netx_ctl` and `netx_wait`, on the pointers of the code. The fields
of `struct netx_item` are functions of the item (`hash_next[i]`, `next[i]`, ...),
and a pointer is an item or `Null`. `IsChain` and `IsRing` say which sequence of
items a walk meets; `Chain(h)` and `Ring` are those sequences.

| definitions | code |
|---|---|
| `Found`, `Before`, `Store` | the search and `item_save_pt`, `netx.c:238-243` |
| `Claim`, `LinkUsed`, `Add` | `netx.c:287-325` |
| `UnlinkUsed`, `Release`, `Del` | `netx.c:259-286` |
| `Mod`, `CtlFails` | `netx.c:248-258` and the early returns |
| `WaitCall`, `SelectReady`, `SelectNothing` | `netx.c:354-431` |
| `Due`, `DueItems`, `Those`, `Reports`, `Gather` | the walk along the ring and its return, `netx.c:433-488` |

`NetxPolls` is `netx_create`, `netx_destroy` and the look-up of a handle, with
allocations that fail.

Choices worth knowing:

- netx is built with `mlock_disable`: its lock macros are empty, since one thread
  makes every call. The code is written for locks too, and gives the lock up for
  `select`. With `mlock_disable = FALSE` calls of other threads fall between the
  steps of a wait; this contains every behaviour of the build, and the runs that
  pass use it.
- `select` may report anything that was asked for; what is in `AlwaysReady` it
  reports whenever it reports at all. A timeout and an error both end the wait
  without events.
- The caller's data of a descriptor is the descriptor, as in
  `examples/server.c:48`; an event with another's data would be seen.
- A wait on nothing sleeps and returns 0; the model has it return at once.
- Descriptor 0 alone counts as nothing: `max_sock` stays at `SOCK_DEFAULT`, and
  the wait takes the branch for "have not item to watch" (`netx.c:410-414`).
  `Watching` is written that way. The runs do not watch descriptor 0, and
  `ImplementsEventPoll` does not hold with it; the theorem of it says
  `0 \notin Fds`.
- A destroy during a wait is not modelled; it takes a second thread.

### Runs

| run | bounds | shows |
|---|---|---|
| `mlib`, its part `poll` | 4 descriptors, 3 of one bucket, 3 items, an array of 2 events, calls that fall into waits | `ListsWellFormed`, `EachItemOnce`, `ChainsIndexRing` |
| `poll_refines` | 3 descriptors in 2 buckets, 2 items, 2 sets of events, arrays of 1 and 2 events, calls that fall into waits | `ImplementsEventPoll` |
| `poll_starved` | 2 descriptors that are always ready, 2 items, an array of 1 event, locks as built, fairness | `AllConnectionsChecked`, violated |

The table of polls is a part of the run `mlib` too, below. Three items of one bucket
make a chain with a first, a middle and a last item to delete, and a ring with
two neighbours; a fourth descriptor is one too many; an array of two fills with
all three ready and does not with one. No bound
is put on the number of calls, and `poll_refines` and `poll_starved` check
deadlock: a caller can always go on.

Fairness (`NetxPoll!Fairness`): the caller waits again and again (`WF` of the
steps of a wait), and `select`, which can be interrupted, is not so for ever
when something is ready (`SF` of `SelectReady`). No `netx_ctl` has to be called.

### What the code does differently from what is said of it

A wait whose array is full returns before it turns its ring
(`netx.c:472-476`), though `netx.c:480` says "let all connection be check".
`poll_starved` shows `AllConnectionsChecked` violated: with an array of one
event, the descriptor at the front of the ring is reported by every wait and the
one behind it by none. The ring turns only after a wait that reported all that was
ready, and then those behind have had their turn in that wait already: an array
that is as large as the number of descriptors that can be ready at a time does
not need the turn, and one that is smaller does not get it when it does. So no
run shows the property to hold.

## 5. The other parts of mlib

One run, `mlib`, of `MC_Mlib`: a behaviour is one of one of the parts, the lists
of a poll (above) among them.

| module | code | actions | properties |
|---|---|---|---|
| `NetxPolls` | `netx_create`, `netx_destroy` and the look-up of a handle | one for each way a call ends; allocations may fail | `EveryPollListed`, `HandleFindsItsPoll` |
| `NetxSocket` | `netx.c:522-1376` | one per system call, each of which may fail | `NothingLost`, `ResultsMeanSomething` |
| `MmemDebug` over `Mlist` | `mmem_debug.c`, `mlist.h` | one per call | `BlocksAccounted` |
| `OsalTask` | `osal_posix.c:120-254`, `osal_freertos.c:50-185` | allocation, `pthread_create`, reading and freeing the wrapper, running, cancellation | `WrapsOwned` |
| `OsalSem` | `osal_posix.c:248-428, 776-802` | begin and end of a wait, post, lock, unlock, a tick of the clock | `TimeoutsExact` |

Choices worth knowing:

- The lock of mmem_debug's adapter is held from the first line of a call to its
  last, around the allocation too, so that a call is one action whichever thread
  makes it. The links of the list are those of the code: `Mlist` gives the links
  after an operation, and `BlocksAccounted` walks them.
- A cancelled POSIX thread ends where it next may block: in the job, not in the
  wrapper. `vTaskDelete` ends a task anywhere; a task deleted before it ran takes
  its wrapper with it (`osal_freertos.h:44`), which is the `killed` of the model.
  FreeRTOS itself is external.
- The clock of `OsalSem` counts the microseconds, `UsPerMs * MsPerSec` to a
  second, of which the code computes seconds and nanoseconds. A wait may end
  late, never early. The timeout of a mutex is not looked at by the code, and
  neither is the maximum of a semaphore.
- `getifaddrs` lists are never freed (`netx.c:933-1084`); `NothingLost` leaves
  them out, and `if_lists` counts them.

Bounds: 5 polls and a table that grows by 2 places (16 in the code), so that it
grows twice and is freed; 3 descriptors and one list of interfaces; 3 addresses,
sizes 0, 1 and 3 and dumps of up to 3 entries; 3 jobs, 2 wrappers and 2 thread
ids, so that both are given out again; 2 threads, timeouts of 1 and 3 ms in
seconds of 2 ms of 2 units, 7 units; the
threads are interchangeable. Deadlock is not checked: an instance may
have used up its bounds.

## 6. EasyLogger, CUnit and nanopb

One run, `elib`, of `MC_Elib`, in the same manner, and two of one module each,
`elog_overlap` of `ElogAsync` and `elog_nested` of `ElogLock`.

| module | code | an action is | properties |
|---|---|---|---|
| `ElogAsync` | `elog_async.c`; start, stop and the two ends of it in `elog.c` | one step between two accesses to what threads share | `RingMatches`, `LogsPrinted`, `OutputsExclusive` |
| `ElogFilter` | `elog.c:276-280, 332-500`, the beginning of `elog_output` | a call | `FilterAsAsked` |
| `ElogLock` | `elog.c:372-391, 757-769`, `elog_flash.c:273-308` | lock, unlock, switch | `LockSettled`, `HeldWhileInside` |
| `ElogLine` | `elog_output`, `elog_raw_output`, `elog_hexdump`, `elog_strcpy` | a line | `LinesWhole` |
| `ElogBuf` | `elog_buf.c` | a step of a log or a flush | `PrintedOnce` |
| `ElogFlash` | `elog_flash.c` | a stretch with the lock held | `FlashKeepsLogs` |
| `ElogFile` | `elog_file.c`, `elog_file_port.c` | a system call of a process | `NewestFilesKept`, `LockIsOneProcess` |
| `CUnit` | `TestRun.c`, the registry in `TestDB.c` | the call of a user's function, a check in it, its return or a jump out of it | `RunsAddUp` |
| `Nanopb` | `pb_encode.c`, `pb_decode.c`, `pb_common.c` | a field | `DecodesAsMeant` |

The build has asynchronous output on, with pthread, and the file plugin;
`ELOG_ASYNC_LINE_OUTPUT` is off (`ByLine` has both), and `elog_buf.c` and the
flash plugin are not built.

Choices worth knowing, part by part:

- `ElogAsync`: the notice of a log that is put is skipped if the thread is not
  waiting, and the thread empties the ring before it waits again; `LogsPrinted`
  says that this loses none. It is stated with fairness of the threads that are
  inside a call and of the output thread (`ElogAsync!Fairness`): POSIX
  runs threads that can run. Two ways out are excepted: the thread was told to
  end, and a log that is put after its last look at the ring, at
  `elog_async_deinit`, which stays there (`stranded`). `MaxNotices` bounds
  notices nobody has waited for. The result of `pthread_create` is ignored by
  the code, and does not fail here.
- `ElogFilter`: `Passes` is the head of `elog_output` (`elog.c:577-585`): output
  enabled, the two levels, the tag for all logs found in the log's own (`Strstr`).
  The silent level still lets assertions pass. Tags are compared up to their
  maximum length, and the tag for all logs is cut to it: two of the tags of the
  run are one. `elog_init` brings back the level and the table, but neither the
  tag for all logs nor whether there is output. The filter by keyword looks at the
  finished line (`elog.c:690-700`), whose text is not modelled; hexdumps ask for
  level and tag but not for the level of the tag, raw logs for output only.
- `ElogLock`: one flow of control, interrupted by handlers that lock, unlock and
  switch wherever they come (`depth` counts locks not unlocked). With the lock
  enabled, a lock inside a lock waits for ever, since the port's is a plain mutex.
  The flags by which a switch remembers what was locked are not brought up to date
  by the switch itself; `LockSettled` says what holds as long as there is a call
  between any two switches, however many. `last`, `used`, `settled` and `depth`
  are history. `elog_init` after `elog_deinit`, and an exception between the lock
  of the port and its flag (`elog.c:374-375`), are not modelled.
- `ElogLine`: dumps whose size and width exceed 65536 together, or of width 0, do
  not end; raw logs as long as the buffer go out with the NUL of `vsnprintf`.
- `ElogFile`: a process killed between `semget` and the first `semop` leaves a
  semaphore that no other process takes for initialised, and all go on without a
  lock. The model stops there (`unlocked`): nothing is promised from there on.
  What stdio has not written when a process is killed is lost.
- `ElogFlash`: EasyFlash, below it, is not in the repository and is external.
- `CUnit`: what the user's functions do is any sequence of failing checks, fatal
  or not, skips and returns. Flags of a suite (`fInTestClean`, `fSetUpError`,
  `fCleanupError`, `fSkipped`) live as long as the suite, as in the code.
- `Nanopb` works on bytes: a byte carries 3 bits of a varint (7 in the code) and
  a word has 8 (32), which keeps the relations that the code's constants have:
  a group of bits across the two words (`NanopbAssumption`), the sign extension,
  the last byte of two words. `Meant` says what a sequence of fields means
  without any byte, iterator or limit; `DecodesAsMeant` compares the two. Messages
  come from nanopb, from other programs in any order and in forms that nanopb
  never writes, and are cut off; they end with the bytes, by a length in front,
  or by a zero. A submessage must have what is required of it in each of its
  pieces. Of arrays of fixed count a message has at most one at a time, as
  `nanopb/docs/concepts.md:229` warns.

Bounds: 2 loggers, a ring of 3 bytes and logs of 2, so that it wraps and fills;
4 tags, 2 slots; the lock disabled 3 times, locks 2 deep; lines of 6 characters; a buffer of 3
bytes with logs of 1, 2 and 7; 2 writers, words of 2 bytes, a flash buffer of 4;
2 processes, 3 files of which 2 are kept besides the first, a kill; 2 suites (one
with all functions and 2 tests, one with a cleanup function and 1 test), 2 runs,
2 failing checks or skips, one change between them; 2 messages of nanopb or none,
then 2 of 21 fields, or 1 that is cut off.

What the code does differently from what is said of it: `elog_overlap` shows
`OutputsExclusive` violated. The output thread prints without the output lock
(`elog_async.c:300-311`), so that a log that is printed synchronously can be in
`elog_port_output` at the same time; the port guide says that the lock is there
to keep concurrent output right. `elog_nested` shows `HeldWhileInside` violated: an
exception inside a held lock disables it, logs and enables it again, and the
unlock of its log is taken for that of the flow (`elog.c:764-766`), whose lock of
the port is given up while it is inside. The comment of that line says that the
lock "will locking after enable". The handlers of the guides
(`docs/zh/api/kernel.md`, `flash.md`) disable the lock and end in `while(1)`; they
do not get there.

Of the rest, met while modelling and not given a run:

- `elog_file.c`: after a reopen that failed in a rotation, the next log is
  written to NULL; `fopen` is the test that a file exists, and when it fails for
  another reason the next rename overwrites the file; a rename that fails drops
  the log that caused the rotation; a process that did not rotate keeps writing
  to the renamed file until it does.
- `elog_flash_output` with a size that is not a multiple of 4 and exceeds one
  read of 128 bytes begins a few bytes early and leaves as many out
  (`PrintsRecent` states what does hold). `elog_stop` and switching the buffer
  off do not flush it. `elog_deinit` without `elog_stop` leaves output enabled.
- `clear_previous_results` of CUnit says that it "resets the run counts to zero"
  (`TestRun.c:815-825`), but `suites_skipped` and `tests_skipped` stay. A
  tear-down left by `longjmp` leaves `fInTestClean` set, and no later test of the
  suite is torn down (1102). A failure that an inactive test left is taken for a
  failed cleanup (998). `CU_run_test` sets neither `fInSetUp` nor `fInClean`, so
  that checks in its suite functions do not fail them, and counts an inactive
  test as failed; it announces the end of the suite twice and never that of the
  run. A suite that is skipped in its init function returns without an event and
  stays the current one. `CU_basic_run_tests` adds its six handlers at each call.
- nanopb leaves the elements of an absent array of fixed count without values.

## 7. KCP

`ReliableStream` is what KCP promises to its users: what one end sends the other
receives, once, in order, whole (or, in stream mode, byte by byte).

`Kcp` is `ikcp.c` for two connected ends: `Send`, `Recv`, `Input` (with `una`,
acknowledgements, data, window probes), `Flush`, and a network that drops,
repeats and reorders. A control block is a record with the names of `IKCPCB`.
Sequence numbers wrap at `Modulus`, and all comparisons are the code's signed
differences (`_itimediff`). A datagram that is older than `Lifetime` numbers
is gone (`Young`): with 32-bit numbers a datagram does not live through 2^31 of
them. The windows are 32 and 128 segments unless `ikcp_wndsize` (`ikcp.c:1279`)
sets others, which no program here does, so that `KcpAssumption` asks little of
32-bit numbers: that both windows together are less than half of them, three
windows to send less than all, and that a `Lifetime` with a window fits a half. The
loops over a datagram and over the segments to send are recursive functions
(`Along`), of which a proof can follow each step; a search in a buffer is the
place where it ends (`Before`, `Insert`, `MoveReady`).

When a segment is due, whether by its timer or by fast acknowledgement, and the
size of the congestion window are left to choice in each flush, which contains
every timing. So the model says nothing about when or how often something is
sent, or about `dead_link`, which sets a state and nothing else.

The run `kcp` (`MC_Kcp`) has six set-ups: a window that fills and a message that
is refused; stale words about the window that make the sender overrun it; a
message in fragments that overtake each other; a stream of whose second message
only the beginning fits; data both ways, with acknowledgements in the same
datagram; and thirteen segments whose numbers wrap at 12. It shows `AckedIsReceived`
and `WindowsKept`, that `Kcp` implements `ReliableStream` (`ImplementsStream`),
and `EverythingArrives`.

Fairness: a user receives what is there (`WF` of `Recv`); an end whose attempts
go on again and again gets one of them through undisturbed, with its answer
(`RoundTrip`), or an attempt would change nothing; and an old datagram is not
repeated for ever. The second is what "the network is not down for ever"
comes to; the third excludes a network that repeats one acknowledgement with an
empty window endlessly, which would keep the sender asking. Bounds: per set-up, the
datagrams in flight one way, how far an end sends ahead, and acknowledgements
that wait.

Met while modelling, without a run: the window is announced in 16 bits, so that
one of 65536 is announced as none (`ikcp.c:918`); `ikcp_check` returns the current
time for a segment that is due although update does not flush before `ts_flush`;
a clock that is set back is corrected for the next flush, but not for the
retransmission timers; `rto` doubles without bound; a smaller mtu leaves longer
segments in the queue; an allocation that fails hits an assertion. `recv.c`
releases its end after echoing "exit" with ten updates and no input, so that the
echo may never arrive, though a comment waits a second to be sure of it.

## 8. Hazards without a place in the list

`PROJECT.json` lists forty hazards. Also real, and not covered: a descriptor that
is deleted and added again while `select` runs; `netx_create`, which caps the
number of descriptors at `FD_SETSIZE` where `FD_SET` needs their values below it;
the lists of `getifaddrs`; KCP's window in 16 bits.

## 9. Proofs

### The message queue

`OsalMq_proofs` proves, for any sets of threads and messages, any `msg_max > 0`
and any number of calls, from the assumption `OsalMqAssumption` alone (threads
and markers are distinct, the numbers are numbers):

| theorem | statement |
|---|---|
| `TypeCorrect` | `Spec => []TypeOK` |
| `NoSlotOverlapHolds` | `Spec => []NoSlotOverlap` |
| `PopNotCutShortHolds` | `Spec => []PopNotCutShort` |
| `NoUseAfterFreeHolds` | `Disciplined` implies `Spec => []NoUseAfterFree` |
| `DestroyReleasesAllHolds` | `Disciplined` implies `Spec => []DestroyReleasesAll` |
| `NoLostWakeupHolds` | `Disciplined` implies `Spec => []NoLostWakeup` |
| `ImplementsMessageQueueHolds` | `Disciplined` implies `Spec => ImplementsMessageQueue` |

`NoLostWakeupHolds` also uses `ThreadsAssumption`: the threads are finitely many.

`Disciplined` is a condition on the constants: destroy overlaps no call, and
creation fails only in the steps whose failure the code reports. Without it the
last four are not claimed: a destroy that overlaps a call frees the queue under it
(`UseAfterFree`).

The arguments.

- `NoSlotOverlap` is not inductive: that `write # read` during a copy must come
  from the test at the start of the push. `IInv` adds `Exclusion` (a place
  between a lock and its unlock means holding the mutex) and `Distance` (from
  the test to the store, `Advance(write) # read` in a push, and `read # write`
  in a pop). A pop moves `read` only, and moves it away from the push's test; a
  push moves `write` only. `Exclusion` makes each of them the only one of its
  kind. `AdvanceInjective` is the arithmetic of the ring it needs. `Unborn` says
  that no call runs before there is a queue.
- `NoUseAfterFree` and `DestroyReleasesAll` need the converse of `Exclusion`:
  a held mutex has its holder inside the section (`Released`). With nobody in a
  call when destroy begins, both mutexes are then free and each destroy of them
  succeeds; `ObjectsAt` says what is left at each place of the owner.
- `NoLostWakeup` compares the messages in the ring with the threads that will
  still look at it or signal (`Lookers`). It says so of blocked receivers only,
  and is not inductive: a receiver that found the ring empty keeps `r_mutex` until
  it blocks, and messages are pushed meanwhile without that mutex. `WakeInv` holds
  the count from the failing test on. `PublishLooks`, `TakenLooks` and
  `SignalHandsOver` are the three steps that change both sides.
- The refinement maps a send to the store to `write` (or the failing test) and a
  receive to the store to `read` (or the failing test, or the end of the wait).
  `PublishAppends` and `PublishRemoves` show what the two stores do to the
  sequence `Contents`; `CopyKeepsContents`, that a copy touches no slot of it;
  `Carried`, that what was copied is still what will be published.
  `SilentSteps`, `SendSteps`, `RecvSteps` and `OwnerSteps` map each action to
  its abstract one, and `RefinesStep` puts them together.

### The ring of bytes

`LockFreeQueue_proofs` proves, for any positive `msg_size` and `msg_max` whose
product fits a `uint32_t` (`LockFreeQueueAssumption`), and any number of calls:

| theorem | statement |
|---|---|
| `TypeCorrect` | `Spec => []TypeOK` |
| `NeverSplitHolds` | `Spec => []NeverSplit` |
| `CopiesDisjointHolds` | `Spec => []CopiesDisjoint` |
| `ImplementsMessageQueueHolds` | `Spec => ImplementsMessageQueue` |

- `IInv` says that both offsets are those of a slot (`Aligned`), and, as in
  `OsalMq`, what a thread still knows between its test and its store. A slot
  ends where the next one begins or where the buffer ends (`SlotFits`), so
  advancing goes to the next slot (`AdvanceSlot`) and no copy has a second part.
- Bytes of different slots are different (`BytePlace`, `OffsetInjective`), so a
  push that fills its slot (`CopyIn`) leaves every other one as it was.
- `Contents`, which is written with byte offsets, is then a sequence of slots
  (`ContentsBySlot`); `SlotArithmetic`, `QueueAppend` and `QueueTail` are what
  moving an index does to it, and `Carried` that what was copied in or out is
  the whole of one message. `PushSteps` and `PopSteps` map each action to its
  abstract one.

### One poll

`NetxPoll_proofs` proves, for any descriptors, any positive `max_counts`, any
lengths of the caller's array, with locks or without (`NetxPollAssumption`), and
any number of calls:

| theorem | statement |
|---|---|
| `PollInOrder` | `Spec => []PollInv` |
| `TypeCorrect` | `Spec => []TypeOK` |
| `ListsWellFormedHolds` | `Spec => []ListsWellFormed` |
| `EachItemOnceHolds` | `Spec => []EachItemOnce` |
| `ChainsIndexRingHolds` | `Spec => []ChainsIndexRing` |
| `ImplementsEventPollHolds` | `0 \notin Fds` implies `Spec => ImplementsEventPoll` |

- None of the three safety properties is inductive, and none can be without the
  others: a delete from the middle of a chain is right only if the item before it
  is on that chain and on no other list. `PollInv` says that there are a free
  list, a ring and a chain for each bucket, sequences without repetition that the
  links lead through, and that they share out the items as `Placed` says.
- What one operation does to one list is a lemma about sequences and links that
  knows nothing of a poll: taking the item at place `k` out of a chain
  (`LinkedCut`), putting one in front or at the end (`LinkedInFront`,
  `LinkedAtEnd`), the same for a ring closed both ways (`ClosedCut`,
  `ClosedAtEnd`), and turning it (`ClosedTurn`). A list that shares no item with
  what was written is as before (`LinkedSame`). `AddEffect` and `DelEffect` put
  them together for a call, `AddKeeps` and `DelKeeps` conclude.
- `Ring` and `Chain` are chosen by what a walk meets. That a walk meets one
  sequence only (`ClosedOne`, `LinkedOne`) is an induction along it, done as a
  search for the first place where two differ (`LeastOne`, `BeginsByStep`); that
  such a sequence is one of `ItemSeqs` is `OnceInItemSeqs`. So `Ring` and `Chain`
  are the sequences of the invariant (`NowIs`).
- For the refinement, `Lookup` says what calls read from the lists: who holds a
  descriptor, that the search finds it, when the free list is empty. `Tabled` says
  what the table of `EventPoll` holds then, and `CtlEntry` that a call changes one
  entry of it. `FullIs` counts: the table has `Capacity` entries exactly when the
  free list is empty. `ThoseIs` and `GatherImplements` are the report: the due
  items of the ring, in its order, are the due descriptors of the table, one for
  one, cut off at the length of the array. `0 \notin Fds` is used where a free
  item, whose `fd` is 0, must not be taken for one in use, and where a wait on
  descriptors must not be taken for a wait on nothing; the latter is what the
  code does with descriptor 0.

### The table of polls

The end of `Mlib_proofs`, where the table is the instance `Netx` of `Mlib`, proves,
for any set of polls and any step by which the table grows (`NetxPollsAssumption`),
and any number of calls:

| theorem | statement |
|---|---|
| `PollsTypeCorrect` | `Netx!Spec => []Netx!TypeOK` |
| `CreateFindsPlaceHolds` | `Netx!Spec => []Netx!CreateFindsPlace` |
| `EveryPollListedHolds` | `Netx!Spec => []EveryPollListed` |
| `HandleFindsItsPollHolds` | `Netx!Spec => []HandleFindsItsPoll` |

`CreateFindsPlace` follows from `EveryPollListed` by counting: a table without a
free place maps its places one to one to the polls allocated, so that `counts`
is at least its length and it is to grow (`PlaceFree`). `PollsInv` adds that the set
of polls is finite, which the count needs when one is added or removed; that the
place of a handle is inside the table; and that a poll that is gone has no
handle, without which the table could not be freed with its last poll.

### Tasks, semaphores, sockets and the allocator

`Mlib_proofs` extends `Mlib`, where the four are the instances `Task`, `Sem`,
`Sock` and `Mmem`. The assumptions of each are those of its module, and `MC_Mlib`
checks them on its values.

| theorem | statement |
|---|---|
| `WrapsOwnedHolds` | `Task!Spec => []WrapsOwned` (with `RunsAsCreated`) |
| `TimeoutsExactHolds` | `Sem!Spec => []TimeoutsExact` |
| `NothingLostHolds` | `Sock!Spec => []NothingLost` |
| `ResultsMeanSomethingHolds` | `Sock!Spec => ResultsMeanSomething` |
| `BlocksAccountedHolds` | `Mmem!Spec => []BlocksAccounted` (with `DumpFits`) |

- `OsalTask`: that a job runs once is not visible in the wrappers alone.
  `TaskInv` follows a job from the call that creates it through the wrapper to the
  one thread that has it (`OneThreadEach`), says that a wrapper in the creator's
  hands holds the creator's job, and that a job not yet created has neither thread
  nor run. `OsalTaskAssumption` keeps the ids of threads apart from the names of
  the places of a create; both are values of the model.
- `OsalSem`: `DeadlineExact` is the arithmetic of the carry, for any
  number of units to a millisecond and milliseconds to a second; a wait
  remembers when it began (`SemInv`), and what it times out at is that plus its
  timeout.
- `NetxSocket`: a call has at most one descriptor of its own, and the steps it
  has left begin with the one that opens it as long as it has none (`SockInv`,
  `WillOpen`, `WillLookUp`). Whatever step fails, what is closed is what is open
  and not yet the caller's.
- `MmemDebug`: there is a list that the links are, forward and back, with every
  active block on it once, whose sizes add up to what the table says (`Accounted`).
  Putting a node before the head (`RingAppend`) and taking one out (`RingDelete`)
  keep this; a realloc is both, and one that fails puts back what it took out.
  A walk meets this list and no other (`RingIsList`, `ListOfIs`), and `SumSizes`
  adds its sizes up (`SumSizesIs`).
  `Recursion` says that a recursive function is what its equation says and
  `Induction` what follows from one number to the next; both come from the least
  number of a set (`LeastOne`), since the provers cannot instantiate the
  library's induction theorems.

### EasyLogger

`ElogOutput_proofs` (asynchronous output and files) and `Elog_proofs` (the
rest) extend `Elog`, where the parts are instances; the assumptions are
those of the parts' modules, which `MC_Elib` checks on its values.

| theorem | statement |
|---|---|
| `RingMatchesHolds` | `Async!Spec => []RingMatches` |
| `RingGuardedHolds` | `Async!Spec => []RingGuarded` |
| `LockSettledHolds` | `Lock!Spec => []LockSettled` |
| `FilterAsAskedHolds` | `Filter!Spec => []FilterAsAsked` |
| `PrintedOnceHolds` | `Buf!Spec => []PrintedOnce` |
| `LockIsOneProcessHolds` | `File!Spec => []LockIsOneProcess` |
| `NewestFilesKeptHolds` | `File!Spec => []NewestFilesKept` |
| `FlashKeepsLogsHolds` | `Flash!Spec => []FlashKeepsLogs` (with `PrintsRecent`) |
| `LinesWholeHolds` | `Line!Spec => []LinesWhole` (with `HexdumpEnds`) |

- `ElogAsync`: the ring has two offsets and two flags for what one number would
  tell. `AsyncInv` numbers the bytes from the read offset on (`Numbered`) and says
  what the flags mean (`FlagsTell`); offsets are compared as distances
  (`UsedValue`), so that a put or a get that wraps is no other case than one that
  does not. No log is empty (`ElogAsyncAssumption`): an empty one would leave
  the flag of an empty ring wrong, and the code makes none, since each line has
  its newline. `RingGuarded` is why a put and a get are one action each:
  they run with the output lock held.
- `ElogLock`: `LockInv` says what each flag stands for after a call since the last
  switch; `settled` is what makes the switch find both flags true. Depth plays no
  part in it, and what does not follow for nested calls, `HeldWhileInside`, is the
  violation above.
- `ElogFilter`: the count of used slots is the number of tags for which something
  is asked because slots and tags map one to one, which `FilterInv` says tag by
  tag; the free slot that a new tag gets is the first (`LeastOne`).
- `ElogBuf`: what is printed and what is in the buffer, less what a flush has
  printed and not yet reset, are the bytes logged, as elements and as a sequence
  while nothing was switched off.
- `ElogFile`: `SemInv` says who can be creating the semaphore, who holds it, and
  what its value is then, across kills in any step: the undo of a killed holder
  is what gives it back. `FileInv` is about the names: newest first without gaps
  that matter (`Newest`), and during a rotation room above the next name
  (`RoomAbove`), which a second process in the rotation would take away. So it
  needs `SemInv`, and holds until a process went on without the lock
  (`unlocked`).
- `ElogFlash`: that the bytes of each writer are in order is inductive once the
  types say that an idle writer has nothing left (`FlashInv`). A step takes bytes
  of one writer to the buffer (`WriterAdds`), which puts others' bytes between
  its own at most (`OthersAdd`), or the buffer with its padding to the flash
  (`FlushKeeps`), where the arithmetic of words (`DivModIs`, `ModAfterWords`,
  `FillIs`) says where padding can stand. What is printed of the last bytes
  needs no more than that the flash has whole words: `RecentIsAt` computes
  the index, the turns of the reading loop and what the last of them skips, and
  `RecentIsPrinted` that the two pieces are one.
- `ElogLine`: `StrcpyIs` and `FormattedIs` are the two ways in which text is cut
  at the end of the buffer, one with the NUL that `vsnprintf` writes and one
  without. `WrittenIs`, `BodyIs` and `EndedIsWhole` follow a line through them; a
  dump is a state of its own between its lines (`DumpInv`), and its index stays
  below the size because the two together fit 16 bits.

### KCP

`Kcp_proofs` proves, for any windows, mtu, modes and lengths of messages and any
even modulus that is large enough for them (`KcpAssumption`), any datagrams lost,
repeated and reordered, and any number of calls:

| theorem | statement |
|---|---|
| `WindowsKeptHolds` | `Spec => []WindowsKept` |
| `AckedIsReceivedHolds` | `Spec => []AckedIsReceived` |

- Lengths and order alone are not inductive: a segment put into `rcv_buf` could
  be out of order with one that is half the numbers away. `IInv` says what numbers
  the buffers can have (`Window`): in `snd_buf` those from `snd_una` to
  `snd_nxt`, which are at most `snd_wnd` apart, and in `rcv_buf` those less than
  `rcv_wnd` from `rcv_nxt` on, in both as growing distances (`Off`) from where
  the window begins. That a buffer is no longer than its window then follows by
  counting distances (`WindowLength`), and that its neighbours are in the order of
  `_itimediff` because no window is wider than half of the numbers (`Distances`,
  `WindowOrdered`).
- A window moves on (`WindowMove`), loses segments at its front and in its middle
  (`WindowDrop`, `WindowRemove`), gets one put in its place (`WindowInsert`) or
  some at its end (`WindowAppend`); `ShrinkBufKeeps`, `ParsePushKeeps`,
  `MoveReadyKeeps` and `MoveNewKeeps` are these for the code's functions.
- Nothing is assumed of what arrives: the proof takes any segments with numbers
  in any order, so an end keeps its windows whatever the other end does.
- A datagram is one whose sizes add up to the mtu at most (`Datagram`, `Sums`);
  `PackedIn` follows the flush as it puts segments together. That each segment
  alone fits comes from `FragmentsAre` and `ExtendedIs`, which cut and fill up
  what the user sends.
- `AckedIsReceived` relates the two ends, and needs to know what is on its way
  between them. `Agree(k, p, toP, toK)` says it of an end `k` that sends and `p`
  that receives, with every number counted back from `snd_nxt` of `k` (`Off`), so
  that nothing wraps in it. `Covered`: what `p` waits for is in `snd_buf` or
  `rcv_buf`, and `rcv_buf` has nothing that was not sent. `WordsTrue` and `AcksTrue`:
  what `una` and acknowledgements say was received, was received, also those `p`
  has not sent yet. `PushesTrue`: the data on its way was sent, and not too long
  ago. `Agreed` is this for both ends with all segments in the network.
- That words are true is not enough; they must also not be so old that
  `_itimediff` takes them for new ones. For what is on its way `Lifetime` says
  so. An acknowledgement that waits for a flush of `p` can be older than the
  datagram it answers, by what `k` sends meanwhile. That is bounded: a segment of
  `k` that nothing on its way tells it to forget (`Unsaid`) stays in `snd_buf` until
  a flush of `p`, the window does not move past it, and what `p` will acknowledge
  is at most `Late` older (`AcksYoung`). From this come the bounds `Late` and `Behind` and what
  `KcpAssumption` asks of the windows.
- `Forgets` (segments leave `snd_buf`), `Receives` and `Orders` (a segment comes
  to `rcv_buf`, segments leave it in order), `SendsMore` (new numbers, old
  datagrams lost) and `Says` (acknowledgements leave) show that what an end can do
  keeps `Agree`. `ParseUnaAgrees`, `ParseAckAgrees`, `ParsePushAgrees`,
  `MoveReadyAgrees` and `FlushAgrees` are these for the functions of the code,
  `InputDatagramsAgree` follows whole datagrams, and `AgreedKept` has one lemma
  for each action.

### CUnit

`CUnit_proofs` proves, for any arrays of suites and tests that are not repeated
in them (`CUnitAssumption`: an entry of an array makes a suite or test of its
own), and any runs, checks that fail, skips and changes between runs:

| theorem | statement |
|---|---|
| `RunsAddUpHolds` | `Spec => []RunsAddUp` |

- What a run has counted can be compared with what it has called only when it is
  over. `IInv` says for every place of a run what is true there, of the record
  `r` of the run: `Ahead`, before a suite; `AtTests`, after `r.k - 1` of its tests;
  `InATest`, from the beginning of a test to the end of its tear-down;
  `TestsOver`, from the last test to the end of the cleanup function; `Over`. A
  step is shown to lead from one of them to the next (`ToTestsKeeps`,
  `TestStartsKeeps`, `TearDownKeeps`, `FinishKeeps`, `SuiteOverKeeps`), and the
  actions of the model are these, each once or twice. A jump out of a test keeps
  `InATest` as it is (`InTestStays`), which is why it may come anywhere.
- A test with two failed checks counts once because it is the current one until
  it is finished (`Failed(of, current)`), and one that was inactive in the same
  run is not among those that failed. The sums need that suites and tests are
  different and that a run meets each suite once (`Running`: those entered are
  before the position in the registry), so that sets can be counted one suite at
  a time (`SuiteAdds`).
- A suite whose tear-down was left by a jump keeps its flag and no longer tears
  down (`Torn`): `FixturesPaired` excepts it, as the code does. During that
  tear-down the flag is set as well; `Torn({run.suite}, {})` says that nothing
  was missed before.

### Only model-checked

- Liveness (`SendsReturn` and the like, `LogsPrinted`,
  `EverythingArrives`): fairness and `ENABLED` are beyond the prover.
- `ImplementsStream` of `Kcp`: that the bytes come in order is stated with
  `FlattenSeq`, and what a fold over a sequence computes, beyond its type
  (`FlattenIn`), is induction over data.
- `DecodesAsMeant`: `Nanopb` has recursive operators, which the prover does not
  take.

## 10. Not modelled

`PROJECT.json` lists every component with its reason.

- quirc, image processing; the front ends of CUnit (curses, wxWidgets, XML),
  which print what the framework counts. FlashDB is a configuration header for a
  submodule that is not in the repository.
- Of nanopb: callbacks, extensions, pointers (`PB_ENABLE_MALLOC` is off),
  strings, floating point, default values, streams that fail; the generator.
- Of KCP: timers, round-trip times and the growth of the congestion window, which
  decide when something is sent; the loops of kcp_test around it.
- The text of log lines; tests, demos and build scripts; the API of FreeRTOS.

Most lines of the implementation are those of the vendored libraries with their
front ends, tests and examples, so that the definitions here stand for a small
share of all lines, and for nearly all of the stateful code of `frameworks/mlib`.
