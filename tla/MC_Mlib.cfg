\* All calls of a part may have been made, so the system may stop.  The descriptors
\* 3, 6 and 9 of the poll fall into one bucket of its three, 4 into another.
SPECIFICATION MlibSpec
CHECK_DEADLOCK FALSE
SYMMETRY ThreadSymmetry
CONSTANTS
    Fds = {3, 4, 6, 9}
    Masks = {{"in"}}
    max_counts = 3
    BufferSizes = {2}
    AlwaysReady = {}
    mlock_disable = FALSE
    Polls = {p1, p2, p3, p4, p5}
    NoPoll = NoPoll
    Chunk = 2
    SocketFds = {3, 4, 5}
    MaxIfLists = 1
    Addrs = {a1, a2, a3}
    ListHead = head
    Sizes = {0, 1, 3}
    Overhead = 2
    MaxInfos = 3
    Jobs = {j1, j2, j3}
    Wraps = {w1, w2}
    Ids = {i1, i2}
    NoJob = NoJob
    NoWrap = NoWrap
    NoId = NoId
    Threads = {t1, t2}
    NoThread = NoThread
    UsPerMs = 2
    MsPerSec = 2
    Timeouts = {1, 3}
    MaxNow = 7
    MaxValue = 1
INVARIANTS
    ListsWellFormed
    EachItemOnce
    ChainsIndexRing
    EveryPollListed
    HandleFindsItsPoll
    NothingLost
    BlocksAccounted
    WrapsOwned
    TimeoutsExact
PROPERTIES
    ResultsMeanSomething
