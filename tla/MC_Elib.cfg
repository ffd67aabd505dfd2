\* All calls of a part may have been made, so the system may stop.
SPECIFICATION ElibSpec
CHECK_DEADLOCK FALSE
CONSTANTS
    Loggers = {l1, l2}
    AsyncThread = AsyncThread
    NoThread = NoThread
    RingSize = 3
    PollSize = 2
    LineLengths = {2}
    ByLine = {TRUE, FALSE}
    MaxNotices = 2
    Tags = {"a", "b", "c", "cc"}
    NoTag = NoTag
    Short <- ShortOfTwo
    Strstr <- StrstrOfTwo
    Slots = 2
    MaxSwitches = 3
    MaxDepth = 2
    LineSize = 6
    CsiEnd = 2
    Width16 = 16
    Widths = {1, 2}
    BufSize = 3
    BufSizes = {1, 2, 7}
    MaxLogged = 8
    Writers = {w1, w2}
    Nobody = Nobody
    Word = 2
    FlashBufSize = 4
    ReadSize = 4
    WriteSizes = {3, 5}
    MaxWritten = 6
    Procs = {p1, p2}
    MaxSize = 0
    MaxRotate = 2
    MaxFiles = 3
    MaxKills = 1
    Suites = {"s1", "s2"}
    Tests = {"t1", "t2", "t3"}
    Infos <- SuiteInfos
    None = None
    MaxRuns = 2
    MaxChecks = 2
    MaxChanges = 1
    Group = 3
    Width = 8
    MaxPieces = 2
    MaxPiecesCut = 1
INVARIANTS
    RingMatches
    FilterAsAsked
    LockSettled
    LinesWhole
    PrintedOnce
    FlashKeepsLogs
    NewestFilesKept
    LockIsOneProcess
    RunsAddUp
    DecodesAsMeant
PROPERTIES
    LogsPrinted
