SPECIFICATION Spec
CHECK_DEADLOCK FALSE
CONSTANTS
    Loggers = {l1}
    Async = Async
    NoThread = NoThread
    BufSize = 3
    PollSize = 2
    LogSizes = {2}
    ByLine = {FALSE}
    MaxNotices = 2
INVARIANTS
    OutputsExclusive
