SPECIFICATION MCSpec
CONSTANTS
    Size = 1
    Val = {0}
    MaxReq = 0
    Sizes = {8192}
    KeySizes = {8}
    DSize = 72
    UseCas = TRUE
    Places <- EveryPlace
    Rests = {8192}
    ShortReads = TRUE
    w1 = w1
    NoLogger = NoLogger
    Loggers = {w1}
    NextLogger <- MCNextLogger
    Slots = {1, 2}
    Flags = {1, 2}
    LogSize = 2
    WatcherSize = 2
    MaxEntries = 0
    MaxWatchers = 0
    MaxChanges = 2
INVARIANT SegmentComplete
CHECK_DEADLOCK FALSE
