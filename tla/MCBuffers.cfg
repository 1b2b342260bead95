SPECIFICATION MCSpec
CONSTANTS
    Size = 5
    Val = {0, 1}
    MaxReq = 3
    Sizes = {0, 8192}
    KeySizes = {4, 8}
    DSize = 72
    UseCas = TRUE
    Places <- EveryPlace
    Rests = {8192}
    ShortReads = FALSE
    w1 = w1
    NoLogger = NoLogger
    Loggers = {w1}
    NextLogger <- MCNextLogger
    Slots = {1, 2}
    Flags = {1, 2}
    LogSize = 2
    WatcherSize = 2
    MaxEntries = 2
    MaxWatchers = 3
    MaxChanges = 2
INVARIANTS ReadInPlace OfferCannotFail Placed SegmentComplete WatchersServed
PROPERTIES ImplementsFifo ReadTerminates Drains
CHECK_DEADLOCK FALSE
