SPECIFICATION ServerFairSpec
CONSTANTS
    c1 = c1
    c2 = c2
    k1 = k1
    k2 = k2
    Conns = {c1, c2}
    Keys = {k1, k2}
    i1 = i1
    i2 = i2
    i3 = i3
    Items = {i1, i2, i3}
    Pool <- MCPool
    None = None
    LongKey = LongKey
    Word = 100
    Big = 3
    ITEM_UPDATE_INTERVAL = 1
    WorkerOf <- MCWorkerOf
    Menus <- MCMenus
    SaslMenus = {"sasl"}
    MaxTime <- MCMaxTime
    ReqsPerEvent = 1
    LineLimit = 1
    Cut = {"ascii1", "ascii2", "binary1", "binary2", "sasl"}
    MaxFailures <- MCMaxFailures
INVARIANTS RefcountExact ReplyIntact  RepliesMatch
PROPERTIES  FlushHides Serves
CHECK_DEADLOCK FALSE
