SPECIFICATION Spec
CONSTANTS
    c1 = c1
    c2 = c2
    c3 = c3
    only = only
    k1 = k1
    k2 = k2
    Clients = {c1, c2, c3}
    Threadings <- OneOrTwoThreads
    Reads <- TheReads
    Chunks = {i1, i2}
    Keys = {k1, k2, k3}
    Locks = {l1}
    LockOf <- OneStripe
    Buckets = {b1}
    BucketOf <- OneBucket
    None = None
    RefModulo = 6
    PullTries = 5
    AllocTries = 2
SYMMETRY Symmetry
INVARIANTS BetweenCalls ReadStable AssertsHold ReadersProgress
CHECK_DEADLOCK FALSE
