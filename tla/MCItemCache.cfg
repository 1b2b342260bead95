SPECIFICATION FairSpec
CONSTANTS
    Clients = {c1, c2}
    Chunks = {i1, i2, i3}
    k1 = k1
    k2 = k2
    l1 = l1
    l2 = l2
    Keys = {k1, k2}
    Locks = {l1, l2}
    LockOf <- TwoStripes
    None = None
    PullTries = 2
    AllocTries = 2
INVARIANTS LinksExact HeldIsAlive RefcountExact
PROPERTIES ImplementsCacheMap OperationsEnd
