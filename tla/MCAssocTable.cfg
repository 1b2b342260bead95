SPECIFICATION Spec
CONSTANTS
    k1 = k1
    k2 = k2
    k3 = k3
    k4 = k4
    k5 = k5
    k6 = k6
    k7 = k7
    Workers = {w1, w2}
    None = None
    Keys = {k1, k2, k3, k4, k5, k6, k7}
    HashOf <- Hashes
    Active = {k1, k2, k3}
    LockPower = 1
    InitPower = 2
    MaxPower = 3
SYMMETRY WorkerSymmetry
INVARIANT TableExact
 
CHECK_DEADLOCK FALSE
