SPECIFICATION Spec
CONSTANTS
    Users = {u1, u2}
    Mover = Mover
    None = None
    Pages = {p1, p2, p3}
    Classes = {1, 2}
    PerSlab <- TwoAndOne
    Keys = {k1, k2}
    Locks = {l1}
    LockOf <- OneStripe
    Limits = {1, 3}
    GraphUsers = FALSE
SYMMETRY Symmetry
INVARIANTS  HeldStaysInPlace MoverCountsExact
PROPERTY KeysSurviveMove
