SPECIFICATION Spec
CONSTANTS
    t1 = t1
    t2 = t2
    Task = {t1, t2}
    top = top
    leaf = leaf
    Top = {top}
    Leaf = {leaf}
    MaxInode = 3
    MaxVersion = 2
    MaxRequests = 3
    SoftLimit = 1
    NegCapacity = 1
    None = None
INVARIANTS TreeInv MissIsReal
PROPERTIES ListingsKeepWork
SYMMETRY Symmetry
CHECK_DEADLOCK FALSE
