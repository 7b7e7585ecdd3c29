SPECIFICATION Spec
CONSTANTS
    t1 = t1
    t2 = t2
    t3 = t3
    i1 = i1
    i2 = i2
    n1 = n1
    n2 = n2
    Name = {n1, n2}
    Task = {t1, t2, t3}
    Ino = {i1, i2}
    First = {i1}
    Capacity = 1
    MaxHandle = 4
    MaxHash = 1
    MaxRequests = 3
    None = None
INVARIANTS PoolInv NoHandleLost NeverStale
SYMMETRY Symmetry
CHECK_DEADLOCK FALSE
