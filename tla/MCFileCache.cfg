SPECIFICATION Spec
CONSTANTS
    m1 = m1
    m2 = m2
    t1 = t1
    t2 = t2
    t3 = t3
    x = x
    y = y
    Mount = {m1, m2}
    Task = {t1, t2, t3}
    Home <- Homes
    Hash = {x, y}
    Size <- Sizes
    Capacity = 2
    Permits = 1
    None = None
INVARIANTS TypeOK OneDownload Accounting HitsAreWhole NoLeak
PROPERTIES ImplementsSingleFlight
