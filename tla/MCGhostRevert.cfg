SPECIFICATION WriterSpec
CONSTANTS
    a = a
    b = b
    c0 = c0
    c1 = c1
    c2 = c2
    i1 = i1
    i2 = i2
    h1 = h1
    h2 = h2
    h3 = h3
    r1 = r1
    r2 = r2
    r3 = r3
    Ino = {i1}
    Path = {a}
    Content = {c0, c1, c2}
    Empty = c0
    Handle = {h1, h2}
    Req = {r1, r2}
    None = None
    SeedIno = i1
    SeedPath = a
    SeedContent = c1
    MaxOps = 3
    MaxFaults = 1
INVARIANTS CleanIsGood
CHECK_DEADLOCK FALSE
