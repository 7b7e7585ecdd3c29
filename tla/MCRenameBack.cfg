SPECIFICATION RenameSpec
CONSTANTS
    i1 = i1
    i2 = i2
    a = a
    b = b
    c0 = c0
    c1 = c1
    c2 = c2
    h1 = h1
    h2 = h2
    r1 = r1
    r2 = r2
    Ino = {i1, i2}
    Path = {a, b}
    Content = {c0, c1, c2}
    Empty = c0
    Handle = {h1}
    Req = {r1, r2}
    Flusher = Flusher
    None = None
    SeedIno = i1
    SeedPath = a
    SeedContent = c1
    GcArmed = FALSE
    Rewrites = FALSE
    MaxOps = 4
    MaxFaults = 0
INVARIANTS NoSelfDelete
CHECK_DEADLOCK FALSE
