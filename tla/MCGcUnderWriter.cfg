SPECIFICATION GcSpec
CONSTANTS
    i1 = i1
    i2 = i2
    a = a
    b = b
    c0 = c0
    c1 = c1
    c2 = c2
    h1 = h1
    h2 = h2
    r1 = r1
    r2 = r2
    Ino = {i1}
    Path = {a}
    Content = {c0, c1, c2}
    Empty = c0
    Handle = {h1, h2}
    Req = {r1, r2}
    Flusher = Flusher
    None = None
    SeedIno = i1
    SeedPath = a
    SeedContent = c1
    GcArmed = TRUE
    Rewrites = FALSE
    MaxOps = 4
    MaxFaults = 1
INVARIANTS WritersKeepStaging
CHECK_DEADLOCK FALSE
