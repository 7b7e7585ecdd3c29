SPECIFICATION Spec
CONSTANTS
    three = three
    empty = empty
    c1 = c1
    c2 = c2
    c3 = c3
    File = {three, empty}
    Lens <- TermLens
    Ranges <- SomeRanges
    Caller = {c1, c2}
    MaxEntries = 2
    MaxCalls = 2
    Cancels = TRUE
    None = None

PROPERTIES Returns
CHECK_DEADLOCK FALSE
