SPECIFICATION Spec
CONSTANTS
    three = three
    empty = empty
    c1 = c1
    c2 = c2
    c3 = c3
    File = {three, empty}
    Lens <- TermLens
    Ranges <- SomeRanges
    Caller = {c1, c2}
    MaxEntries = 2
    MaxCalls = 4
    Cancels = FALSE
    None = None
INVARIANTS TypeOK AnswerIsRange
PROPERTIES ImplementsSingleFlight Returns
CHECK_DEADLOCK FALSE
