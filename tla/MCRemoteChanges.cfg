SPECIFICATION LiveSpec
CONSTANTS
    root = root
    sub = sub
    top = top
    deep = deep
    Root = root
    Sub = {sub}
    File = {top, deep}
    DirOf <- Dirs
    LiveFollow = TRUE
    Interval = TRUE
    MaxSilent = 2
    MaxRevision = 2
    None = None
INVARIANTS TypeOK NothingMissed
PROPERTIES CatchesUp
