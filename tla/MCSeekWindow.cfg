SPECIFICATION Spec
CONSTANTS
    HfebLen = 1
    RafLen = 2
    ChunkSize = 2
    Overhead = 1
    NoPlan = NoPlan
    FileSize = 7
    InitialWindow = 2
    MaxWindow = 4
    SeekWindow = 2
    ForwardSkip = 1
    MaxAttempts = 2
    Sizes = {1, 3}
    ChunkLens = {1, 3}
    FirstAt = {0, 5}
    Objects <- SomeObjects
    None = None
INVARIANTS ReadIsExact

