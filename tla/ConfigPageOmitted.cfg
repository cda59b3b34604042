SPECIFICATION PageSpec
CONSTANTS
    U = 7
    K = 3
    Default = 6
    Configs <- Intervals
    Erased = Erased
    Garbage = Garbage
    None = None
    RecordPages = 2
    BufferPages = 4
PROPERTY OmittedKept
