SPECIFICATION Spec
CONSTANTS
    s1 = s1
    s2 = s2
    p1 = p1
    p2 = p2
    NoSender = NoSender
    NoFile = NoFile
    Senders <- OneSender
    Total <- TotalTwo
    ShortTail <- None
    TmpOf <- TmpNames
    Misread <- None
    Paths <- OnePath
    Path <- SamePath
    Env <- NoSpace
    MaxLosses = 0
    DrainInterval = 2
    MaxAttempts = 1
    MaxPasses = 1
    Serve = FALSE
    Verify = FALSE
    MaxNacks = 2
    Timely = FALSE
INVARIANTS NoTmpLeftBehind
CHECK_DEADLOCK FALSE
