SPECIFICATION ReportsSpec
CONSTANTS
    s1 = s1
    s2 = s2
    p1 = p1
    p2 = p2
    NoSender = NoSender
    NoFile = NoFile
    Senders <- OneSender
    Total <- TotalTwo
    ShortTail <- None
    TmpOf <- TmpNames
    Misread <- None
    Paths <- OnePath
    Path <- SamePath
    Env <- Faulty
    MaxLosses = 0
    DrainInterval = 2
    MaxAttempts = 1
    MaxPasses = 2
    Serve = TRUE
    Verify = TRUE
    MaxNacks = 1
    Timely = FALSE
    Recv = Recv
    Jsonl = TRUE
    Progress = TRUE
INVARIANTS SessionAgrees VerifyDetects StreamReadable StreamTrue
PROPERTIES KeepsPromise
CHECK_DEADLOCK FALSE
