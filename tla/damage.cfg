SPECIFICATION ReportsSpec
CONSTANTS
    s1 = s1
    s2 = s2
    p1 = p1
    p2 = p2
    NoSender = NoSender
    NoFile = NoFile
    Senders <- OneSender
    Total <- TotalTwo
    ShortTail <- OneSender
    TmpOf <- TmpNames
    Misread <- MisreadTwo
    Paths <- TwoPaths
    Path <- SamePath
    Env <- Damaging
    MaxLosses = 0
    DrainInterval = 2
    MaxAttempts = 1
    MaxPasses = 2
    Serve = TRUE
    Verify = FALSE
    MaxNacks = 2
    Timely = FALSE
    Recv = Recv
    Jsonl = FALSE
    Progress = TRUE
INVARIANTS QueueInv FinalIsWhole BarOwned
PROPERTIES StoredChunksStay
CHECK_DEADLOCK FALSE
