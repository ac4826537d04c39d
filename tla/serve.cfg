SPECIFICATION ReportsSpec
CONSTANTS
    s1 = s1
    s2 = s2
    p1 = p1
    p2 = p2
    NoSender = NoSender
    NoFile = NoFile
    Senders <- TwoSenders
    Total <- TotalMixed
    ShortTail <- OneSender
    TmpOf <- TmpNames
    Misread <- None
    Paths <- OnePath
    Path <- SamePath
    Env <- Lossy
    MaxLosses = 0
    DrainInterval = 2
    MaxAttempts = 1
    MaxPasses = 2
    Serve = TRUE
    Verify = FALSE
    MaxNacks = 1
    Timely = FALSE
    Recv = Recv
    Jsonl = TRUE
    Progress = TRUE
INVARIANTS TypeOK FullMeansWhole NoTmpLeftBehind CompletedMeansSaved PercentsRise ProgressHonest
PROPERTIES SessionKept
CHECK_DEADLOCK FALSE
