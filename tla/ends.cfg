SPECIFICATION FairSpec
CONSTANTS
    s1 = s1
    s2 = s2
    p1 = p1
    p2 = p2
    NoSender = NoSender
    NoFile = NoFile
    Senders <- TwoSenders
    Total <- TotalEmpty
    ShortTail <- None
    TmpOf <- TmpNames
    Misread <- None
    Paths <- TwoPaths
    Path <- OwnPath
    Env <- Failing
    MaxLosses = 1
    DrainInterval = 2
    MaxAttempts = 1
    MaxPasses = 2
    Serve = TRUE
    Verify = FALSE
    MaxNacks = 2
    Timely = TRUE
PROPERTIES ServesAgain SenderEnds
CHECK_DEADLOCK FALSE
