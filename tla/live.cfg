SPECIFICATION FairSpec
CONSTANTS
    s1 = s1
    s2 = s2
    p1 = p1
    p2 = p2
    NoSender = NoSender
    NoFile = NoFile
    Senders <- OneSender
    Total <- TotalTwo
    ShortTail <- None
    TmpOf <- TmpNames
    Misread <- None
    Paths <- OnePath
    Path <- SamePath
    Env <- None
    MaxLosses = 2
    DrainInterval = 1
    MaxAttempts = 3
    MaxPasses = 4
    Serve = FALSE
    Verify = FALSE
    MaxNacks = 2
    Timely = TRUE
PROPERTIES SenderSucceeds
CHECK_DEADLOCK FALSE
