SPECIFICATION Spec
CONSTANTS
    None = None
    Total = 4
    Holdoff = 2
    Reissue = 4
    Idle = 6
    MinWait = 1
    Spacing = 1
    Horizon = 12
INVARIANTS FirstNackPrompt
CHECK_DEADLOCK FALSE
