SPECIFICATION Spec
CONSTANTS
    None = None
    Total = 4
    Holdoff = 2
    Reissue = 8
    Idle = 5
    MinWait = 1
    Spacing = 2
    Horizon = 16
INVARIANTS NackedInTime FirstNackPrompt SilenceEnds EveryWakeActs
PROPERTIES NoEarlyRenack
CHECK_DEADLOCK FALSE
