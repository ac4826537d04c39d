SPECIFICATION FairSpec
CONSTANTS
    MaxArrivals = 3
    MaxSignals = 2
INVARIANTS ExitTrue TmpGone LingerHarmless
PROPERTIES SignalEnds
CHECK_DEADLOCK FALSE
