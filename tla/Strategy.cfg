\* A strategy that requotes, over any two of: a kill, a teardown, a tick published
\* again, an error of the strategy and a failed restore.
CONSTANTS
    btc = btc
    Symbols <- OneSymbol
    Script <- RequoteOnce
    MaxTicks = 2
    MaxMishaps = 2
SPECIFICATION Spec
\* Every tick may have been heard and every order have ended: the model stops.
CHECK_DEADLOCK FALSE
INVARIANTS
    SeqNeverReused
    StepTakenOnce
    CancelAllReachesEarlier
    CancelAllLeavesNone
