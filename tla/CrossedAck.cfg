\* A read that heals a part fill while the placement answer is still on its way.
CONSTANTS
    c1 = c1
    Cloids <- OneOrder
    Cancellable <- OneOrder
    Lots = 2
    MissLimit = 2
    MaxCrashes = 0
    MaxDups = 0
    MaxBacklog = 2
    Forgets = FALSE
SPECIFICATION Spec
\* Every signal may have been asked and every order have ended: the model stops.
CHECK_DEADLOCK FALSE
INVARIANTS
    RacesAreAbsorbed
