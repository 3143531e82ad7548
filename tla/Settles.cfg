\* Liveness: one order of two lots, its cancel and one crash, under fairness.
CONSTANTS
    c1 = c1
    Cloids <- OneOrder
    Cancellable <- OneOrder
    Lots = 2
    MissLimit = 2
    MaxCrashes = 1
    MaxDups = 0
    MaxBacklog = 1
    Forgets = FALSE
SPECIFICATION FairSpec
\* Every signal may have been asked and every order have ended: the model stops.
CHECK_DEADLOCK FALSE
PROPERTIES
    OpenSagasSettle
