\* Two publishes, a cascade over two partitions, faults, refused
\* commits and two restarts, under fairness.
CONSTANTS
    p1 = p1
    p2 = p2
    r1 = r1
    r2 = r2
    k1 = k1
    Partitions <- TwoPartitions
    Events <- ThreeEvents
    Roots <- TwoRoots
    PartitionOf <- Keys
    Cascade <- OneChild
    MaxLives = 2
    CommitMayFail = TRUE
SPECIFICATION FairSpec
\* Every publish may have returned: the model stops.
CHECK_DEADLOCK FALSE
INVARIANTS
    CommittedIsFinished
    ReturnedIsDelivered
PROPERTIES
    DrainsEnd
    LandedIsDelivered
