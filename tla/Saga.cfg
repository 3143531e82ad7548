\* One order of two lots, its place and its cancel, two crashes and one redelivery,
\* with a venue that may take a placement long after the engine gave it up and may
\* drop the record of an order that has ended.
CONSTANTS
    c1 = c1
    Cloids <- OneOrder
    Cancellable <- OneOrder
    Lots = 2
    MissLimit = 2
    MaxCrashes = 2
    MaxDups = 1
    MaxBacklog = 2
    Forgets = TRUE
SPECIFICATION Spec
\* Every signal may have been asked and every order have ended: the model stops.
CHECK_DEADLOCK FALSE
INVARIANTS
    NeverPlacedTwice
    AnnouncedIsDurable
    BookedOnce
    TerminalAgreesWithVenue
    EndedOrdersAreHealed
    BarrierProvesAll
    MemoryIsDurable
PROPERTIES
    ImplementsContract
