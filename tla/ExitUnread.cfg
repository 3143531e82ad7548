CONSTANTS
    a = a
    b = b
    s1 = s1
    s2 = s2
    un = un
    Symbols <- MCSymbols
    Owners <- MCOwners
    Unattributed <- un
    Rank <- MCRank
    GiveUp = 3
    Scenarios <- MCCrossing

SPECIFICATION Spec
CHECK_DEADLOCK FALSE

INVARIANTS
    DoneIsBooked
