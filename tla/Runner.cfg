\* Runs that trade, exit, are refused or will not align, with a mishap anywhere.
CONSTANTS
    trades = trades
    marks = marks
    btc = btc
    eth = eth
    Streams <- MCStreams
    Symbols <- MCSymbols
    Scenes <- MCScenes
SPECIFICATION FairSpec
\* Every run is over once: the model stops.
CHECK_DEADLOCK FALSE
INVARIANTS
    PublishersEndFirst
    ExitCodeIsTrue
    BootAligns
PROPERTIES
    RunEnds
    FeedKeepsUp
