SPECIFICATION Spec
CONSTANTS
    None = None
    Ring = Ring
    Pool = Pool
    Alice = Alice
    Bob = Bob
    Nobody = Nobody
    Symbols = {Ring, Pool}
    Isolated = {Ring}
    Strategies = {Alice, Bob}
    Unattributed = Nobody
    Rank <- RankOf
    Leverage <- LeverageOf
    MaintNum = 1
    MaintDen = 6
    Genesis = 200
    Fee = 1
    Scenes <- AllScenes
    Lock <- LockOf
    Buckets <- BucketAmounts
    Payments <- PaymentAmounts
    MaxFills = 3
    MaxPayments = 1
    MaxReads = 2
    MaxTopUps = 1
    MaxRestarts = 1
INVARIANTS
    BooksBalance
    BucketIsTheVenues
    LevelsAreTrue
CHECK_DEADLOCK FALSE
