\* A fill, a foreign trade that may close it, two payments, and a crash or a
\* lost connection, under fairness.
CONSTANTS
    btc = btc
    sma = sma
    nobody = nobody
    buy = buy
    alien = alien
    deposit = deposit
    pay = pay
    repay = repay
    Symbols <- OneSymbol
    Owners <- TwoOwners
    Unattributed = nobody
    Fills <- OneFill
    Foreign <- OneTrade
    Payments <- TwoPayments
    SymbolOf <- Symbol
    OwnerOf <- Owner
    Qty <- Quantity
    Price <- PriceOf
    Money <- Amount
    MaxBreaks = 1
SPECIFICATION FairSpec
INVARIANTS
    BookedOnce
    MarksCoverBooked
PROPERTIES
    HealsWaitForFacts
    HealsReachTheVenue
    LedgerConverges
