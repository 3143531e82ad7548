CONSTANTS
    LotUnits = 2
    MinNotional = 2
    MaxOrderSize = 3
    MaxOrderValue = 4
    MaxPosition = 3
    MarkMaxAge = 0
    MaxOrders = 2
    Window = 1
    Menu <- MCMenu
    Prices <- MCPrices
    Marks <- MCMarks
    Holdings <- MCHoldings
    Budgets <- MCBudgets
    Interval = 1

SPECIFICATION Spec
CHECK_DEADLOCK FALSE

INVARIANTS
    ReduceOnlyReduces
    BookMatchesRows
    WithinCap
    FundingIsExact
PROPERTIES
    HaltHolds
