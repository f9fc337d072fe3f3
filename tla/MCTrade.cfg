SPECIFICATION Spec
CONSTANTS
    NumAccounts = 2
    NumTypes = 1
    MaxOrders = 4
    MaxTime = 1
    Matures <- OneType
    Private = {}
    InitialBalance <- TightBalances
    Trades <- TightTrades
INVARIANTS
    TypeOK
    Conserved
    ZeroSum
    AssertionsHold
    BookUncrossed
PROPERTIES
    PriceTimePriority
    AllOrNothing
    RestingNeverCharged
    KeepsPromise
    MessagesFollow
