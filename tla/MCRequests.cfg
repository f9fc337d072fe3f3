SPECIFICATION WebSpec
CONSTANTS
    NumAccounts = 2
    NumTypes = 1
    MaxOrders = 5
    MaxTime = 2
    Matures <- WebMatures
    Private = {}
    InitialBalance <- WebBalances
    Trades <- WebTrades
    Typed <- TypedTrades
    Oracle = {1}
    MATCH_OWN_OFFERS = FALSE
INVARIANTS
    WebTypeOK
    ChecksSuffice
    AcceptTrades
PROPERTIES
    OffsetCloses
