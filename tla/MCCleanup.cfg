SPECIFICATION Spec
CONSTANTS
    NumAccounts = 2
    NumTypes = 1
    MaxOrders = 3
    MaxTime = 1
    Matures <- MaturesAtOne
    Private = {}
    InitialBalance <- AmpleBalances
    Trades <- ExpiringTrades
INVARIANTS
    CleanupCompletes
