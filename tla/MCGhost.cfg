SPECIFICATION Spec
CONSTANTS
    NumAccounts = 2
    NumTypes = 1
    MaxOrders = 4
    MaxTime = 0
    Matures <- MaturesAtOne
    Private = {}
    InitialBalance <- ThinBalances
    Trades <- ThinTrades
INVARIANTS
    AuditTrail
