SPECIFICATION Spec
CONSTANTS
    NumAccounts = 2
    NumTypes = 1
    MaxOrders = 1
    MaxTime = 2
    Matures <- MaturesAtOne
    Private = {}
    InitialBalance <- AmpleBalances
    Trades <- SwapTrades
PROPERTIES
    NoLateOffer
