SPECIFICATION FairSpec
CONSTANTS
    NumAccounts = 2
    NumTypes = 1
    MaxOrders = 3
    MaxTime = 2
    Matures <- MaturesAtOne
    Private = {}
    InitialBalance <- AmpleBalances
    Trades <- DailyTrades
PROPERTIES
    MaturedOffersLeave
