SPECIFICATION FairSpec
CONSTANTS
    NumAccounts = 5
    NumTypes = 2
    MaxOrders = 10
    Matures <- TwoTypes
    Private = {}
    InitialBalance <- ThinBalances
    Worker = {"p", "q"}
    Connection = {"p", "q"}
    Deployments <- Either
    Order <- Orders
    Resting = {1, 2, 3}
    Holdings <- Positions
    FirstUser <- Users
    Name = {1, 2, 3, 4}
    Logins <- Entries
    Rounds = 2
INVARIANTS
    TypeOK
    OrdersSerialise
    Accounted
    AccountsKept
PROPERTIES
    TradesKeepPromise
    PaysOnce
    PaysAll
    Finishes
