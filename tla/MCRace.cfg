SPECIFICATION Spec
CONSTANTS
    NumAccounts = 5
    NumTypes = 2
    MaxOrders = 10
    Matures <- TwoTypes
    Private = {}
    InitialBalance <- ThinBalances
    Worker = {"p", "q"}
    Connection = {"p", "q"}
    Deployments <- Threads
    Order <- Orders
    Resting = {1, 2, 3}
    Holdings <- Positions
    FirstUser <- Users
    Name = {1, 2, 3, 4}
    Logins <- Entries
    Rounds = 2
INVARIANT Conserved
