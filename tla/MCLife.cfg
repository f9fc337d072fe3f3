SPECIFICATION Spec
CONSTANTS
    NumAccounts = 2
    NumTypes = 2
    MaxOrders = 4
    MaxTime = 1
    Matures <- PublicAndPrivate
    Private = {2}
    InitialBalance <- AmpleBalances
    Trades <- LifeTrades
INVARIANTS
    Conserved
    ZeroSum
    AuditTrail
    ResolutionsReported
    AssertionsHold
PROPERTIES
    ResolvesWhole
    SweptClean
    KeepsPromise
