\* Two requests at a time, every call, beside the consumer.
CONSTANTS
    r1 = r1
    r2 = r2
    a = a
    None = None
    Request = {r1, r2}
    Api = {"voidTransaction", "resolveConflict", "correctTransaction", "create", "reconcile", "resolve", "adjustStock"}
    Product = {a}
    Basket <- MCBasket
    InitialStock <- MCStock
    Change <- MCChange
    MaxRecords = 3
    MaxAdjusted = 1
SPECIFICATION Spec
CHECK_DEADLOCK FALSE
SYMMETRY RequestSymmetry
INVARIANTS
    TypeOK
    HistoryIsComplete
    FailedForCause
    StockIsHistory
    PendingMovesNothing
    StockFollowsStatus
PROPERTY ImplementsSaleAccounts
