CONSTANTS
    NULL = NULL
    t1 = t1
    FulfillmentId = {f1, f2, f3}
    Tier = {t1}
    Customer = {c1, c2}
    Client = {}
    Address = {}
    Stock <- TwoUnits
    Limit <- LimitOne
    PurchaseWindow = 1
    RestoreWindow = 1
    MaxTime = 2
    MaxVersion = 3
SPECIFICATION Spec
SYMMETRY Symmetry
INVARIANTS
    TypeOK
    StockConserved
    ReservationFollowsStatus
    RollingLimit
CHECK_DEADLOCK FALSE
