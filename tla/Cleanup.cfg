CONSTANTS
    NULL = NULL
    t1 = t1
    FulfillmentId = {f1, f2}
    Tier = {t1}
    Customer = {c1}
    Client = {}
    Address = {}
    Stock <- TwoUnits
    Limit <- LimitOne
    PurchaseWindow = 1
    RestoreWindow = 1
    MaxTime = 3
    MaxVersion = 3
    Retention = 1
SPECIFICATION FairSpec
INVARIANTS
    CleanupTypeOK
    NoOrphans
    RollingLimitWithPurged
    StockAccounted
PROPERTIES
    PurgedUnlessBlocked
CHECK_DEADLOCK FALSE
