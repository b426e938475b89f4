CONSTANTS
    NULL = NULL
    t1 = t1
    f1 = f1
    f2 = f2
    c1 = c1
    a1 = a1
    k1 = k1
    FulfillmentId = {f1, f2}
    Tier = {t1}
    Customer = {c1}
    Client = {k1}
    Request = {r1, r2}
    Address = {a1}
    Stock <- OneUnit
    Limit <- LimitOne
    PurchaseWindow = 1
    RestoreWindow = 1
    MaxTime = 0
    MaxVersion = 3
    Operation <- Requests
    Pools = {2, 3}
SPECIFICATION TransactionsSpec
PROPERTIES
    AtomicSpec
    StuckOnlyByPool
CHECK_DEADLOCK FALSE
