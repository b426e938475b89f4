CONSTANTS
    NULL = NULL
    t1 = t1
    FulfillmentId = {f1, f2}
    Tier = {t1}
    Customer = {c1}
    Client = {}
    Address = {}
    Stock <- OneUnit
    Limit <- LimitTwo
    PurchaseWindow = 1
    RestoreWindow = 1
    MaxTime = 0
    MaxVersion = 3
    Admin = {b1}
    Count = {0, 1}
    DefaultLimit = 2
SPECIFICATION EditSpec
SYMMETRY Symmetry
INVARIANTS
    NoOversell
CHECK_DEADLOCK FALSE
