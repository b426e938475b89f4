CONSTANTS
    NULL = NULL
    t1 = t1
    FulfillmentId = {f1}
    Tier = {t1}
    Customer = {c1}
    Client = {}
    Address = {}
    Stock <- OneUnit
    Limit <- LimitTwo
    PurchaseWindow = 1
    RestoreWindow = 1
    MaxTime = 0
    MaxVersion = 3
    Admin = {b1, b2}
    Count = {0, 1}
    DefaultLimit = 2
    Column = {phone}
SPECIFICATION CustomerEditingSpec
SYMMETRY Symmetry
INVARIANTS
    CustomerEditingTypeOK
    NoLostTierEdit
PROPERTIES
    NoLostContactEdit
CHECK_DEADLOCK FALSE
