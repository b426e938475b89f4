CONSTANTS
    NULL = NULL
    t1 = t1
    FulfillmentId = {f1}
    Tier = {t1}
    Customer = {c1}
    Client = {k1}
    Address = {a1, a2}
    Stock <- TwoUnits
    Limit <- LimitOne
    PurchaseWindow = 1
    RestoreWindow = 1
    MaxTime = 1
    MaxVersion = 7
SPECIFICATION Spec
SYMMETRY Symmetry
INVARIANTS
    VersionIdentifiesRow
    CompletionEvidence
    TimelineTellsStatus
CHECK_DEADLOCK FALSE
