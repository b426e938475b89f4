CONSTANTS
    NULL = NULL
    x = x
    y = y
    Export = {e1}
    Remover = {d1}
    Retention = 0
    MaxTime = 1
    MaxEvents = 4
    Writer = {w1}
    Restorer = {r1, r2}
    Asset = {x, y}
    Trees <- TwoTrees
    Start <- TreeOrNone
SPECIFICATION BackupSpec
INVARIANTS
    BackupTypeOK
    ExportsAccounted
    AssetsSurvive
PROPERTIES
    RestoreTellsTheTruth
    ExpiredIsRemoved
CHECK_DEADLOCK FALSE
