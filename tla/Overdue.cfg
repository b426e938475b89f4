CONSTANTS
    NULL = NULL
    v1 = v1
    p1 = p1
    FulfillmentId = {v1, p1}
    TypeOf <- Mixed
    Manual = {m1}
    MaxEvents = 2
    MaxTime = 2
    DayLength = 2
    WeekLength = 1
    LastDay = 0
    ServerOffset = 0
    Window = 1
    Need = 1
    PhysicalSLA = 1
    Forms <- TwoForms
    DefaultHours <- Default
SPECIFICATION OverdueSpec
INVARIANTS
    OverdueTypeOK
    RunningRowsRun
    DuplicatesOnlyByOverlap
PROPERTIES
    NeverEarly
    OverdueIsReported
    StopEnds
CHECK_DEADLOCK FALSE
