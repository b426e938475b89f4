CONSTANTS
    NULL = NULL
    DayLength = 4
    WeekLength = 3
    LastDay = 4
    ServerOffset = 1
    Window = 2
    Need = 3
    PhysicalSLA = 8
    Forms <- SomeForms
SPECIFICATION CalendarSpec
INVARIANTS
    DeadlineIsExact
CHECK_DEADLOCK FALSE
