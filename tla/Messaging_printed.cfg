CONSTANTS
    NULL = NULL
    DispatchId = {d1}
    HandoffChannel = {sms}
    Operator = {o1, o2}
    Ticker = {ticker}
    Manual = {manual}
    MaxAttempts = 2
    Window = 3
    MaxReports = 3
    ReportUntil = 1
    MaxTime = 5
    MaxAborts = 1
SPECIFICATION Spec
PROPERTIES
    PrintedIsFinal
CHECK_DEADLOCK FALSE
