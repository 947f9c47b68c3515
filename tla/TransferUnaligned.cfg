\* O_DIRECT, no fault: does every valid range succeed?
CONSTANTS
    Align = 2
    Configs <- DirectConfig
    MaxSize = 9
    Requests <- AllRequests
    Faults = {}
    Empty = Empty
    Stale = Stale
SPECIFICATION Spec
INVARIANT HealthyGetSucceeds
CHECK_DEADLOCK FALSE
