CONSTANTS
    NumTraces = 3
    RequestedThreads = 2
    ReportTick = 2
    CloneLocks = "self"
    TraceKinds = {}
    MaxBad = 0
    SpuriousWakeups = FALSE
    Nobody = Nobody
    Reporter = Reporter
SPECIFICATION Spec
INVARIANTS RecordsUntorn
CHECK_DEADLOCK FALSE
