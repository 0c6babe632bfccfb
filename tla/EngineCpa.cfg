CONSTANTS
    NumTraces = 5
    RequestedThreads = 2
    ReportTick = 2
    CloneLocks = "source"
    TraceKinds = {"short", "badtext", "unreadable"}
    MaxBad = 1
    SpuriousWakeups = TRUE
    Nobody = Nobody
    Reporter = Reporter
SPECIFICATION Spec
INVARIANTS TypeOK CountedOnce RecordInBounds IntervalsExact RecordsUntorn FinalMerged
CHECK_DEADLOCK FALSE
