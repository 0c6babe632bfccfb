CONSTANTS
    NumTraces = 3
    RequestedThreads = 2
    ReportTick = 2
    CloneLocks = "source"
    TraceKinds = {"short", "badtext", "unreadable"}
    MaxBad = 1
    SpuriousWakeups = TRUE
    Nobody = Nobody
    Reporter = Reporter
SPECIFICATION AnySpec
INVARIANTS DpaMergesExact DpaIntervalsExact
PROPERTIES AllWorkersFinish AllShutdownsComplete
CHECK_DEADLOCK FALSE
