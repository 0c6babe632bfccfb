CONSTANTS
    NumTraces = 2
    RequestedThreads = 2
    ReportTick = 0
    CloneLocks = "source"
    TraceKinds = {}
    MaxBad = 0
    SpuriousWakeups = FALSE
    Nobody = Nobody
    Reporter = Reporter
SPECIFICATION FairSpec
PROPERTIES RunReturns
CHECK_DEADLOCK FALSE
