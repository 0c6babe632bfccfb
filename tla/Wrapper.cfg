CONSTANTS
    num_iterations = 3
    num_dbkey = 1
    Inputs <- MCInputs
    NumPoints = 2
    Modes = {"fork", "fifo"}
    Capacity = 3
    Preambles <- MCPreambles
    MayDie = TRUE
    Nothing = Nothing
SPECIFICATION FairSpec
INVARIANTS TypeOK CopyExcludesFetch NeverWouldBlock
PROPERTIES FileSpec CompletesWhenHealthy DeathEndsFork
CHECK_DEADLOCK FALSE
