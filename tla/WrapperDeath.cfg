CONSTANTS
    num_iterations = 3
    num_dbkey = 1
    Inputs <- MCInputs
    NumPoints = 2
    Modes = {"fifo"}
    Capacity = 3
    Preambles <- MCPreambles
    MayDie = TRUE
    Nothing = Nothing
SPECIFICATION FairSpec

PROPERTIES DeathEndsFifo
CHECK_DEADLOCK FALSE
