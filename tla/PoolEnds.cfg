CONSTANTS
    Inst = 2
    Dop = 1
    Qsub = FALSE
    Bzip2 = TRUE
    MayFail = FALSE
    MayBeLost = FALSE
SPECIFICATION FairSpec
PROPERTIES ScriptEnds
CHECK_DEADLOCK FALSE
