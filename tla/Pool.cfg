CONSTANTS
    Inst = 3
    Dop = 2
    Qsub = FALSE
    Bzip2 = TRUE
    MayFail = TRUE
    MayBeLost = FALSE
SPECIFICATION AnySpec
INVARIANTS TypeOK DopRespected DoneHasResults GridResultsAtTop
PROPERTIES ResultsSurvive AnyPoolDrains
CHECK_DEADLOCK FALSE
