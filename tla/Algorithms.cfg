\* The machines stop when their input is used up.
SPECIFICATION AnySpec
CONSTANTS
    MaxFiles = 5
    MaxTraces = 3
    MaxReports = 2
INVARIANTS
    TypeOK
    StableFromEnd
    RatesFollowRanks
    CiphersAgree
    TargetsAreTransitions
    UnitsCompress
    MergedIsTextbook
    LastRoundFindsKey
CHECK_DEADLOCK FALSE
