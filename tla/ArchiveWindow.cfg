CONSTANTS
    Jobs <- PackedJobs
    ReadOptions <- MCReadOptions
    Garbage = {0, 9}
SPECIFICATION Spec
INVARIANT WindowKept
CHECK_DEADLOCK FALSE
