CONSTANTS
    Jobs <- MCJobs
    ReadOptions <- MCReadOptions
    Garbage = {0, 9}
SPECIFICATION Spec
INVARIANTS TypeOK EventsAgree  ArchiveReadsBack UnfinishedIsEmpty
CHECK_DEADLOCK FALSE
