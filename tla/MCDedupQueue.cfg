SPECIFICATION FairSpec
CONSTANTS
    Projects = {p1, p2}
    NoProject = none
    TaskIds <- MCTwo
    ProcIds <- MCTwo
    Tracked = {}
    MaxRetries = 2
    MaxCalls = 5
    Calls = {"enqueue", "retry", "resume", "cancel", "switch", "crash"}
    Faults = {"registry", "error", "nollm", "read"}
    Ordered = TRUE
    Overlap = {"calls"}
INVARIANTS TypeOK
PROPERTIES EveryMergeSettles NoSurpriseMerge DiskKeepsMerges
CHECK_DEADLOCK FALSE
