SPECIFICATION FairSpec
CONSTANTS
    Projects = {p1}
    NoProject = none
    Sources = {a}
    Batches <- MCEach
    TaskIds <- MCTwo
    RunIds <- MCTwo
    SchedIds <- MCOne
    Limits = {1, 2}
    MaxRetries = 2
    MaxCalls = 5
    MaxWrites = 2
    Calls = {"switch", "enqueue", "cancel", "resume", "limit"}
    Faults = {"error", "limit", "unusable"}
    Overlap = {}
INVARIANTS NoLostWakeup
PROPERTIES EveryTaskSettles LimitPauseEnds SweepFollows
CHECK_DEADLOCK FALSE
