SPECIFICATION Spec
CONSTANTS
    Projects = {p1}
    NoProject = none
    Sources = {a, b}
    Batches <- MCBatches
    TaskIds <- MCTwo
    RunIds <- MCThree
    SchedIds <- MCOne
    Limits = {1, 2}
    MaxRetries = 2
    MaxCalls = 5
    MaxWrites = 2
    Calls = {"switch", "enqueue", "cancel", "retry", "discard", "clear", "cancelAll", "move"}
    Faults = {"error", "unusable"}
    Overlap = {}
INVARIANTS TypeOK WorkerPool ProcessingHasRun
PROPERTIES OldOutputDiscarded
CHECK_DEADLOCK FALSE
