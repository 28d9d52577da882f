SPECIFICATION Spec
CONSTANTS
    Projects = {p1, p2}
    NoProject = none
    Sources = {a, b}
    Batches <- MCEach
    TaskIds <- MCTwo
    RunIds <- MCTwo
    SchedIds <- MCOne
    Limits = {1}
    MaxRetries = 2
    MaxCalls = 5
    MaxWrites = 2
    Calls = {"switch", "enqueue", "inactive", "cancel", "pause", "crash"}
    Faults = {"write", "read"}
    Overlap = {"suspended"}
INVARIANTS UndisturbedCommits
PROPERTIES UndisturbedFiles NoSurpriseRun ClosedRestartable
CHECK_DEADLOCK FALSE
