SPECIFICATION Spec
CONSTANTS
    Projects = {p1}
    NoProject = none
    TaskIds <- MCThree
    ProcIds <- MCThree
    Tracked <- MCThree
    MaxRetries = 2
    MaxCalls = 5
    Calls = {"enqueue", "cancel", "switch"}
    Faults = {}
    Ordered = TRUE
    Overlap = {}
PROPERTIES NoRewriteLost
CHECK_DEADLOCK FALSE
