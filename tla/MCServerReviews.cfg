SPECIFICATION Spec
CONSTANTS
    j1 = j1
    j2 = j2
    s1 = s1
    s2 = s2
    Jobs <- MCOneJob
    Sources = {s1, s2}
    PathsOf <- MCOnePath
    MaxRetries = 1
    Window = 2
    MaxCalls = 2
    Calls = {"enqueue", "crash"}
    Faults = {}
INVARIANTS ReviewsKept
CHECK_DEADLOCK FALSE
