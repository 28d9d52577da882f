SPECIFICATION FairSpec
CONSTANTS
    j1 = j1
    j2 = j2
    s1 = s1
    s2 = s2
    Jobs <- MCOneJob
    Sources = {s1, s2}
    PathsOf <- MCOnePath
    MaxRetries = 1
    Window = 2
    MaxCalls = 4
    Calls = {"enqueue", "retry", "cancel", "crash"}
    Faults = {"failed", "upsert", "push", "pop", "limit", "panic", "warn", "empty", "query", "update"}
INVARIANTS NoStuckJob RetryBudget
PROPERTIES EveryJobSettles
CHECK_DEADLOCK FALSE
