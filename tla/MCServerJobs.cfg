SPECIFICATION Spec
CONSTANTS
    j1 = j1
    j2 = j2
    s1 = s1
    s2 = s2
    Jobs <- MCTwoJobs
    Sources = {s1, s2}
    PathsOf <- MCTwoPaths
    MaxRetries = 1
    Window = 2
    MaxCalls = 4
    Calls = {"enqueue", "retry", "cancel", "crash"}
    Faults = {"failed", "upsert", "panic"}
INVARIANTS TypeOK OutcomeMatchesItems IngestedComplete
PROPERTIES DoneNotRedone CancelBoundsWork
CHECK_DEADLOCK FALSE
