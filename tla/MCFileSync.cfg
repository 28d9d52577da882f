SPECIFICATION FairSpec
CONSTANTS
    Paths = {a, b}
    Large = {b}
    Size <- MCSize
    AppPaths = {a}
    Root = root
    NoPath = none
    Watchers = {w1}
    Commands = {c1}
    NoWatcher = none
    MaxRetryCount = 2
    ChanSize = 1
    MaxChanges = 2
    MaxFaults = 1
    MaxCalls = 2
    Calls = {"start", "rescan", "retry", "ignore", "stop", "crash"}
    Periodic = TRUE
INVARIANTS TypeOK EveryChangeTold NoOrphan
PROPERTIES EveryChangeSeen
CHECK_DEADLOCK FALSE
