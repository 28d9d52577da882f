SPECIFICATION FairSpec
CONSTANTS
    q1 = q1
    q2 = q2
    q3 = q3
    direct = direct
    s1 = s1
    s2 = s2
    Callers <- MCCallers
    Queued <- MCQueued
    Sources <- MCSources
    SourceOf <- MCSourceOf
INVARIANTS
    TypeOK
    SourceBeforeTurn
    PipelineInv
PROPERTIES
    NoLostUpdate
    StartOrder
    ImplementsSerial
    EveryCallEnds
CHECK_DEADLOCK FALSE
