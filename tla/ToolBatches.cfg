SPECIFICATION FairSpec
CONSTANTS
    c1 = c1
    c2 = c2
    Id = {c1, c2}
    MaxBatch = 2
    Call <- ReusedId
    MaxTurn = 2
    None = None
INVARIANTS
    TablesExact
    RejectionStopsBatch
    OwnDecision
    WholeBatchFirst
    StartedIsTold
PROPERTY
    EveryCallAnswered
CHECK_DEADLOCK FALSE
