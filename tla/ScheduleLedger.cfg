CONSTANTS
    Schedule = {s1}
    Invocation = {i1, i2}
    Worker = {w1}
    Executor = {e1}
    Slot = {t1, t2}
    Request = {q1, q2}
    RetryBudget = 2
    ProbesPerClaim = 1
    MaxLimit = 1
    MaxRoundsCap = 3
    None = None
SPECIFICATION Spec
SYMMETRY LedgerSymmetry
CHECK_DEADLOCK FALSE
INVARIANTS
    SnapshotFresh
    SingleActiveRun
    RowsConsistent
    ScheduleAccounts
PROPERTIES
    ScheduledStartsActive
    ClaimFenced
    ImplementsFencedRuns
