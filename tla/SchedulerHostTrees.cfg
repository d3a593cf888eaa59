CONSTANTS
    Schedule = {s1}
    Invocation = {i1, i2}
    Worker = {d}
    Executor = {e1, e2}
    Slot = {1}
    Request = {}
    RetryBudget = 2
    ProbesPerClaim = 1
    MaxLimit = 1
    MaxRoundsCap = 0
    None = None
    Daemon = d
    Scenarios <- CalmScenarios
SPECIFICATION HostSpec
SYMMETRY HostSymmetry
CHECK_DEADLOCK FALSE
INVARIANTS
    TreesNeverOverlap
