CONSTANTS
    Schedule = {s1}
    Invocation = {i1, i2, i3}
    Worker = {w1}
    Executor = {}
    Slot = {t1}
    Request = {}
    RetryBudget = 2
    ProbesPerClaim = 1
    MaxLimit = 1
    MaxRoundsCap = 1
    None = None
SPECIFICATION Spec
SYMMETRY LedgerSymmetry
CHECK_DEADLOCK FALSE
INVARIANTS
    SingleOccupancy
