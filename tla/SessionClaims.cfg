CONSTANTS
    Process = {p1, p2, p3}
    Thread = {t1, t2}
    Maintenance = maintenance
    None = None
    Attempts = 2
    MaxClaims = 4
    MaxReferences = 2
SPECIFICATION Spec
SYMMETRY ClaimsSymmetry
CHECK_DEADLOCK FALSE
INVARIANTS
    NeverDispossessed
    GateExclusive
    RowsRemembered
