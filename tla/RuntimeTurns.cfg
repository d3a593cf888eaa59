SPECIFICATION FairSpec
CONSTANTS
    t1 = t1
    t2 = t2
    c1 = c1
    c2 = c2
    c3 = c3
    Turn = {t1, t2}
    Call = {c1, c2, c3}
    TurnOf <- RepeatedCall
    Approval = {a1}
    MaxSession = 2
    CacheSize = 2
    MaxFaults = 1
    None = None
INVARIANTS
    TurnBrackets
    DecisionAgreed
    ReleasedQuiet
PROPERTIES
    TurnOnce
    CancelEnds
    TeardownEnds
CHECK_DEADLOCK FALSE
