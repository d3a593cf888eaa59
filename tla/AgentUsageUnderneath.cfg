CONSTANTS
    Process = {p1, p2, p3}
    Runtime = {r1, r2}
    None = None
    Commands = {"use", "stop"}
    MaxDeaths = 1
SPECIFICATION Spec
SYMMETRY UsageSymmetry
CHECK_DEADLOCK FALSE
PROPERTIES
    NeverUnderneath
