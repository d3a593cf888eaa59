CONSTANTS
    Process = {p1, p2, p3}
    Runtime = {r1, r2}
    None = None
    Commands = {"use", "connect", "start", "stop", "recover"}
    MaxDeaths = 2
SPECIFICATION Spec
SYMMETRY UsageSymmetry
CHECK_DEADLOCK FALSE
INVARIANTS
    UsageConsistent
    LastOutStops
PROPERTIES
    SparesUsers
    LeaseKept
