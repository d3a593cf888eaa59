SPECIFICATION FairSpec
CONSTANTS
    k1 = k1
    k2 = k2
    r1 = r1
    a1 = a1
    a2 = a2
    m1 = m1
    s1 = s1
    Request = {k1, k2}
    Responder = {r1}
    Attachment = {a1, a2}
    Method = {m1}
    Scope = {s1}
    Timed = {k1}
    None = None
    MaxUses = 1
    MaxDeliveries = 2
    MaxEpoch = 1
INVARIANTS
    NeverStranded
    NoOrphanPrompt
PROPERTIES
    DeadlineSettles
CHECK_DEADLOCK FALSE
