SPECIFICATION Spec
SYMMETRY Symmetry
CONSTANTS
    k1 = k1
    r1 = r1
    r2 = r2
    a1 = a1
    a2 = a2
    m1 = m1
    s1 = s1
    Request = {k1}
    Responder = {r1, r2}
    Attachment = {a1, a2}
    Method = {m1}
    Scope = {s1}
    Timed = {k1}
    None = None
    MaxUses = 2
    MaxDeliveries = 2
    MaxEpoch = 2
INVARIANTS
    MapsAgree
PROPERTIES
    AnswerAccepted
CHECK_DEADLOCK FALSE
