SPECIFICATION FairSpec
CONSTANTS
    o1 = o1
    o2 = o2
    o3 = o3
    o4 = o4
    o5 = o5
    s1 = s1
    s2 = s2
    Op = {o1, o2, o3, o4, o5}
    Key = {1, 2}
    Signal = {s1, s2}
    Request <- MeetRequest
    SignalOf <- MeetSignal
    None = None
INVARIANTS
    NoLostWakeup
PROPERTIES
    NoOvertaking
    EveryCallEnds
    RefinesPromise
