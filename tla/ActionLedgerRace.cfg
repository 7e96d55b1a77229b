\* one process, two racing adds: the refused INSERT
SPECIFICATION Spec
CONSTANTS
    p1 = p1
    p2 = p2
    t1 = t1
    t2 = t2
    t3 = t3
    e1 = e1
    e2 = e2
    Process = {p1}
    Thread = {t1, t2}
    Event = {e1, e2}
    Genesis = Genesis
    Nobody = Nobody
    ProcessOf <- MCOneProcess
    IdOf <- MCIdOf
    EventId <- MCEventId
    Asked = {}
    MaxCalls = 2
INVARIANTS SwallowedIsDuplicate
CHECK_DEADLOCK FALSE
