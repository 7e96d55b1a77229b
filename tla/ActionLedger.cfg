\* two processes, three threads, three calls
SPECIFICATION FairSpec
CONSTANTS
    p1 = p1
    p2 = p2
    t1 = t1
    t2 = t2
    t3 = t3
    e1 = e1
    e2 = e2
    Process = {p1, p2}
    Thread = {t1, t2, t3}
    Event = {e1, e2}
    Genesis = Genesis
    Nobody = Nobody
    ProcessOf <- MCProcessOf
    IdOf <- MCIdOf
    EventId <- MCEventId
    Asked = {1}
    MaxCalls = 3
INVARIANTS
    TypeOK
    ChainIntact
    RefusalJustified
    ExportConsistent
PROPERTIES
    RefinesLog
    CallsReturn
CHECK_DEADLOCK FALSE
