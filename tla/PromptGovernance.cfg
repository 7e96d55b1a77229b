\* safety: racing selects, reviews of two processes, expiry, crashes, time
SPECIFICATION Spec
CONSTANTS
    p1 = p1
    p2 = p2
    p3 = p3
    p4 = p4
    agent1 = agent1
    op = op
    ci = ci
    old = old
    a1 = a1
    a2 = a2
    t1 = t1
    t2 = t2
    s1 = s1
    s2 = s2
    Prompt = {p1, p2, p3, p4}
    Risk <- MCRisk
    Spelling = {"canonical"}
    Agent = {agent1}
    Person = {op, ci}
    SourceOf <- MCSourceOf
    ApprovalId = {old, a1}
    Legacy = {old}
    NoApproval = NoApproval
    Nobody = Nobody
    Null = Null
    System = System
    Process = {s1, s2}
    Thread = {t1, t2}
    ProcessOf <- MCProcessOf
    TTL = 1
    MaxTime = 2
    MaxCalls = 3
INVARIANTS
    TypeOK
    DecisionsAgree
    UsesFollowApproval
    UsesWithinTTL
    ApprovedIsFound
PROPERTIES
    DecisionsFinal
SYMMETRY Symmetry
CHECK_DEADLOCK FALSE
