SPECIFICATION Spec
CONSTANTS
    Intents = {"rollback_deploy", "restart_agent", "unknown"}
    Watched = {"session_integrity"}
    Requests = {r1}
    initialRequests <- generateMockApprovals
    operators <- generateMockOperators
    triggerMinutes = 1
    expiryMinutes = 2
    MaxNow = 2
    None = None
INVARIANTS
    TypeOK
    StatusExplained
    DispatchedAsPermitted
PROPERTIES
    ClosedUnlessOpen
