\* a run of the contract chain beside the server, builders and editors
SPECIFICATION Spec
CONSTANTS
    Thread = {"t1"}
    Named <- MCNamed
    Asked = {"PR16", "PR17"}
    Verdicts = {"APPROVED", "DENIED", "DEFERRED"}
    MaxEvents = 3
    Edited <- MCEdited
    RunCosts = 2
INVARIANTS
    TypeOK
    GreenMeansIntact
    SealedWasApproved
    SealedBeforeAdvanced
CHECK_DEADLOCK FALSE
