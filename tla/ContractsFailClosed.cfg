\* a request filed FAIL_CLOSED is refused, decided otherwise, and approved
SPECIFICATION Spec
CONSTANTS
    Thread = {"t1"}
    Named <- MCNamed
    Asked = {}
    Verdicts = {"APPROVED", "DENIED", "DEFERRED"}
    MaxEvents = 4
    Edited = {}
    RunCosts = 5
INVARIANTS
    FailClosedIsNotExecuted
CHECK_DEADLOCK FALSE
