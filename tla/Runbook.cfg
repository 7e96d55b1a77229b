SPECIFICATION FairSpec
CONSTANTS
    Library <- initialRunbooks
    initialExecutions <- initialExecutionsOfFixtures
    Execs = {e1, e2}
    None = None
INVARIANTS
    TypeOK
    OneLoopPerExecution
    FirstGateHolds
PROPERTIES
    RestoredIsFinal
    ExecutionEnds
