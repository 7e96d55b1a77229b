SPECIFICATION Spec
CONSTANTS
    MaxCommands = 3
    MaxChanges = 1
INVARIANTS
    TypeOK
    GreenReleaseAgrees
    VerdictMeansComplete
    FormalIsSigned
    ReadinessOfThisRun
PROPERTIES
    VerifyRepeats
CHECK_DEADLOCK FALSE
