\* the daemon, two racing requests, two racing decisions and a failing operation
SPECIFICATION FairSpec
CONSTANTS
    rt8 = rt8
    job = job
    i1 = i1
    daemon = daemon
    r1 = r1
    r2 = r2
    d1 = d1
    d2 = d2
    Window = 2
    ShortWindow = 1
    Job = {rt8, job}
    RT008 = rt8
    PatchedJob = job
    MinJobs = 2
    StartJobs <- MCStart
    StartBlocks = {3}
    Manifests = TRUE
    Workflow = TRUE
    Incident = {i1}
    NoIncident = NoIncident
    Thread = {daemon, r1, r2}
    Daemon = daemon
    Decider = {d1, d2}
    Undecided = Undecided
    Reported <- MCReported
    Kinds = {"harm", "pragma_high", "wal"}
    MaxCalls = 2
    MaxResults = 1
    MaxFailures = 1
INVARIANTS
    TypeOK
    GateRespected
    RemediatedIsHealthy
    StatusAgreesWithState
PROPERTIES
    NewsCounts
    CallsReturn
CHECK_DEADLOCK FALSE
