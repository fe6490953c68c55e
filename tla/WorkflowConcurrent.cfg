\* A user and an ingest worker that retries a poor parse itself, with crashes
\* and failing database calls.
CONSTANTS
    InitialRetries = 1
    Definition <- UploadIngest
    Clients = {c1}
    Workers = {w1}
    ClientOps = {"start", "retry", "cancel", "signal"}
    MaxRequests = 2
    Faults = TRUE
    Crashes = TRUE
    AutoReparse = TRUE
    FailStepOnSignalError = TRUE
SYMMETRY Interchangeable
SPECIFICATION Spec
INVARIANTS
    LogGapFree
    RowMatchesNewestEvent
    TasksMatchEvents
    SucceededTaskIsLogged
    AttemptBudget
PROPERTIES
    LogIsAppendOnly
CHECK_DEADLOCK FALSE
