\* A video extraction that is retried after a failure.
CONSTANTS
    InitialRetries = 3
    Definition <- VideoExtraction
    Clients = {c1}
    Workers = {w1}
    ClientOps = {"start", "retry"}
    MaxRequests = 2
    Faults = FALSE
    Crashes = FALSE
    AutoReparse = FALSE
    FailStepOnSignalError = TRUE
SPECIFICATION Spec
INVARIANTS ContextReachesWorkers
CHECK_DEADLOCK FALSE
