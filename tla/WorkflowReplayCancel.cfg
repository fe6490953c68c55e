\* The same system when the user may also cancel.
CONSTANTS
    InitialRetries = 3
    Definition <- ReportPlan
    Clients = {c1}
    Workers = {w1}
    ClientOps = {"start", "cancel"}
    MaxRequests = 2
    Faults = FALSE
    Crashes = FALSE
    AutoReparse = FALSE
    FailStepOnSignalError = FALSE
SPECIFICATION ReplaySpec
INVARIANTS
    LogReplays
CHECK_DEADLOCK FALSE
