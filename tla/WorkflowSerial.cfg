\* A video extraction: one user who starts and retries until the retries are
\* spent, two workers, no failure of the platform.
CONSTANTS
    InitialRetries = 1
    Definition <- VideoExtraction
    Clients = {c1}
    Workers = {w1, w2}
    ClientOps = {"start", "retry"}
    MaxRequests = 3
    Faults = FALSE
    Crashes = FALSE
    AutoReparse = FALSE
    FailStepOnSignalError = FALSE
SPECIFICATION ReplayFairSpec
INVARIANTS
    OneBaton
    LogReplays
    TypeOK
PROPERTIES
    AppliesAtomically
    RunningSettles
    ClaimedTaskSettles
CHECK_DEADLOCK FALSE
