\* One worker that may die, builds and database calls that may fail.
CONSTANTS
    Workers = {w1}
    Publishers = {q1}
    MaxLeft = 2
    MaxRight = 1
    MaxAttempts = 2
    Faults = TRUE
    Crashes = TRUE
    Overruns = FALSE
    GateCloses = FALSE
    Backfills = FALSE
SPECIFICATION FairSpec
INVARIANTS
    OneReadyLink
    SucceededHasReadyLink
PROPERTIES
    ReadyMovesForward
    CurrentPairSettles
    RunningRunSettles
