\* Two imports at a time and three workers, one of them without the feature flag.
CONSTANTS
    Importers = {i1, i2}
    Workers = {w1, w2, w3}
    Disabled = {w3}
    MaxAttempts = 2
    SlowStatements = FALSE
    MaxImports = 3
    MaxFaults = 2
SPECIFICATION FairSpec
INVARIANTS
    AssetParseTypeOK
    OneTaskAtATime
    SuccessIsBacked
    ExecutionFollowsTask
PROPERTIES
    OutcomeIsFinal
    TaskSettles
CHECK_DEADLOCK FALSE
