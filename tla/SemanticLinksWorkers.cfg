CONSTANTS
    Workers = {w1, w2}
    Publishers = {q1}
    MaxLeft = 2
    MaxRight = 1
    MaxAttempts = 2
    Faults = TRUE
    Crashes = TRUE
    Overruns = TRUE
    GateCloses = TRUE
    Backfills = TRUE
SPECIFICATION Spec
INVARIANTS
    LinksTypeOK
PROPERTIES
    ReadyLinkSurvives
