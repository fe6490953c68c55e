\* An image job or a render, two tasks at a time, one sweep, one request.
CONSTANTS
    InitialRetries = 1
    Definition <- StaticPage
    Kinds = {"image", "render"}
    Providers = {"none", "direct", "fallback"}
    Prewarm = TRUE
    Slots = {s1, s2}
    Sweepers = {w1}
    Clients = {c1}
    Overruns = FALSE
    MaxRequests = 1
    MaxFaults = 1
SPECIFICATION FairSpec
INVARIANTS
    StaticPagesTypeOK
    PreviewIsDurable
PROPERTIES
    TaskOutcomeIsFinal
    ExecutionSettles
    ImageJobSettles
CHECK_DEADLOCK FALSE
