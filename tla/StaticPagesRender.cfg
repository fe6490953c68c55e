\* A render, one task at a time; nothing fails and nobody asks for anything else.
CONSTANTS
    InitialRetries = 1
    Definition <- StaticPage
    Kinds = {"render"}
    Providers = {}
    Prewarm = FALSE
    Slots = {s1}
    Sweepers = {w1}
    Clients = {}
    Overruns = FALSE
    MaxRequests = 0
    MaxFaults = 0
SPECIFICATION Spec
INVARIANTS
    RenderIsDurable
CHECK_DEADLOCK FALSE
