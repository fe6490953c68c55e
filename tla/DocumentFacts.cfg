\* A document of a dataset, one retrieval and two enrichment workers, a fault.
CONSTANTS
    Docs = {d1}
    Indexers = {r1}
    Enrichers = {e1, e2}
    MaxReparses = 1
    MaxAttempts = 2
    MaxParses = 2
    MaxFaults = 1
SPECIFICATION FairSpec
INVARIANTS
    
    RunsAreExclusive
    SnapshotFollowsFacts
PROPERTIES
    FactsMoveForward
    WriteBackUndoesNothing
    FactsFollowChunks
    RunSettles
CHECK_DEADLOCK FALSE
