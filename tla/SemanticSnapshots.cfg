\* Two rebuilds at a time that may stop halfway, sources that may revert.
CONSTANTS
    Fingerprints = {f1, f2, f3}
    FirstSource = f1
    Poor = {f3}
    Builders = {b1, b2}
    Reverts = TRUE
    MaxChanges = 3
    MaxFailures = 2
SPECIFICATION FairSpec
INVARIANTS BuildsAreExclusive
PROPERTIES LatestMovesForward SourcesAreBuilt
