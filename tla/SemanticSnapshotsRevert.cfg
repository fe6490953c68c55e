\* One rebuild at a time; the sources may return to an earlier state.
CONSTANTS
    Fingerprints = {f1, f2}
    FirstSource = f1
    Poor = {}
    Builders = {b1}
    Reverts = TRUE
    MaxChanges = 2
    MaxFailures = 0
SPECIFICATION FairSpec
PROPERTIES SnapshotFollowsSource
