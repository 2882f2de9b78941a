SPECIFICATION FairSpec
CONSTANTS
    Manifests <- AllManifests
    Images = {"a", "b"}
    Datasets <- TwoDatasets
    NoDataset = NoDataset
    NoJob = NoJob
    Completions = 1
    BackoffLimit = 0
    MaxEdits = 2
    MaxFaults = 1
CHECK_DEADLOCK FALSE
INVARIANTS CancelIsFinal JobFollowsSpec DatasetAsExpected KeptIsNotRepeated
PROPERTIES ImplementsReconciliation PauseStops CancelLeadsToGone FinishedIsReported
