SPECIFICATION Spec
CONSTANTS
    Manifests <- TtlManifest
    Images = {"a", "b"}
    Datasets <- TwoDatasets
    NoDataset = NoDataset
    NoJob = NoJob
    Completions = 1
    BackoffLimit = 0
    MaxEdits = 0
    MaxFaults = 1
CHECK_DEADLOCK FALSE
INVARIANT FinishedIsNotRepeated
