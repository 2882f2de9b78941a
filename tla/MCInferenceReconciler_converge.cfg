SPECIFICATION FairSpec
CONSTANTS
    Manifests <- AllManifests
    MaxReplicas = 2
    MaxEdits = 2
    MaxFaults = 1
    MaxScalings = 1
CHECK_DEADLOCK FALSE
INVARIANTS ObservedIsApplied InvalidIsTrue
PROPERTIES SleepIsStable ImplementsReconciliation SpecIsObserved PhaseFollowsIntent WokenComesUp
