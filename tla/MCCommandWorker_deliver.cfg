SPECIFICATION FairSpec
CONSTANTS
    Workers = {w1, w2}
    NoWorker = NoWorker
    Commands <- MixedCommands
    MaxAttempts = 2
    MaxMessages = 2
    MaxFaults = 1
CHECK_DEADLOCK FALSE
INVARIANTS QueuedIsDurable OnlyConfirmedLands IntentFollowsLog
    CommittedHasOutcome EventMeansLanded
PROPERTIES HeadOfLineProgress ImplementsDelivery
