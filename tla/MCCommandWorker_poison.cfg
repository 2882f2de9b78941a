SPECIFICATION FairSpec
CONSTANTS
    Workers = {w1}
    NoWorker = NoWorker
    Commands <- PoisonCommands
    MaxAttempts = 1
    MaxMessages = 2
    MaxFaults = 0
CHECK_DEADLOCK FALSE
PROPERTY EveryCommandIsSettled
