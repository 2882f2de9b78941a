SPECIFICATION Spec
CONSTANTS
    Workers = {w1}
    NoWorker = NoWorker
    Commands <- OneCommand
    MaxAttempts = 2
    MaxMessages = 1
    MaxFaults = 0
CHECK_DEADLOCK FALSE
INVARIANT AppliedIsReported
