SPECIFICATION Spec
CONSTANTS
    Requests = {r1, r2, r3}
    Commands <- AllKinds
    FirstQuota = 1
    MaxFaults = 1
CHECK_DEADLOCK FALSE
INVARIANTS OnlyConfirmedLand AnswersAreTrue
PROPERTIES NotAskedTwice PendingIsKept
