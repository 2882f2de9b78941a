SPECIFICATION Spec
CONSTANTS
    Tasks = {t1}
    Runtimes = {"python"}
    MaxFaults = 1
CHECK_DEADLOCK FALSE
INVARIANT AnswerBeforeCommit
