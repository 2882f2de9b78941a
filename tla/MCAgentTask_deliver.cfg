SPECIFICATION FairSpec
CONSTANTS
    Tasks = {t1, t2}
    Runtimes = {"python", "go"}
    MaxFaults = 2
CHECK_DEADLOCK FALSE
INVARIANTS GoAnswersFirst CommittedIsRecorded LastResultWins
PROPERTIES PublishedIsAnswered AnsweredIsRecorded
