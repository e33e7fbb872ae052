CONSTANTS
    Run = run
    Operators = {reviewer}
    Tasks = {auto}
    Nobody = nobody
    MaxGeneration = 4
    Threads = {t1, t2}
    NoThread = nothread
    Reviewer = reviewer
    Automation = auto
    MaxRequests = 4
    MaxSteps = 1
CHECK_DEADLOCK FALSE
SPECIFICATION FairHandoffSpec
INVARIANTS
    TeardownIsFinal
    SuccessWasHandedBack
    OnlyHumansAreRecorded
PROPERTIES
    ServiceAnswers
