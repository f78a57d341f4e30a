SPECIFICATION FairSpec
CONSTANTS
    MaxRestarts = 2
    MaxProcs = 6
    MaxSups = 2
    MaxCrashes = 2
    ClicksWhileStopping = FALSE
INVARIANTS
    EveryChildIsRecorded
    RestartsAreCounted
PROPERTY AnswersOrGivesUp
CHECK_DEADLOCK FALSE
