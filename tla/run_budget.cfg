SPECIFICATION FairSpec
CONSTANTS
    Names <- TaskNames
    Plans <- OneByOne
    Drivers = {d1, d2}
    Concurrency = 3
    NearPolicy = {"gate", "serial"}
    UnattendedGate = TRUE
    Budgeted = TRUE
    MissingFolder = TRUE
    Calls = {"approve", "stop"}
    Callers = {}
    MaxTasks = 8
    MaxSteps = 2
    MaxCrashes = 0
INVARIANTS AwaitingSaysWhy
PROPERTIES BudgetHolds StopEnds ComesToRest
