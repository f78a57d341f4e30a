SPECIFICATION Spec
CONSTANTS
    Names <- TaskNames
    Plans <- Parallel
    Drivers = {d1, d2}
    Concurrency = 2
    NearPolicy = {}
    UnattendedGate = TRUE
    Budgeted = FALSE
    MissingFolder = FALSE
    Calls = {"approve"}
    Callers = {}
    MaxTasks = 8
    MaxSteps = 2
    MaxCrashes = 0
INVARIANTS OneDriver
