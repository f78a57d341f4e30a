SPECIFICATION Spec
CONSTANTS
    Names <- TaskNames
    Plans <- Sequential
    Drivers = {d1, d2}
    Concurrency = 3
    NearPolicy = {}
    UnattendedGate = TRUE
    Budgeted = FALSE
    MissingFolder = FALSE
    Calls = {"approve", "stop", "cancel"}
    Callers = {}
    MaxTasks = 8
    MaxSteps = 2
    MaxCrashes = 1
INVARIANTS FailedTaskStopsRun CheckedWorkIsVerified
PROPERTIES GateHolds KeepsItsPromise
