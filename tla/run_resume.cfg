SPECIFICATION Spec
CONSTANTS
    Names <- TaskNames
    Plans <- Named
    Drivers = {d1, d2}
    Concurrency = 3
    NearPolicy = {}
    UnattendedGate = FALSE
    Budgeted = FALSE
    MissingFolder = FALSE
    Calls = {"approve", "stop", "resume"}
    Callers = {p1}
    MaxTasks = 5
    MaxSteps = 1
    MaxCrashes = 1
INVARIANT OneThenNext
PROPERTIES SettledRowsStay HandedOn KeepsItsPromise
