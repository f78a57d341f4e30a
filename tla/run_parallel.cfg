SPECIFICATION Spec
CONSTANTS
    Names <- TaskNames
    Plans <- Parallel
    Drivers = {d1, d2}
    Concurrency = 2
    NearPolicy = {}
    UnattendedGate = TRUE
    Budgeted = FALSE
    MissingFolder = FALSE
    Calls = {"approve", "stop", "cancel", "retry", "resume"}
    Callers = {p1, p2}
    MaxTasks = 3
    MaxSteps = 1
    MaxCrashes = 1
SYMMETRY Slots
INVARIANTS BodiesMatchRows RunningIsDriven FailureIsJudged
