\* Ticks, retries, late answers, a sleeping host and a restart.
SPECIFICATION FairSpec
CONSTANTS
    w = w
    Routines <- MCRoutines
    FromFile <- MCFromFile
    Skips <- MCSkips
    Every <- MCEvery
    Retries <- MCRetries
    MaxRuns <- MCMaxRuns
    Backoff = 1
    Lease = 3
    Renewal = 1
    Slack = 1
    Grace = 1
    NoticeAt = 2
    Pausing = TRUE
    UnattendedGate = TRUE
    MaxNow = 4
    MaxEvents = 2
INVARIANTS
    OneAtATime
    NoticeOncePerStreak
    BeatsAreApart
PROPERTIES
    DueFires
CHECK_DEADLOCK FALSE
