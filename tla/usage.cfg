SPECIFICATION FairSpec
CONSTANTS
    MaxSessions = 2
    Batch = 1
    MaxQueued = 1
    MaxClock = 5
    MaxTroubles = 1
INVARIANT NothingSlipsPast
PROPERTY EveryFactIsStored
CHECK_DEADLOCK FALSE
