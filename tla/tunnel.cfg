\* A request that may carry a body and a socket, over a channel that may close.
SPECIFICATION FairSpec
CONSTANTS
    Requests = {q}
    Sockets = {s}
    Uploads = {0, 1}
    Body = 5
    Window = 2
    Step = 1
    Chunk = 2
    Cap = 0
    MaxTold = 1
INVARIANTS
    WindowHolds
    WholeOrFailed
    BothSidesAgree
PROPERTIES
    EveryFetchSettles
CHECK_DEADLOCK FALSE
