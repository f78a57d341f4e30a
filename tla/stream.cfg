SPECIFICATION FairSpec
CONSTANTS
    Readers = {phone, tab}
    Resuming = {phone}
    Remote = {phone}
    Keep = 2
    MaxPending = 2
    QuietWeeks = FALSE
    MaxSeq = 3
    MaxDrops = 1
INVARIANTS InOrder NoSilentGap ResumesFromWhatItSaw
PROPERTIES EveryEventIsTold
