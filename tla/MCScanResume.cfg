CONSTANTS
    Files = {f, g}
    MaxVersion = 1
    MaxScans = 2
    Concurrency = 2
    Requests = {"pause"}
    Histories <- OneStamp
SPECIFICATION FairSpec
PROPERTY UnpausedScanEnds
CHECK_DEADLOCK FALSE
