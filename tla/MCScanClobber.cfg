CONSTANTS
    Files = {f, g}
    MaxVersion = 1
    MaxScans = 2
    Concurrency = 2
    Requests = {"begin"}
    Histories <- OneStamp
SPECIFICATION Spec
INVARIANT CompletedScanServesAll
CHECK_DEADLOCK FALSE
