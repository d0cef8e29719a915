CONSTANTS
    Files = {f}
    MaxVersion = 1
    MaxScans = 2
    Concurrency = 2
    Requests = {"begin", "cancel", "pause"}
    Histories <- OneStamp
SPECIFICATION FairSpec
PROPERTY ScansEnd
CHECK_DEADLOCK FALSE
