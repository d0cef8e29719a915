CONSTANTS
    p = p
    q = q
    Ids = {1, 2}
    Size = 2
    Ranged = {2}
    Peers = {p, q}
    Reliable = {q}
    Listings <- SomeListings
    Queue = 2
    BadOut = {}
SPECIFICATION FairSpec
INVARIANTS TypeOK DoneWasFetched DoneShowsTotal WorkingSourceIsUsed
PROPERTIES TerminalIsFinal TransfersEnd ClientIsAnswered
CHECK_DEADLOCK FALSE
