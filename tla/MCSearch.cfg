CONSTANTS
    b = b
    c = c
    d = d
    Nodes = {a, b, c, d}
    User = a
    Networks <- SomeNetworks
    MaxTtl = 3
    Failures = 1
SPECIFICATION FairSpec
INVARIANTS TypeOK NoDuplicateHits HitsResolve HitsArePermitted FindsAllInReach
PROPERTY SearchEnds
CHECK_DEADLOCK FALSE
