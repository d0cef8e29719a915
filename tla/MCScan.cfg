CONSTANTS
    Files = {f, g}
    MaxVersion = 2
    MaxScans = 2
    Concurrency = 2
    Requests = {"begin", "edit"}
    Histories <- SomeStamps
SPECIFICATION Spec
INVARIANTS TypeOK ReuseIsSound SettledIndexIsExact
SYMMETRY Symmetry
CHECK_DEADLOCK FALSE
