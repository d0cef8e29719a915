CONSTANTS
    Nodes = {a, b}
    Tokens = {t1, t2}
    NoOne = NoOne
    Symmetric = Symmetric
    FullDisk = {}
    MaxGrants = 2
SPECIFICATION Spec
INVARIANT ReshareWasGranted
SYMMETRY Symmetry
CHECK_DEADLOCK FALSE
