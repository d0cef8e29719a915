CONSTANTS
    Nodes = {a, b, c}
    Tokens = {t1}
    NoOne = NoOne
    Symmetric = Symmetric
    FullDisk = {a, b, c}
    MaxGrants = 3
SPECIFICATION Spec
INVARIANTS TypeOK TokenEnrollsOneNode AckedRevokeIsFinal EnrollmentIsMutual
PROPERTY KeepsPromise
SYMMETRY Symmetry
CHECK_DEADLOCK FALSE
