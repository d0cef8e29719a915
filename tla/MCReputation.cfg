CONSTANTS
    a = a
    b = b
    c = c
    week = week
    day = day
    Nodes = {a, b, c}
    Routes <- RelayRoutes
    s1 = s1
    s2 = s2
    Streams = {s1, s2}
    Blob = 2
    Sizes = {1, 2}
    Extra = 1
    Partial = {a}
    Allowance = 0
    Exempt = {}
    Rate <- MixedRates
    Never = Never
    MaxBooked = 1
    FullDisk = {b}
SPECIFICATION Spec
INVARIANTS TypeOK DebtIsBounded CreditIsBilled
PROPERTY DenialsFade
SYMMETRY StreamSymmetry
CHECK_DEADLOCK FALSE
