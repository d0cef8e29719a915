CONSTANTS
    Clients = {c1, c2}
    Loop = Loop
    s1 = s1
    s2 = s2
    Names <- MCNames
    MaxCommands = 2
    MaxByHand = 1
    MaxHups = 1
    MaxEnds = 1
    Unreadable = {c1}
    Initial <- MCInitial
SPECIFICATION Spec
INVARIANTS TypeOK FileIsWhole AckedEditIsKept
PROPERTY StopIsHeeded
CHECK_DEADLOCK FALSE
