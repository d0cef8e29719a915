CONSTANTS
    Owner = Owner
    Invited = {m1}
    Askers = {m2}
    Embedded = TRUE
    External = TRUE
    FullDisk = {Owner, m1}
    MaxEpoch = 3
    MaxSpent = 1
    MaxRestarts = 1
SPECIFICATION Spec
INVARIANTS TypeOK MessagesCanBeRead AckedJoinIsDurable WaitingIsKept
CHECK_DEADLOCK FALSE
