CONSTANTS
    Peers = {p, q}
    Reliable = {q}
    Gets = {g1, g2}
    Headers <- SomeHeaders
    Missing <- NoNumber
    Size = 4
    Chunk = 2
    Window = 2
    MaxEmit = 3
    Queue = 1
SPECIFICATION FairSpec
INVARIANTS TypeOK PromiseIsWhatWasAsked SuccessHasFirstWindow ShortOnlyIfSourcesFailed SureIsServed
PROPERTIES GetsEnd
CHECK_DEADLOCK FALSE
