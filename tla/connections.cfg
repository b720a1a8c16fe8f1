SPECIFICATION FairSpec
CONSTANTS
    c1 = c1
    Conns = {c1}
    MaxListeners = 2
    MaxErrors = 1
    MaxChunks = 2
    Room = 1
    ForkFails = FALSE
INVARIANT OnlyOwnNamespace
PROPERTY ConnectionsEnd
PROPERTY DirectionsFlow
CHECK_DEADLOCK FALSE
