\* Two nodes rating one key: clocks set back, restarts, failing disks, lost and
\* repeated payloads.
CONSTANTS
    n1 = n1
    n2 = n2
    k1 = k1
    Nodes = {n1, n2}
    Keys = {k1}
    Rates <- MCRatesAll
    HandlerWired = TRUE
    MaxClock = 2
    MaxUpdates = 3
    MaxFaultyUpdates = 2
    Faults = {"clock", "restart", "loss", "dup", "get", "put"}
SPECIFICATION MCSpec
CHECK_DEADLOCK FALSE
INVARIANTS
    TypeOK
    ReplicaIsLatest
    SameUpdatesSameState
    ReplicaCoversStorage
PROPERTIES
    EveryRatingCounts
