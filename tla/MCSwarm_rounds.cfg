\* One of two nodes makes three requests and hears its own tasks: two responses
\* asked for, a collection that can be full, tasks of earlier rounds served late,
\* lost tasks and failing inferences.
CONSTANTS
    alice = alice
    bob = bob
    a1 = a1
    a2 = a2
    a3 = a3
    b1 = b1
    Nodes = {alice, bob}
    Tasks = {a1, a2, a3}
    Asker <- MCThreeOfAlice
    Online = {alice, bob}
    MinResponses = 2
    MaxResponses = 2
    Echo = TRUE
    EngineShares = FALSE
    Faults = {"loss", "infer"}
SPECIFICATION FairSpec
CHECK_DEADLOCK FALSE
INVARIANTS
    TypeOK
    DoneMeansEnough
    OnlyThisRound
PROPERTIES
    RequestEnds
