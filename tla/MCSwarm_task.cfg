\* A handler that serves whatever task arrives.
SPECIFICATION Spec
CONSTANTS
    alice = alice
    bob = bob
    a1 = a1
    a2 = a2
    a3 = a3
    b1 = b1
    Nodes = {alice, bob}
    Tasks = {a1, a2, b1}
    Asker <- MCThree
    Online = {alice, bob}
    MinResponses = 1
    MaxResponses = 2
    Echo = FALSE
    EngineShares = TRUE
    Faults = {}
CHECK_DEADLOCK FALSE
INVARIANT SwarmAnswersTheTask
