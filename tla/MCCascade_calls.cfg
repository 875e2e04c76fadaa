\* Three processes that can be killed, or fail to write, at any point; two attempts
\* a call, a breaker that needs more failures than a call makes, two requests to
\* the cap.
CONSTANTS
    Cap = 3
    Costs = {1, 2}
    MaxRetries = 2
    Threshold = 3
    MaxRuns = 3
    MaxUnlogged = 1
    Faults = {"kill", "write"}
    Niches <- MCNiches
    Benchmarks <- MCBenchmarks
    Level2Count = 2
SPECIFICATION CascadeFairSpec
CHECK_DEADLOCK FALSE
INVARIANTS
    CascadeTypeOK
    SpendingCapped
    BreakerCoherent
    NoHammering
PROPERTIES
    CascadeEnds
