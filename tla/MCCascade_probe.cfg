\* A half-open circuit whose probe is refused with a 4xx.
CONSTANTS
    Cap = 3
    Costs = {1, 2}
    MaxRetries = 2
    Threshold = 3
    MaxRuns = 3
    MaxUnlogged = 1
    Faults = {}
    Niches <- MCNiches
    Benchmarks <- MCBenchmarks
    Level2Count = 2
SPECIFICATION CascadeSpec
CHECK_DEADLOCK FALSE
INVARIANT OneProbePerTimeout
