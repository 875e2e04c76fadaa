\* Two runs of the runner and four checks beside them, one death.
CONSTANTS
    humaneval = humaneval
    mmlu = mmlu
    TaskOrder <- MCTasks
    Deferred = {}
    Blocking = {humaneval}
    Floor <- MCFloor
    Baseline <- MCBaseline
    MaxDropPct = 10
    BlockAfter = 2
    Scores = {0, 1}
    MaxRuns = 2
    MaxChecks = 4
    MaxCrashes = 1
    Dims = {"fp4_mse", "fp4_t158_ratio"}
    Gated <- MCGated
    Values = {0, 1}
    EvalGateNames = {"perplexity", "bleu_score"}
    MaxRecords = 3
    MaxEvals = 4
    MaxEvalChecks = 3
    MaxEvalCrashes = 1
SPECIFICATION MCSpec
CHECK_DEADLOCK FALSE
INVARIANTS
    GatesTypeOK
    CountsAreStreaks
    BlocksInTime
    PreviousIsOlder
    Fp4BlocksInTime
PROPERTIES
    FailuresAreFound
