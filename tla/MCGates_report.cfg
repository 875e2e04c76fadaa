\* An evaluation that fails, the report of the evaluate stage, and a check.
CONSTANTS
    humaneval = humaneval
    mmlu = mmlu
    TaskOrder <- MCTasks
    Deferred = {}
    Blocking = {humaneval}
    Floor <- MCFloor
    Baseline <- MCBaseline
    MaxDropPct = 10
    BlockAfter = 2
    Scores = {0, 1}
    MaxRuns = 0
    MaxChecks = 0
    MaxCrashes = 0
    Dims = {"fp4_mse", "fp4_t158_ratio"}
    Gated <- MCGated
    Values = {0, 1}
    EvalGateNames = {"perplexity", "bleu_score"}
    MaxRecords = 0
    MaxEvals = 2
    MaxEvalChecks = 1
    MaxEvalCrashes = 0
SPECIFICATION MCSpec
CHECK_DEADLOCK FALSE
PROPERTY FailuresCount
