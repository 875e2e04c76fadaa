\* The shipped scripts under the runner, killed in the middle, and by hand.
CONSTANTS
    code = code
    Niches = {code}
    NicheOrder <- MCOneNiche
    StageCount <- MCStageCount
    RetryCount = 0
    MaxRuns = 2
    Flags <- MCFlags
    OnSuccess <- MCOnSuccess
    OnFailure = {"valid", "invalid"}
    Faults = {"crash"}
    ByHand = {"generate", "train", "train --force-retrain", "quantize --adaptive"}
SPECIFICATION ShippedSpec
CHECK_DEADLOCK FALSE
INVARIANTS
    ShippedTypeOK
    StagesDoNotInterfere
    OnlyExportsAreUndermined
