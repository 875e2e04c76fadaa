\* Two niches of two stages: every flag, two invocations, crashes and write errors.
CONSTANTS
    code = code
    medical = medical
    Niches = {code, medical}
    NicheOrder <- MCTwoNiches
    StageCount = 2
    RetryCount = 1
    MaxRuns = 2
    Flags <- MCAllFlags
    OnSuccess <- MCAnyContent
    OnFailure = {"invalid"}
    Faults = {"write", "crash", "unlink"}
SPECIFICATION FairSpec
CHECK_DEADLOCK FALSE
INVARIANTS
    TypeOK
    CheckpointsVouch
    RejectionAbandonsNiche
    ProgressIsKept
PROPERTIES
    OnlyForceDiscards
    ImplementsLedger
    InvocationEnds
