\* Two processes of a node, two requests, two jobs of the SDK node.
CONSTANTS
    planner = planner
    core = core
    gmodel = gmodel
    mmodel = mmodel
    NoModel = NoModel
    Configs <- MCConfigs
    Passphrases = {1, 2}
    MaxStarts = 2
    MaxPolls = 2
    MaxJobs = 2
    MaxCalls = 2
SPECIFICATION MCSpec
CHECK_DEADLOCK FALSE
INVARIANTS
    NodeTypeOK
    LastLoadWins
    WiredUnlessReloaded
PROPERTIES
    CompletionIsOwn
    InferenceEnds
    KeysAreKept
    SameNodeAgain
    StopEndsServe
