\* A fault-free two-stage pipeline always runs to completion.
CONSTANTS
    N = 2
    Kind <- MCKindFuncScript
    InShards = 2
    OutShards = 2
    Chunks = 2
    FailStages = {}
    DialFail = FALSE
    Interrupt = FALSE
SPECIFICATION FairSpec
PROPERTIES TaskReturns
