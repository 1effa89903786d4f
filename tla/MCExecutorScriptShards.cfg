CONSTANTS
    N = 1
    Kind <- MCKindScript1
    InShards = 2
    OutShards = 1
    Chunks = 1
    FailStages = {}
    DialFail = FALSE
    Interrupt = FALSE
SPECIFICATION FairSpec
PROPERTIES TaskReturns
CHECK_DEADLOCK FALSE
