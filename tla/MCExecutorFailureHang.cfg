CONSTANTS
    N = 2
    Kind <- MCKindFunc2
    InShards = 1
    OutShards = 1
    Chunks = 2
    FailStages = {2}
    DialFail = FALSE
    Interrupt = FALSE
SPECIFICATION FairSpec
PROPERTIES TaskReturns
CHECK_DEADLOCK FALSE
