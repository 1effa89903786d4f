CONSTANTS
    N = 1
    Kind <- MCKindFunc1
    InShards = 0
    OutShards = 0
    Chunks = 1
    FailStages = {1}
    DialFail = FALSE
    Interrupt = FALSE
SPECIFICATION Spec
INVARIANTS SuccessMeansNoError
CHECK_DEADLOCK FALSE
