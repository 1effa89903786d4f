\* One instruction with three shard dials against an ioErrChan of capacity 2.
CONSTANTS
    N = 1
    Kind <- MCKindFunc1
    InShards = 2
    OutShards = 1
    Chunks = 1
    FailStages = {1}
    DialFail = TRUE
    Interrupt = FALSE
SPECIFICATION Spec
INVARIANTS IoErrNeverBlocks
CHECK_DEADLOCK FALSE
