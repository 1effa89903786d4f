\* Fault-free sorter: four inputs through a buffer of two rows, so the
\* in-memory path, one spill plus a final flush, and two spills all occur.
CONSTANTS
    Vals = {1, 2}
    BadVals = {}
    KeySize = 2
    ByDesc <- MCByDesc
    BufSize = 2
    MaxInputs = 4
    MaxOutputs = 6
    MaxFail = 0
SPECIFICATION Spec
INVARIANTS
    OutputOrdered
    NoDuplicateOutput
    CleanEndReturnsAll
    MergeMemoryBound
PROPERTIES
    InputRejectedAfterOutput
    SorterRefinement
