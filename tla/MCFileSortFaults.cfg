\* Sorter under failures: one injected I/O failure (open, write, read,
\* close or remove) and a datum value (3) whose comparison fails, beside
\* values (1, 2) that compare.
CONSTANTS
    Vals = {1, 2, 3}
    BadVals = {3}
    KeySize = 2
    ByDesc <- MCByDesc
    BufSize = 1
    MaxInputs = 3
    MaxOutputs = 4
    MaxFail = 1
SPECIFICATION Spec
INVARIANTS
    OutputOrdered
    DirRemovedOnlyWhenDone
