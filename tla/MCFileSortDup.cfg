\* One injected I/O failure, no comparison failures: an openAllFiles
\* failure followed by a second Output call.
CONSTANTS
    Vals = {1, 2}
    BadVals = {}
    KeySize = 2
    ByDesc <- MCByDesc
    BufSize = 1
    MaxInputs = 3
    MaxOutputs = 4
    MaxFail = 1
SPECIFICATION Spec
INVARIANT NoDuplicateOutput
