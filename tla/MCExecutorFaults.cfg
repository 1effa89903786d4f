\* Every failure enabled: scripts retry, functions fail, dials fail, the
\* process may be interrupted.  Seven dials against the six slots of
\* ioErrChan, so dial reports can block too.  Hangs are real here, so
\* deadlock is not checked.  Run on MCExecutorProofs so that the inductive
\* invariant of the proofs is checked beside the properties it implies.
CONSTANTS
    N = 3
    Kind <- MCKindMixed
    InShards = 4
    OutShards = 3
    Chunks = 1
    FailStages = {1, 2}
    DialFail = TRUE
    Interrupt = TRUE
SPECIFICATION Spec
INVARIANTS TypeOK FinishedMeansQuiescent ExeErrNeverBlocks IInv
CHECK_DEADLOCK FALSE
