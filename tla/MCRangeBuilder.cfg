\* Every condition over one 2-bit column with at most one AND or OR, IN
\* lists of up to two constants, constants on and between the integers.
CONSTANTS
    W = 2
    Consts <- MCConsts
    InMax = 2
    Depth = 1
SPECIFICATION Spec
INVARIANTS
    TypeOK
    WellFormed
    MergeExact
    BuildSound
    IndexRangesExact
    AppendSound
    AppendExact
\* The builder runs once per condition and stops.
CHECK_DEADLOCK FALSE
