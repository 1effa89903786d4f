\* Every condition of the MCRangeBuilder instance: IN lists may hold NULL.
CONSTANTS
    W = 2
    Consts <- MCConsts
    InMax = 2
    Depth = 1
SPECIFICATION Spec
INVARIANT BuildExact
\* The builder runs once per condition and stops.
CHECK_DEADLOCK FALSE
