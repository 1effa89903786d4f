\* Every condition of the MCRangeBuilder instance, converted to handle
\* ranges on 2-bit handles, so that bounds reach MinInt and MaxInt.
CONSTANTS
    W = 2
    Consts <- MCConsts
    InMax = 2
    Depth = 1
SPECIFICATION Spec
INVARIANT TableRangesExact
\* The builder runs once per condition and stops.
CHECK_DEADLOCK FALSE
