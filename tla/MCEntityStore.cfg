\* Two writes of two rows on two replicas, two
\* threads each, one fault.
SPECIFICATION FairSpec
CONSTANTS
    r1 = r1
    r2 = r2
    w1 = w1
    w2 = w2
    Replicas = {r1, r2}
    Ids = {i1, i2}
    Writes = {w1, w2}
    Homes <- TwoPlacements
    Skews <- TwoSkews
    Workers = 2
    None = None
    MaxFaults = 1
INVARIANTS CommittedIsWhole
PROPERTIES RowsConverge
CHECK_DEADLOCK FALSE
