\* Two requests, after one that may have left its claim: on two PostgreSQL-backed
\* replicas, or on one process that keeps its records in memory.
SPECIFICATION FairSpec
CONSTANTS
    Requests = {q1, q2}
    Replicas = {p1, p2}
    Bodies = {b1, b2}
    Nobody = Nobody
    Stores = {"postgres", "memory"}
    TxCompletes = FALSE
    MaxExpiries = 2
INVARIANTS OneEffectPerWindow ReplayFaithful
PROPERTIES CompletedStays Promised RequestsReturn
CHECK_DEADLOCK FALSE
