\* Three overlapping replays, four requests, reloads.
SPECIFICATION SyncSpec
CONSTANTS
    Replays = {x1, x2, x3}
    Nobody = Nobody
    MaxRetry = 1
    MaxSends = 4
SYMMETRY Symmetric
INVARIANTS AppliedOncePerWindow AttemptsBounded
CHECK_DEADLOCK FALSE
