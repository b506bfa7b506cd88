\* Is what was never applied ever shown as completed?
SPECIFICATION SyncSpec
CONSTANTS
    Replays = {x1}
    Nobody = Nobody
    MaxRetry = 1
    MaxSends = 2
INVARIANTS CompletedIsApplied
CHECK_DEADLOCK FALSE
