\* Two relays, one of which may crash, compete for two events.
SPECIFICATION FairSpec
CONSTANTS
    Relays = {r1, r2}
    Events = {e1, e2}
    MaxAttempts = 2
    BatchSize = 2
    NoRelay = NoRelay
    NoEvent = NoEvent
    MaxCrashes = 1
INVARIANTS MarkedIsDurable
PROPERTIES OnlyOwnerMarks PublishedOrExhausted
CHECK_DEADLOCK FALSE
