\* Two publishers of one event, two sites, changing governance; every entry
\* ever handed out may still be used.
SPECIFICATION Spec
CONSTANTS
    Events = {e1}
    Sites = {s1, s2}
    Publishers = {p1, p2}
    NoEvent = NoEvent
    Registered = {e1}
    MaxAttempts = 2
    MaxChanges = 1
    None = None
SYMMETRY Symmetric
INVARIANTS ReceiptIsEarned MirroredOnce ConfirmedIsApplied
PROPERTIES LapsedClaimHasNoSay AuthorizedByItsInsert Promised
CHECK_DEADLOCK FALSE
