\* Two callers, concurrent or successive, of two commands, scheduled fairly.
SPECIFICATION FairSpec
CONSTANTS
    Executors = {e1, e2}
    Keys = {k1, k2}
    Tokens = {t1, t2, t3, t4}
    NoToken = NoToken
    NoKey = NoKey
INVARIANTS AtMostOnce AnswersAgree
PROPERTIES LiveClaimIsExclusive Promised CallsReturn
