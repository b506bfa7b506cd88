\* Two schedulers, two workers, one slot, everything that may fail.
SPECIFICATION FairSpec
CONSTANTS
    Schedulers = {p1, p2}
    Horizon = 1
    Workers = {w1, w2}
    Tasks = {t1, t2}
    MaxDeliver = 2
    MaxFaults = 2
    Nobody = Nobody
    NoTask = NoTask
INVARIANTS AckedIsAccounted RepeatsNeedALapse SoleExecutor TwiceOnlyInDoubt
PROPERTIES FaultFreeRunsOnce Settles
CHECK_DEADLOCK FALSE
