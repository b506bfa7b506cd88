\* Nothing fails: is a task dead-lettered all the same?
SPECIFICATION Spec
CONSTANTS
    Schedulers = {p1}
    Horizon = 1
    Workers = {w1, w2}
    Tasks = {t1}
    MaxDeliver = 2
    MaxFaults = 0
    Nobody = Nobody
    NoTask = NoTask
INVARIANTS DeadLetterMeansFailed
CHECK_DEADLOCK FALSE
