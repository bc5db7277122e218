SPECIFICATION TwoTasksSpec
CONSTANTS
    outer = outer
    inner = inner
    Tasks = {outer, inner}
    PoolThreads = {t1, t2}
    Owner = Owner
    Nobody = Nobody
    NoTask = NoTask
CHECK_DEADLOCK FALSE
INVARIANTS
    NeverAborted
