SPECIFICATION FairSpec
CONSTANTS
    Executors = {e1, e2}
    Items = {i1, i2}
    Threads = {t1, t2}
    None = None
PROPERTIES
    AcceptedWorkRuns
    CallerReleased
CHECK_DEADLOCK FALSE
