SPECIFICATION Spec
CONSTANTS
    Executors = {e1, e2, e3}
    Items = {i1, i2}
    Threads = {t1, t2, t3}
    None = None
SYMMETRY Symmetry
INVARIANTS
    TypeOK
    NoStrandedWork
    NoLostWakeup
    PassesOnlyQuitExecutors
PROPERTY ImplementsHandoff
CHECK_DEADLOCK FALSE
