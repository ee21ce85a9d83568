SPECIFICATION Spec
CONSTANTS
    MaxFrames = 6
    Outers <- AnyOuter
    InContext = {TRUE, FALSE}
    Usage <- NoFreshContext
INVARIANTS
    TypeOK
    SensitiveAffinity
    CallNesting
    SyncNeverRefused
    LoopOfCallStack
    DeadlockErrorIsReal
CHECK_DEADLOCK FALSE
