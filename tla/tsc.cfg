SPECIFICATION FairSpec
CONSTANTS
    Tasks = {t1, t2, t3}
    First = t1
    None = None
    MaxCalls = 3
    Slots = 1
INVARIANTS
    TypeOK
    OneThread
    LeftIdle
PROPERTIES
    ExitEnds
CHECK_DEADLOCK FALSE
