SPECIFICATION FairSpec
CONSTANTS
    MaxTasks = 4
    MaxCalls = 2
    MaxWork = 5
INVARIANTS
    TypeOK
    CancelsOwn
    CancelReported
PROPERTIES
    CancelReaches
    CancelEnds
CHECK_DEADLOCK FALSE
