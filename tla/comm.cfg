SPECIFICATION FairSpec
CONSTANTS
    MaxMessages = 3
    MaxCancels = 2
    NoTimeout = TRUE
    Stubborn = TRUE
INVARIANTS
    TypeOK
    NoOutputLost
    AppStopped
PROPERTY OperationsEnd
CHECK_DEADLOCK FALSE
