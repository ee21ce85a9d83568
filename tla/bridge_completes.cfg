SPECIFICATION FairSpec
CONSTANTS
    MaxFrames = 5
    Outers <- AnyOuter
    InContext = {TRUE, FALSE}
    Usage <- AnyUsage
PROPERTY Completion
CHECK_DEADLOCK FALSE
