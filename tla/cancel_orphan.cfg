SPECIFICATION Spec
CONSTANTS
    MaxTasks = 4
    MaxCalls = 2
    MaxWork = 5
PROPERTY CancelReachesAlways
CHECK_DEADLOCK FALSE
