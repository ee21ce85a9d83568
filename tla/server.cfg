SPECIFICATION FairSpec
CONSTANTS
    Scopes = {s1, s2, s3}
    MaxInstances = 4
    MaxApplications = 1
    MaxTime = 1
    HookAwaits = {TRUE, FALSE}
    SelfCancel = FALSE
    None = None
INVARIANTS
    TypeOK
    AtMostOneOver
    OneLivePerScope
    ServerSurvives
PROPERTIES
    NoErrorDropped
    DoneForgotten
CHECK_DEADLOCK FALSE
