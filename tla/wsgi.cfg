SPECIFICATION FairSpec
CONSTANTS
    Lengths = {0, 1, 3}
    NoLength = NoLength
    Missing = Missing
    Sizes = {0, 1, 2}
    MaxMessages = 7
INVARIANTS
    TypeOK
    ReturnsComplete
PROPERTIES
    ImplementsHttpResponse
    InstanceEnds
CHECK_DEADLOCK FALSE
