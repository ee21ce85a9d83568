SPECIFICATION Spec
CONSTANTS
    MaxMessages = 1
    MaxCancels = 0
    NoTimeout = FALSE
    Stubborn = FALSE
PROPERTY WaitReturnsErrors
