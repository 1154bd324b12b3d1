SPECIFICATION Spec
CONSTANTS
    MaxEpoch = 3
    MaxAttempts = 3
    MaxCrashes = 1
    None = None
    NoGroup = NoGroup
PROPERTY ImplementsExternalJoin
CHECK_DEADLOCK FALSE
