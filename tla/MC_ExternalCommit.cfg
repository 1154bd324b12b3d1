SPECIFICATION FairSpec
CONSTANTS
    MaxEpoch = 3
    MaxAttempts = 3
    MaxCrashes = 1
    None = None
    NoGroup = NoGroup
INVARIANT MergedIsAccepted AdmittedOnlyIfAuthorized AgreesWithValidationTests
PROPERTY AcceptedJoinCompletes
CHECK_DEADLOCK FALSE
