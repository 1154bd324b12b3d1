SPECIFICATION FairSpec
CONSTANTS
    a = a
    b = b
    c = c
    Clients <- MC_TwoClients
    Threads = {1}
    Creator = a
    MaxEpoch = 2
    MaxRestarts = 2
    NoGroup = NoGroup
    None = None
    Concurrent = FALSE
INVARIANT TypeOK PersistedWhenIdle
PROPERTY CatchUp
CHECK_DEADLOCK FALSE
