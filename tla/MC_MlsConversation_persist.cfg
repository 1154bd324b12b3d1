SPECIFICATION Spec
CONSTANTS
    a = a
    b = b
    c = c
    Clients <- MC_Clients
    Threads = {1, 2}
    Creator = a
    MaxEpoch = 3
    MaxRestarts = 0
    NoGroup = NoGroup
    None = None
    Concurrent = TRUE
INVARIANT PersistedWhenIdle
CHECK_DEADLOCK FALSE
SYMMETRY MC_Symmetry
