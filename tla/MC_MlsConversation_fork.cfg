SPECIFICATION Spec
CONSTANTS
    a = a
    b = b
    c = c
    Clients <- MC_Clients
    Threads = {1}
    Creator = a
    MaxEpoch = 2
    MaxRestarts = 0
    NoGroup = NoGroup
    None = None
    Concurrent = TRUE
INVARIANT NoFork
CHECK_DEADLOCK FALSE
SYMMETRY MC_Symmetry
