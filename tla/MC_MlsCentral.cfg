\* App and extension over one keystore, the host resynchronising on every handover.
SPECIFICATION Spec
CONSTANTS
    app = app
    ext = ext
    c1 = c1
    c2 = c2
    id1 = id1
    None = None
    Keystore = Keystore
    InMemory <- MC_InMemory
    Instances <- MC_Instances
    Convs <- MC_Convs
    ClientIds <- MC_ClientIds
    Configurations <- MC_Configurations
    MaxEpoch = 2
    HostRestores = TRUE
SYMMETRY MC_Symmetry
INVARIANT HolderSeesDisk AgreesWithConfigTests
