\* The host follows the documented order (cryptobox_migrate, then proteus_init).
CONSTANTS
    p1 = p1
    p2 = p2
    kL = kL
    k1 = k1
    k2 = k2
    None = None
    Peers <- MC_Peers
    Keys <- MC_Keys
    PrekeyIds <- MC_PrekeyIds
    LastResort = 65535
    LegacyKey = kL
    LegacyPeers = {p1}
    LegacyPrekeys = {1}
    MigrateFirst = TRUE
    MaxHandshakes = 4
    MaxPrekeys = 2
    MaxCrashes = 1
SPECIFICATION Spec
INVARIANT IdentityStable OneTimePrekeyUsedOnce StoredInMemory
CHECK_DEADLOCK FALSE
PROPERTY ImportAsTested
