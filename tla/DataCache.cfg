SPECIFICATION Spec
CONSTANTS
    Port = {0, 1}
    DEPTH = 2
    MAX_TX = 2
    Way = {0, 1}
    Line = {0, 1, 2}
    Off = {0, 1}
    Byte = {1, 2}
    NcLine = {2}
    NiLine = {2}
    Workload <- Workloads
VIEW View
INVARIANTS
    TypeOK
    LoadSeesLatest
    CacheCoherent
    StoreReachesMemory
    AmoAfterStores
    TxConsistent
    NiStoresOnce
