SPECIFICATION Spec
CONSTANTS
    NR_ENTRIES = 4
    DEPTH_SPEC = 2
    DEPTH_COMMIT = 1
    Program <- Programs
    Dword = {0, 1}
    STEP = FALSE
VIEW View
INVARIANTS
    TypeOK
    StoreBufferContract
    LoadSeesOlderStores
    ExceptionPrecise
    BufferMatchesRob
    NoStaleWriteBack
    AmoBuffered
    NiLoadNonSpeculative
    NoOrphans
PROPERTIES
    FenceOrders
