SPECIFICATION Spec
CONSTANTS
    NR_ENTRIES = 4
    DEPTH_SPEC = 2
    DEPTH_COMMIT = 1
    Program <- LoadPrograms
    Dword = {0, 1}
    STEP = FALSE
INVARIANTS
    LoadsKept
