SPECIFICATION Spec
CONSTANTS
    NR_ENTRIES = 4
    DEPTH_SPEC = 2
    DEPTH_COMMIT = 1
    Program <- SteppedPrograms
    Dword = {0, 1}
    STEP = TRUE
INVARIANTS
    CommitFlushExclusive
