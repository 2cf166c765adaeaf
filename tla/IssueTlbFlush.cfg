SPECIFICATION Spec
CONSTANTS
    NR_ENTRIES = 4
    Instr <- TlbFlush
VIEW View
INVARIANTS
    CsrNotForwarded
