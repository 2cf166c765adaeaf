SPECIFICATION Spec
CONSTANTS
    NR_ENTRIES = 4
    PORTS = 2
    Instr <- MCInstr
INVARIANTS
    TypeOK
    Consistent
    PortsDistinct
PROPERTIES
    Refinement
