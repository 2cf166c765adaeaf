SPECIFICATION FairSpec
CONSTANTS
    NR_ENTRIES = 4
    Instr <- Dependent
VIEW View
INVARIANTS
    OperandsCorrect
    NothingLost
    CsrAddressOwn
    UniqueWriter
PROPERTIES
    EveryInstructionLeaves
