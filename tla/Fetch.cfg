\* Fetch, re-alignment and the instruction queue, with a faulting word.
SPECIFICATION FairSpec
CONSTANTS
    SIZE = 8
    Programs <- Mixed
    DEPTH = 2
    Fault = {6}
    Junk = {0, 4}
    NonIdempotent = {4}
    Restart = {0, 7}
    MAX_CF = 2
INVARIANTS
    TypeOK
    FaultKept
    InOrder
PROPERTIES
    Delivers
