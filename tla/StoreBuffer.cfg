\* The store buffer on its own, inputs restricted by its own assertions.
SPECIFICATION FairSpec
CONSTANTS
    DEPTH_SPEC = 4
    DEPTH_COMMIT = 2
    Page = {p1}
    Dword = {d1, d2}
    Data = {v1}
INVARIANTS
    TypeOK
    Consistent
    CheckerComplete
PROPERTIES
    Refinement
    Drains
