SPECIFICATION Spec
CONSTANTS
    Page <- Pages
    Code <- CodePages
    Forbidden = {3}
    Scenarios <- Changes
    TLB_ENTRIES = 2
    FUEL = 1
INVARIANTS
    EveryAnswerOwn
