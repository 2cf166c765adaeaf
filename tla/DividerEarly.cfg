SPECIFICATION Spec
CONSTANTS
    WIDTH = 5
    WORD = 3
VIEW View
INVARIANTS
    EarlyOnlyIfZero
