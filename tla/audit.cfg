SPECIFICATION Spec
CONSTANTS
    Writer = {w1, w2}
    NoWriter = NoWriter
    Locked = TRUE
    Cleaning = TRUE
    MaxId = 5
    MaxTime = 6
SYMMETRY Symmetry
INVARIANTS
    TypeOK
    NoFork
    OneBreak
PROPERTIES
    CleanupHeals
    ImplementsLog
CHECK_DEADLOCK FALSE
