SPECIFICATION Spec
CONSTANTS
    Msg = {m}
    Entry <- AnyEntry
    Task = {t1, t2}
    Handler = {h1, h2}
    Nobody = Nobody
    NoRefusal = TRUE
    Limit = 1
    MaxRounds = 1
    MaxCrash = 1
SYMMETRY Symmetry
INVARIANTS
    TypeOK
    AtMostOnce
    DeliveredIsReceived
    WindowIsReceived
PROPERTIES
    ImplementsMailbox
CHECK_DEADLOCK FALSE
