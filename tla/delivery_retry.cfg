SPECIFICATION FairSpec
CONSTANTS
    Msg = {m1, m2, m3}
    Entry <- PostOnly
    Task = {t1}
    Handler = {}
    Nobody = Nobody
    NoRefusal = TRUE
    Limit = 1
    MaxRounds = 2
    MaxCrash = 1
PROPERTIES
    KeptOnTrying
CHECK_DEADLOCK FALSE
