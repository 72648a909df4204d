SPECIFICATION Spec
CONSTANTS
    a1 = a1
    a2 = a2
    k1 = k1
    k2 = k2
    p1 = p1
    r1 = r1
    r2 = r2
    Account = {a1}
    NoAccount = NoAccount
    Notice = {1}
    Key = {k1}
    PayId = {p1}
    Req = {r1}
    Poller = poller
    MaxYear = 3
    Payers <- OnlyPayer
    Modes = {"manual"}
    Limit = 2
    Escaped = {1}
    Ops = {}
SYMMETRY Symmetry
INVARIANTS
    ApprovedIsCredited
CHECK_DEADLOCK FALSE
