SPECIFICATION Spec
CONSTANTS
    a1 = a1
    a2 = a2
    k1 = k1
    k2 = k2
    p1 = p1
    r1 = r1
    r2 = r2
    Account = {a1}
    NoAccount = NoAccount
    Notice = {}
    Key = {k1, k2}
    PayId = {p1}
    Req = {r1, r2}
    Poller = poller
    MaxYear = 3
    Payers <- NoNotice
    Modes = {"manual", "stub"}
    Limit = 2
    Escaped = {}
    Ops = {"recharge", "annual", "crash"}
SYMMETRY Symmetry
PROPERTIES
    ExtensionIsPaid
    ImplementsBank
CHECK_DEADLOCK FALSE
