SPECIFICATION Spec
CONSTANTS
    a1 = a1
    a2 = a2
    k1 = k1
    k2 = k2
    p1 = p1
    r1 = r1
    r2 = r2
    Account = {a1, a2}
    NoAccount = NoAccount
    Notice = {1, 2}
    Key = {k1}
    PayId = {p1}
    Req = {r1, r2}
    Poller = poller
    MaxYear = 3
    Payers <- TwoPayers
    Modes = {"manual", "stub", "off"}
    Limit = 2
    Escaped = {}
    Ops = {"deduct", "reject", "crash"}
SYMMETRY Symmetry
INVARIANTS
    TypeOK
    ChainVerifies
PROPERTIES
    ImplementsPayments
    ImplementsBank
CHECK_DEADLOCK FALSE
