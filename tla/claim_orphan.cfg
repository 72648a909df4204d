SPECIFICATION Spec
CONSTANTS
    s1 = s1
    s2 = s2
    a1 = a1
    m1 = m1
    m2 = m2
    c3 = c3
    Skill = {s1, s2}
    Agent = {a1}
    Singleton = {}
    Child = {c1, c2}
    Call = {}
    Msg = {m1}
    Shared = shared
    NoChild = NoChild
    Target <- TwoTargets
    MaxProcs = 1
    ResidentSlots = 1
    MaxRestarts = 1
    MaxAttempts = 2
    Ops = {"admin", "crash"}
INVARIANTS
    NoOrphan
CHECK_DEADLOCK FALSE
