SPECIFICATION Spec
CONSTANTS
    a1 = a1
    a2 = a2
    k1 = k1
    k2 = k2
    r1 = r1
    r2 = r2
    Agent = {a1, a2}
    NoAgent = NoAgent
    Key = {k1}
    NoKey = NoKey
    Req = {r1, r2}
    NoStep = 0
    Step <- OneStep
    Deps <- Alone
    InitRetry <- OneRetry1
    InitAgent <- Nobody1
    NeedsConfirm = {}
    ResetRetry = 1
    HasAcceptance = TRUE
    Verdict = {"pass", "fail", "schema", "agent_failed"}
    Ops = {"assign", "reset", "reverify", "pause", "cancel", "watchdog", "reclaim", "expire", "crash"}
SYMMETRY Symmetry
PROPERTIES
    OutcomeFinal
    OnlyOwnerCompletes
CHECK_DEADLOCK FALSE
