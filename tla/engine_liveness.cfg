SPECIFICATION FairSpec
CONSTANTS
    a1 = a1
    a2 = a2
    k1 = k1
    k2 = k2
    r1 = r1
    r2 = r2
    Agent = {a1}
    NoAgent = NoAgent
    Key = {k1}
    NoKey = NoKey
    Req = {r1, r2}
    NoStep = 0
    Step <- OneStep
    Deps <- Alone
    InitRetry <- OneRetry1
    InitAgent <- Nobody1
    NeedsConfirm = {1}
    ResetRetry = 1
    HasAcceptance = FALSE
    Verdict = {"pass", "fail", "bad_signature", "agent_failed"}
    Ops = {"confirm", "cancel", "watchdog", "reclaim", "expire"}
PROPERTIES
    OverdueTaskEnds
    CallsReturn
    ScansEnd
CHECK_DEADLOCK FALSE
