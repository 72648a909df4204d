SPECIFICATION BudgetSpec
CONSTANTS
    a1 = a1
    a2 = a2
    k1 = k1
    r1 = r1
    r2 = r2
    Agent = {a1, a2}
    NoAgent = NoAgent
    Key = {k1}
    NoKey = NoKey
    Req = {r1, r2}
    NoStep = 0
    Step <- TwoSteps
    Deps <- Chain
    InitRetry <- OneRetry
    InitAgent <- NobodyYet
    NeedsConfirm = {2}
    ResetRetry = 1
    HasAcceptance = FALSE
    Verdict = {"pass", "fail", "bad_signature", "agent_failed"}
    Ops = {"confirm", "pause", "cancel", "watchdog", "expire", "crash"}
SYMMETRY Symmetry
INVARIANTS
    TypeOK
    OwnerKnown
    DependenciesHold
    CompletedTaskIsDone
    RetryNotOverdrawn
    ExecutionsWithinBudget
PROPERTIES
    DoneStepsStay
    ImplementsLifecycle
CHECK_DEADLOCK FALSE
