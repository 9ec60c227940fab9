SPECIFICATION FairSpec
CONSTRAINT TwoFaults
CONSTANTS
    a = a
    b = b
    c = c
    Ops = {a, b, c}
    Deps <- Chain
    CloneOps = {a}
    Start = start
    Workers = {w1, w2}
    EsxiWorkers = {w1}
    CancelModes = {"operation"}
    AdminStops = TRUE
    MaxEnqueueFaults = 1
    MaxCrashes = 1
    MaxRedeliveries = 1
    MaxStartRedeliveries = 1
    MaxOutages = 1
INVARIANT OneRunPerStart
PROPERTY PlanConcludes
CHECK_DEADLOCK FALSE
