SPECIFICATION Spec
CONSTANTS
    a = a
    b = b
    c = c
    Ops = {a, b, c}
    Deps <- Join
    CloneOps = {a}
    Start = start
    Workers = {w1, w2}
    EsxiWorkers = {w1}
    CancelModes = {"step"}
    AdminStops = TRUE
    MaxEnqueueFaults = 1
    MaxCrashes = 1
    MaxRedeliveries = 1
    MaxStartRedeliveries = 0
    MaxOutages = 0
INVARIANT DependenciesFirst
INVARIANT ConcludedIsFinal
PROPERTY ExecutesPlan
CHECK_DEADLOCK FALSE
