SPECIFICATION ConnFairSpec
CONSTANTS
    Conns = {c1, c2}
    MaxFaults = 1
    MaxDeletes = 1
    MaxBreaks = 1
INVARIANTS ServedIsResolved
PROPERTIES LeaseFollows PresenceSettles
CHECK_DEADLOCK FALSE
