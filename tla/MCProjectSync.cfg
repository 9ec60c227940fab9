SPECIFICATION FairSpec
CONSTRAINT TwoTroubles
CONSTANTS
    v1 = v1  v2 = v2  v3 = v3
    Versions <- Three
    MaxDenials = 1
    MaxEdits = 2
    MaxReverts = 1
    MaxFailures = 1
    MaxSessions = 2
    MaxForeign = 1
    None = None
INVARIANTS NothingForgotten SavedIsServed PendingIsDriven
PROPERTIES SavedInCalm
CHECK_DEADLOCK FALSE
