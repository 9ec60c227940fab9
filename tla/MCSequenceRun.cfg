SPECIFICATION FairSpec
CONSTANTS
    N = 4
    Reboots = {2}
    Verified = {2}
    Produces = {1}
    Skippable = {1}
    Gates = {3}
    Retries <- FirstRetried
    MaxVerify = 0
    MaxCrashes = 1
    MaxDrops = 1
    MaxLost = 1
    MaxExpiries = 1
INVARIANTS StepsInOrder RebootConfirmed
PROPERTIES NotDispatchedAgain OperationEnds
CHECK_DEADLOCK FALSE
