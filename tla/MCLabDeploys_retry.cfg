SPECIFICATION Spec
CONSTANTS
    NoNode = NoNode
    dc = dc  dc2 = dc2  root = root  iss = iss  web = web  client = client
    Labs <- OnlyDomain
    MaxErrors = 1
    MaxStops = 0
INVARIANTS RetryCompiles
CHECK_DEADLOCK FALSE
