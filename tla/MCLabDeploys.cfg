SPECIFICATION Spec
CONSTANTS
    NoNode = NoNode
    dc = dc  dc2 = dc2  root = root  iss = iss  web = web  client = client
    Labs <- BothLabs
    MaxErrors = 1
    MaxStops = 1
INVARIANTS CanvasIsReal EditsCanBeRetried
PROPERTIES PrerequisitesFirst
CHECK_DEADLOCK FALSE
