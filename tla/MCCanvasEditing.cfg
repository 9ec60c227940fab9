SPECIFICATION Spec
CONSTANTS
    NoNode = NoNode
    dc = dc  dc2 = dc2  root = root  iss = iss  sub = sub  web = web  web2 = web2  client = client
    Scenes <- AllScenes
    Places <- SomePlaces
    Beside = 3  MaxShortcuts = 1
    Radius = 13  HalfWidth = 1  Gap = 0  CircleMargin = 1  MemberPadding = 2
    ExitMargin = 1  NeighborClearance = 3  SearchSteps = 24
INVARIANTS ListMatchesCanvas ConfiguredCanvasCompiles AcceptedIsGuided
PROPERTIES DroppedWhereItBelongs AskedAsPreviewed ReadyKeepsComplete
CHECK_DEADLOCK FALSE
