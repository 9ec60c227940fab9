SPECIFICATION Spec
CONSTANTS
    Radius = 0
    HalfWidth = 0
    Gap = 0
    CircleMargin = 0
    MemberPadding = 0
    ExitMargin = 0
    NeighborClearance = 0
    SearchSteps = 0
    NoNode = NoNode
    Scenes <- AllScenes
    Tabs = {lab, other}
    NoTab = NoTab
    NoReport = NoReport
    NoJob = NoJob
    NoPlan = NoPlan
    NoCanvas = NoCanvas
    CA01 = CA01
    CA02 = CA02
    DC01 = DC01
    SRV1 = SRV1
    lab = lab
    other = other
    WEB2 = WEB2
    client = client
INVARIANT SnapshotAgrees
INVARIANT EveryFailureIsShown
INVARIANT ListedIsOpen
PROPERTY LeavingKeeps
CHECK_DEADLOCK FALSE
