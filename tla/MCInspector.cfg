SPECIFICATION Spec
CONSTANTS
    a = a
    b = b
    x = x
    y = y
    role = role
    gen = gen
    own = own
    None = None
    Cards <- TwoCards
    d1 = d1
    d2 = d2
    Names = {x, y}
    Values = {d1, d2}
    Default = d1
    Weak <- WeakPairs
    Scripts = {role, gen, own}
    RoleScripts = {role}
    Generated = gen
    ISO_MAX_FILES = 2
    Starts <- SomeStarts
    MaxUploads = 2
    MaxGestures = 5
    MaxShortcuts = 1
INVARIANT UploadsMatchCards
INVARIANT PlanMatchesPanel
PROPERTY AnswersKeepScripts
PROPERTY CascadeIsConfirmed
CHECK_DEADLOCK FALSE
