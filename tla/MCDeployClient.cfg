SPECIFICATION Spec
CONSTRAINT OneTrouble
CONSTANTS
    A = A  B = B
    c = c  e = e
    Projects = {A, B}
    Ops = {c, e}
    Clones = {c}
    Deps <- CloneThenJoin
    Staged <- OnlyInA
    MaxJobs = 2
    MaxFaults = 1
    MaxLeaves = 1
INVARIANTS OneLivePlan DoneNotResent DeployIsDriven
CHECK_DEADLOCK FALSE
