SPECIFICATION Spec
CONSTANTS
    cx = cx  cz = cz  cy = cy  dx = dx
    x = x  y = y
    Names = {x, y}
    Addrs = {1, 2}
    Clones = {cx, cz, cy}
    Destroys = {dx}
    Authored = {cz}
    NameOf <- TaskNames
    Ranges <- AllRanges
    Overlap = FALSE
    MaxCrashes = 1
    MaxFaults = 1
    MaxEdits = 1
INVARIANTS VmAddressHeld IdentityKept NothingStranded
CHECK_DEADLOCK FALSE
