CHECK_DEADLOCK FALSE
SPECIFICATION FairSpec
CONSTANTS
    Node = {n1, n2}
    u1 = u1
    u2 = u2
    User = {u1, u2}
    Writer = {w1}
    None = None
    MaxKey = 1
    MaxWrites = 2
    MaxFaults = 1
    Saves = {TRUE}
    Pads = {TRUE, FALSE}
    PageSize = 1
    Place <- MCPlace
    Others <- MCOthers
INVARIANT RotationInv
PROPERTIES RotationIsTransparent FallbackEnds
