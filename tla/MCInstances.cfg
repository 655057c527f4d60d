CHECK_DEADLOCK FALSE
SPECIFICATION Spec
CONSTANTS
    Node = {n1, n2}
    Worker = {w1, w2}
    Name = {x1, x2}
    Url = {v1}
    None = None
    Legacy = None
    Chimera = Chimera
    Preregistered = FALSE
    MaxOps = 6
    MaxFaults = 1
SYMMETRY Symmetry
INVARIANTS
    InstancesInv
    DefaultResolves
    DefaultWasInstalled
