CHECK_DEADLOCK FALSE
SPECIFICATION Spec
CONSTANTS
    Worker = {w1, w2}
    Name = {g}
    Channel = {c1, c2}
    User = {u1, u2}
    None = None
    MaxOps = 4
    MaxLocks = 1
    MaxFaults = 1
SYMMETRY Symmetry
INVARIANTS
    SubscriptionsInv
    CommandsAlone
    ViewCurrent
