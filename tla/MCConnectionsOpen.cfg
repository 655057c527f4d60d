\* What the code does not ensure: TLC refutes each of the definitions at the end, one at a time.
SPECIFICATION Spec
SYMMETRY Symmetry
CHECK_DEADLOCK FALSE
CONSTANTS
    User = {u1, u2}
    Account = {a1, a2}
    Worker = {w1}
    None = None
    MaxDay = 1
    MaxOps = 3
    MaxFaults = 0
    Revocation = {TRUE}
INVARIANT ToldMeansDisconnected
