\* What the code does not ensure: TLC refutes each of the definitions at the end, one at a time.
CHECK_DEADLOCK FALSE
SPECIFICATION Spec
CONSTANTS
    n1 = n1
    n2 = n2
    u1 = u1
    u2 = u2
    r1 = r1
    r2 = r2
    Node = {n1, n2}
    User = {u1}
    Request = {r1}
    Callback = {c1}
    Owners <- OneOwner
    None = None
    MaxCalls = 1
    MaxFaults = 1
PROPERTY FailureLeavesNothing
\* INVARIANT TimeoutMeansNobodyCame
