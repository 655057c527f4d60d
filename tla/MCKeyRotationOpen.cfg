\* What the code does not ensure: TLC refutes each of the definitions at the end, one at a time.
CHECK_DEADLOCK FALSE
SPECIFICATION Spec
CONSTANTS
    Node = {n1}
    u1 = u1
    u2 = u2
    User = {u1, u2}
    Writer = {w1}
    None = None
    MaxKey = 2
    MaxWrites = 1
    MaxFaults = 0
    Saves = {TRUE}
    Pads = {TRUE, FALSE}
    PageSize = 1
    Place <- MCPlace
    Others <- MCOthers
INVARIANT ConcurrentJobsKeepUsers
\* INVARIANT ReadableDuringRotation
\* INVARIANT ClearedWhenMigrated
\* INVARIANT AnyKeyKeepsUsers
\* INVARIANT AllOldTokensMigrated (with MaxKey = 1)
