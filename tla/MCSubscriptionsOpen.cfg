\* What the code does not ensure: TLC refutes each of the definitions at the end, one at a time.
CHECK_DEADLOCK FALSE
SPECIFICATION Spec
CONSTANTS
    Worker = {w1, w2}
    Name = {g}
    Channel = {c1, c2}
    User = {u1}
    None = None
    MaxOps = 4
    MaxLocks = 1
    MaxFaults = 0
INVARIANT UnsubscribeDeletes
\* INVARIANT LockedTold
