\* What the code does not ensure: TLC refutes each of the definitions at the end, one at a time.
CHECK_DEADLOCK FALSE
SPECIFICATION Spec
CONSTANTS
    Worker = {w1, w2}
    Account = {a1}
    None = None
    MaxToken = 3
    MaxFaults = 0
PROPERTY RevokedIsDead
\* INVARIANT DisconnectIsFinal
\* INVARIANT NoOrphanToken
\* PROPERTY LockAlwaysReleased (with SPECIFICATION FairSpec)
