\* What the code does not ensure: TLC refutes each of the definitions at the end, one at a time.
SPECIFICATION PopoversSpec
CHECK_DEADLOCK FALSE
CONSTANTS
    h1 = h1
    h2 = h2
    l1 = l1
    l2 = l2
    l3 = l3
    l4 = l4
    Link = {l1, l2, l3, l4}
    Host = {h1, h2}
    Shape <- MCShape
    User = {u1, u2}
    Name = {n1, n2}
    None = None
    MaxMoves = 5
    MaxFaults = 1
INVARIANT NeverRefused
\* INVARIANT ConnectedHasURL
\* INVARIANT NamesAreCurrent
\* INVARIANT NoPreviewUnconnected
