\* What the code does not ensure: TLC refutes each of the definitions at the end, one at a time.
CHECK_DEADLOCK FALSE
SPECIFICATION Spec
CONSTANTS
    Node = {n1, n2}
    Worker = {w1, w2}
    Name = {x1, x2}
    Url = {v1, v2}
    None = None
    Legacy = None
    Chimera = Chimera
    Preregistered = TRUE
    MaxOps = 4
    MaxFaults = 1
INVARIANT WizardKeepsItsURL
\* INVARIANT DefaultStays
\* INVARIANT UninstalledIsGone
\* INVARIANT RefusedIsInstalled
\* PROPERTY ConfigurationImmutable
\* INVARIANT ConnectHasCredentials
