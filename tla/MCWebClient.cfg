SPECIFICATION Spec
CHECK_DEADLOCK FALSE
CONSTANTS
    Account = {a1, a2}
    Channel = {c1, c2}
    Home = c1
    None = None
    MaxSteps = 3
    MaxFaults = 1
INVARIANTS WebInv ConnectionSettles RefreshIsSeen
PROPERTY SpinnerEnds
