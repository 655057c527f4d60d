\* What the code does not ensure: TLC refutes each of the definitions at the end, one at a time.
SPECIFICATION PanelSpec
CHECK_DEADLOCK FALSE
CONSTANTS
    m1 = m1
    m2 = m2
    s1 = s1
    s2 = s2
    MR = {m1, m2}
    Sha = {s1, s2}
    CI <- MCCI
    None = None
    MaxChanges = 2
    MaxClicks = 2
    MaxFaults = 1
INVARIANT AlwaysHasDetails
\* INVARIANT CrossMeansFailed
\* INVARIANT ApprovalsAreOwn
\* PROPERTY AppBarShows
