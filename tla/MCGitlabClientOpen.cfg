\* What the code does not ensure: TLC refutes each of the definitions at the end, one at a time.
SPECIFICATION ClientSpec
CHECK_DEADLOCK FALSE
CONSTANTS
    Project = {p1}
    Group = {g1, g2}
    Nothing = Nothing
    List = {"reviews", "todos"}
    PageSize = 1
    MaxItems = 2
    MaxChanges = 1
    MaxFailures = 1
    Totals = {TRUE, FALSE}
SYMMETRY Symmetry
INVARIANT FailureIsReported
\* INVARIANT ClientFollowsLock
\* INVARIANT TodosAreTold
\* INVARIANT LabelsOrError
\* INVARIANT ProjectsComplete
\* INVARIANT LockHoldsByNumber
