SPECIFICATION ClientSpec
CHECK_DEADLOCK FALSE
CONSTANTS
    Project = {p1, p2}
    Group = {g1, g2}
    Nothing = Nothing
    List = {"reviews", "todos"}
    PageSize = 1
    MaxItems = 1
    MaxChanges = 1
    MaxFailures = 1
    Totals = {TRUE}
INVARIANTS ClientInv AnswerFits
PROPERTY EveryCallAnswered
