SPECIFICATION Spec
SYMMETRY Symmetry
CHECK_DEADLOCK FALSE
CONSTANTS
    User = {u1, u2}
    Account = {a1, a2}
    Worker = {w1, w2}
    None = None
    MaxDay = 1
    MaxOps = 4
    MaxFaults = 1
    Revocation = {TRUE}
INVARIANTS TypeOK OwnAccountOnly ConnectionConsistent OneReminderADay
