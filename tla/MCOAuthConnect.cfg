CHECK_DEADLOCK FALSE
SPECIFICATION FairSpec
CONSTANTS
    n1 = n1
    n2 = n2
    u1 = u1
    u2 = u2
    r1 = r1
    r2 = r2
    Node = {n1, n2}
    User = {u1, u2}
    Request = {r1, r2}
    Callback = {c1, c2}
    Owners <- BothOwners
    None = None
    MaxCalls = 2
    MaxFaults = 1
INVARIANTS
    OAuthInv
    SuccessIsHeard
    StateUsedOnce
PROPERTY SubscriptionEnds
