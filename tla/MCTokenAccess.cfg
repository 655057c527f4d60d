CHECK_DEADLOCK FALSE
SPECIFICATION FairSpec
CONSTANTS
    Worker = {w1, w2}
    Account = {a1}
    None = None
    MaxToken = 3
    MaxFaults = 1
INVARIANTS
    TypeOK
    NoReplay
    CredentialKept
PROPERTY LockReleased
