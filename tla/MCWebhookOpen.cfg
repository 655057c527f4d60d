\* What the code does not ensure: TLC refutes each of the definitions at the end, one at a time.
CHECK_DEADLOCK FALSE
SPECIFICATION Spec
CONSTANTS
    Account = {a1, a2}
    User = {u1, u2}
    Channel = {c1, c2}
    Label = {l1}
    Spells <- MCSpells
    Hook = {h1}
    None = None
    u1 = u1
    c1 = c1
    c2 = c2
    l1 = l1
    Scenes <- PublicScenes
    MaxEvents = 1
    MaxMentions = 1
    MaxChanges = 0
INVARIANT FailedPipelineIsTold
\* INVARIANT IssueAssignedIsTold
\* INVARIANT ReviewRequestIsTold
\* INVARIANT SenderNotTold
\* INVARIANT ClosedMeansClosed
\* INVARIANT OnlyAsked
\* INVARIANT ConfidentialByFeature
\* INVARIANT ConfidentialNotesAsked
\* With MaxChanges = 2:
\* INVARIANT ConnectedIsReached
