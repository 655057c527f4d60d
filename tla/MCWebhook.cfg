CHECK_DEADLOCK FALSE
SPECIFICATION Spec
CONSTANTS
    Account = {a1, a2}
    User = {u1, u2}
    Channel = {c1, c2}
    Label = {l1}
    Spells <- MCSpells
    Hook = {h1}
    None = None
    u1 = u1
    c1 = c1
    c2 = c2
    l1 = l1
    Scenes <- AllScenes
    MaxEvents = 1
    MaxMentions = 1
    MaxChanges = 1
SYMMETRY Symmetry
INVARIANTS
    WebhookInv
    AssignedIsTold
    ConfidentialAsked
PROPERTY PostsStayInside
