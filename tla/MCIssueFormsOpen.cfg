\* What the code does not ensure: TLC refutes each of the definitions at the end, one at a time.
SPECIFICATION FormsSpec
CHECK_DEADLOCK FALSE
CONSTANTS
    p1 = p1
    p2 = p2
    v1 = v1
    v2 = v2
    Post = {o1}
    CommandChannel = {c1}
    Project = {p1, p2}
    Issue = {i1}
    Value = {v1, v2}
    Offers <- MCOffers
    Kind = {"labels", "milestone"}
    None = None
    MaxForms = 2
    MaxChoices = 3
    MaxSubmits = 2
    MaxFaults = 1
INVARIANT CreatedOnce
\* INVARIANT MilestoneFits
\* INVARIANT AttributesOfProject
\* INVARIANT ReplyWhereAsked
\* PROPERTY AnswerClosesOwn
\* PROPERTY ChoiceKept
