\* What the code does not ensure: TLC refutes each of the definitions at the end, one at a time.
SPECIFICATION Spec
CHECK_DEADLOCK FALSE
CONSTANTS
    Account = {a1, a2}
    Channel = {c1, c2}
    Home = c1
    None = None
    MaxSteps = 3
    MaxFaults = 1
SYMMETRY Symmetry
INVARIANT ConnectionOutlivesAnswer
\* INVARIANT ConnectionOutlivesOverlap
\* INVARIANT ConnectionOutlivesFailure
\* INVARIANT ListsAreOwn
\* INVARIANT NoSubscriptionsShown
