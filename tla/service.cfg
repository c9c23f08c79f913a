\* Two concurrent requests: who may do and learn what, with authorization on; what
\* becomes of artefacts while keys change, with it off; updates of a policy.
SPECIFICATION Spec
CONSTANTS
    k1 = k1
    p1 = p1
    Keys = {k1}
    Policies = {p1}
    EmptyName = EmptyName
    Tokens <- AllTokens
    Contexts = {x1, x2}
    Calls <- AllCalls
    Requests = {r1, r2}
    MaxVersions = 3
    None = None
SYMMETRY Interchangeable
CONSTRAINT Followed
INVARIANTS NothingLearned RoundTrip
PROPERTIES EffectsAuthorized LostOnlyInRace
CHECK_DEADLOCK FALSE
