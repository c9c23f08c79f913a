\* Two concurrent requests that create and update one policy.
SPECIFICATION Spec
CONSTANTS
    k1 = k1
    p1 = p1
    Keys = {k1}
    Policies = {p1}
    EmptyName = EmptyName
    Tokens <- AllTokens
    Contexts = {x1}
    Calls <- PolicyCalls
    Requests = {r1, r2}
    MaxVersions = 3
    None = None
PROPERTIES StaleRefused
CHECK_DEADLOCK FALSE
