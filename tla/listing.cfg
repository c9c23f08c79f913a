\* One client walking through up to three keys.
SPECIFICATION Spec
CONSTANTS
    Names <- ThreeNames
    Attributes = {policy, provider}
    Values = {v1, v2}
    Any = Any
    Mutable = {provider}
    Walkers = {w1}
    PageSizes <- Sizes
    None = None
INVARIANTS WalkComplete TokenAccepted ExactlyOnce
CHECK_DEADLOCK FALSE
