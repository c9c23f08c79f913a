\* Three names, two values and capacities 0 to 2, for every sequence of five calls.
SPECIFICATION Spec
CONSTANTS
    Keys = {k1, k2, k3}
    Values = {v1, v2}
    MaxCapacity = 2
    MaxCalls = 5
INVARIANTS LatestValue Bounded
PROPERTIES EvictsOldest
CHECK_DEADLOCK FALSE
