\* One repository used by two requests: concurrent cache accesses.
SPECIFICATION Spec
CONSTANTS
    Procs = {p1, p2}
    Ids = {i1, i2}
    Names = {n1, n2}
    EmptyName = noName
    None = None
    Vers <- Versions
    InitialVersion = 1
    r1 = r1
    l1 = l1
    Repos = {r1}
    Locks = {l1}
    RepoOf <- OneRepo
    LockOf <- OneLock
    CacheSize = 2
    Ops <- AllButUpdate
    MaxFaults = 0
SYMMETRY Symmetry
INVARIANT NoCacheRace
CHECK_DEADLOCK FALSE
