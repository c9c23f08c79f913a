\* As wire.go builds them: a repository, a lock and a cache per request.
SPECIFICATION Spec
CONSTANTS
    Procs = {p1, p2}
    Ids = {i1, i2}
    Names = {n1, n2}
    EmptyName = noName
    None = None
    Vers <- Versions
    InitialVersion = 1
    r1 = r1
    l1 = l1
    Repos = {p1, p2}
    Locks = {p1, p2}
    RepoOf <- OwnRepo
    LockOf <- OwnLock
    CacheSize = 1
    Ops <- WiredOps
    MaxFaults = 0
SYMMETRY Symmetry
INVARIANT AckedAdd
CHECK_DEADLOCK FALSE
