\* One storage call may fail; every method but DeleteKey is all or nothing.
SPECIFICATION Spec
CONSTANTS
    Procs = {p1, p2}
    Ids = {i1, i2}
    Names = {n1, n2}
    EmptyName = noName
    None = None
    Vers <- Versions
    InitialVersion = 1
    r1 = r1
    l1 = l1
    Repos = {r1}
    Locks = {l1}
    RepoOf <- OneRepo
    LockOf <- OneLock
    CacheSize = 1
    Ops <- AtomicOps
    MaxFaults = 1
SYMMETRY Symmetry
INVARIANTS AckedWrite
PROPERTIES Linearizable
CHECK_DEADLOCK FALSE
