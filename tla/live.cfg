\* Every method except GetKeyByName returns, one storage call failing anywhere; what
\* that failure leaves behind.
SPECIFICATION FairSpec
CONSTANTS
    Procs = {p1, p2}
    Ids = {i1}
    Names = {n1, n2}
    EmptyName = noName
    None = None
    Vers <- Versions
    InitialVersion = 1
    r1 = r1
    l1 = l1
    Repos = {r1}
    Locks = {l1}
    RepoOf <- OneRepo
    LockOf <- OneLock
    CacheSize = 1
    Ops <- NoNameReads
    MaxFaults = 1
INVARIANTS NoDangling AckedWrite
PROPERTIES CallsReturn
