\* One repository used by two requests, GetKeyByName included.
SPECIFICATION FairSpec
CONSTANTS
    Procs = {p1, p2}
    Ids = {i1}
    Names = {n1}
    EmptyName = noName
    None = None
    Vers <- Versions
    InitialVersion = 1
    r1 = r1
    l1 = l1
    Repos = {r1}
    Locks = {l1}
    RepoOf <- OneRepo
    LockOf <- OneLock
    CacheSize = 1
    Ops <- AllButUpdate
    MaxFaults = 0
PROPERTIES CallsReturn
CHECK_DEADLOCK FALSE
