SPECIFICATION Spec
CONSTANTS
    Threads = {t1, t2, t3}
    CleanerThread = cleanerThread
    OwnerThread = ownerThread
    Artists = {a1, a2}
    Objects = {o1, o2, o3, o4, o5}
    None = None
    CleanerStarted = FALSE
    MaxMemoryUsage = 1
    Baseline = 1
    EvictBatch = 1
    MaxTime = 1
SYMMETRY Interchangeable
INVARIANTS OwnedOnce UsedArtistCached
PROPERTIES InUseStaysCached
CHECK_DEADLOCK FALSE
