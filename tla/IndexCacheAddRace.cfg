SPECIFICATION Spec
CONSTANTS
    Threads = {t1, t2}
    CleanerThread = cleanerThread
    OwnerThread = ownerThread
    Artists = {a1, a2}
    Objects = {o1, o2, o3}
    None = None
    CleanerStarted = FALSE
    MaxMemoryUsage = 1
    Baseline = 1
    EvictBatch = 1
    MaxTime = 1
SYMMETRY Interchangeable
INVARIANTS NoUseAfterFree
CHECK_DEADLOCK FALSE
