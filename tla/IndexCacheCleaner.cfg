SPECIFICATION FairSpec
CONSTANTS
    Threads = {t1, t2}
    CleanerThread = cleanerThread
    OwnerThread = ownerThread
    Artists = {a1, a2, a3}
    Objects = {o1, o2, o3}
    None = None
    CleanerStarted = TRUE
    MaxMemoryUsage = 2
    Baseline = 1
    EvictBatch = 2
    MaxTime = 0
INVARIANTS TypeOK KeysMatch OwnedOnce DestroyedFreesAll
PROPERTIES LockReleased DestructorEnds TrimsWhenQuiet
CHECK_DEADLOCK FALSE
