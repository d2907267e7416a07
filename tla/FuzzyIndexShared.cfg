SPECIFICATION Spec
CONSTANTS
    Threads = {t1, t2}
    Contents <- MCSharedContents
    Queries <- MCSharedQueries
    Space = 0
    GramLength = 2
    MaxEncoded = 3
    FirstK = 2
    MaxK = 4
    MinConfidence = 70
    Idf <- MCIdf
    None = None
INVARIANTS NoDataRace
CHECK_DEADLOCK FALSE
