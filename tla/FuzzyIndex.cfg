SPECIFICATION Spec
CONSTANTS
    Threads = {t1}
    Contents <- MCContents
    Queries <- MCQueries
    Space = 0
    GramLength = 2
    MaxEncoded = 3
    FirstK = 2
    MaxK = 4
    MinConfidence = 70
    Idf <- MCIdf
    None = None
INVARIANTS TypeOK VectorStable BestKept ExactFound
CHECK_DEADLOCK FALSE
