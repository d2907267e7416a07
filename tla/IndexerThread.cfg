SPECIFICATION FairSpec
CONSTANTS
    Artists = {a1, a2, a3, a4, a5}
    num_threads = 2
    NUM_ROWS_PER_COMMIT = 3
    Faults = TRUE
    MaxDeaths = 2
INVARIANTS TypeOK EachArtistOnce BatchBuilt FinishedComplete LossBounded
PROPERTIES RowsKept RunEnds
CHECK_DEADLOCK FALSE
