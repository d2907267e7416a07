SPECIFICATION Spec
CONSTANTS
    ArtistNames <- MCArtistNames
    ReleaseNames <- MCReleaseNames
    RecordingNames <- MCRecordingNames
    NoName = ""
    Encodable <- MCEncodable
    Clean <- MCClean
    ArtistIds = {3, 4}
    ReleaseIds = {21, 22, 23, 24}
    RecordingIds = {11, 12, 13, 14, 15}
    Databases <- CompleteDatabases
    Threshold = 70
    DbFaults = FALSE
    None = None
INVARIANTS NoCrash
CHECK_DEADLOCK FALSE
