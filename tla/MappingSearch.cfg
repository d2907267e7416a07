SPECIFICATION FaultSpec
CONSTANTS
    ArtistNames <- MCArtistNames
    ReleaseNames <- MCReleaseNames
    RecordingNames <- MCRecordingNames
    NoName = ""
    Encodable <- MCEncodable
    Clean <- MCClean
    ArtistIds = {3, 4}
    ReleaseIds = {21, 22, 23, 24}
    RecordingIds = {11, 12, 13, 14, 15}
    Databases <- FruitfulDatabases
    Threshold = 70
    DbFaults = TRUE
    None = None
INVARIANTS TypeOK EvaluateReady CanonicalFresh AnswerGenuine
PROPERTIES RefinesLookup SearchTerminates
CHECK_DEADLOCK FALSE
