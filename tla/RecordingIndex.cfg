SPECIFICATION Spec
CONSTANTS
    Artist = 3
    NoText = ""
    Encode <- MCEncode
    Mappings <- MCMappings
    AliasTables <- MCAliasTables
    DbFaults = TRUE
INVARIANTS RowsFound LinksGenuine CanonicalFound
CHECK_DEADLOCK FALSE
