SPECIFICATION Spec
CONSTANTS
    Credits = {2, 3, 4, 5}
    Names <- MCNames
    Latin <- MCLatin
    Encode <- MCEncode
    EncodeStupid <- MCEncodeStupid
    Sources <- MCSources
    Multiline <- MCMultiline
    Faults = TRUE
    None = None
INVARIANTS TypeOK SuccessStarts NamesFound NothingStale MappedIndexed
PROPERTIES StaysLoadable
