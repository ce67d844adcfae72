SPECIFICATION Spec
CONSTANTS
    Routes <- Routes1
    Documents <- Docs
    IndexHtml <- Index
    Calls <- MCCalls
    UploadView = "upload"
    Store <- Top
    File = "file"
    Sizes = {0, 2, 3}
    ChunkSize = 2
    NONE = NONE
    Locked = Locked
    Hidden = Hidden
    MaxRequests = 2
    MaxChanges = 2
CHECK_DEADLOCK FALSE
INVARIANTS MatchedIsServed ParametersArrive
PROPERTIES LengthIsWritten Answered
