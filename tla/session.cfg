SPECIFICATION FairSpec
CONSTANTS
    Caller = {"sync", "stream"}
    Stream = "stream"
    NoTokens = NoTokens
    maxBackoff = 12
    MaxEvents = 4
INVARIANTS
    NoFalseTheft
    LogOutClears
    BlobOpens
PROPERTIES
    StreamReconnects
CHECK_DEADLOCK FALSE
