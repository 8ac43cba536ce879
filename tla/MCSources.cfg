CONSTANTS
    None = None
    Unreadable = Unreadable
    Url <- MCUrl
    File <- MCFile
    ConfigUrl <- MCConfigUrl
    Path <- MCPath
    Beside <- MCBeside
    Joined <- MCJoined
    Parsed <- MCParsed
    Text <- MCText
    Holds <- MCHolds
    RawConfig <- MCRawConfig
    ErrorPage = "404"
    Attempts = 5
    MaxChanges = 2
SPECIFICATION FairSpec
INVARIANTS
    TypeOK
    OneConfiguration
    TextAsPublished
    LocalFilesDecide
PROPERTY
    UpdateEnds
