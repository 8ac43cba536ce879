CONSTANTS
    x = x
    top = top
    Star = Star
    True = True
    None = None
    Nothing = Nothing
    Label <- MCLabel
    Task = {t1}
    Ip = {ip1, ip2}
    Query <- MCQuery
    QueryType = {"A", "MX"}
    Published <- MCPublished
    MAX_AGE = 1
    MAX_PER_IP = 1
    MaxLag = 1
    MaxTime = 1
SPECIFICATION FairSpec
INVARIANTS
    TypeOK
    OneResponse
    TreatedByPolicy
PROPERTIES
    EveryRequestEnds
    LoggedAfterAnswer
