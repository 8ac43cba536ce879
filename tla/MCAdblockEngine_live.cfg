CONSTANTS
    x = x
    top = top
    Star = Star
    True = True
    None = None
    Label <- MCLabel
    Reader = {r1}
    Db = {d1, d2}
    Query <- MCQuery
    Source <- LiveSource
    Revision <- MCRevision
    Parsed <- LiveParsed
    Config <- LiveConfig
SPECIFICATION FairSpec
PROPERTIES
    ImplementsPolicyService
    EventuallyUpToDate
    EventuallyDestroyed
    QueryAnswered
