CONSTANTS
    x = x
    top = top
    Star = Star
    True = True
    None = None
    Label <- MCLabel
    Reader = {r1}
    Db = {d1, d2, d3}
    Query <- MCQuery
    Source <- MCSource
    Revision <- MCRevision
    Parsed <- MCParsed
    Config <- MCConfig
SPECIFICATION SpecH
INVARIANT
    InFlightUnaffected
