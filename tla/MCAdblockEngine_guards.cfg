CONSTANTS
    x = x
    top = top
    Star = Star
    True = True
    None = None
    Label <- MCLabel
    Reader = {r1, r2}
    Db = {d1, d2, d3, d4, d5}
    Query <- MCQuery
    Source <- GuardSource
    Revision <- MCRevision
    Parsed <- GuardParsed
    Config <- GuardConfig
SPECIFICATION Spec
SYMMETRY Symmetry
INVARIANTS
    TypeOK
    OpenExactlyHeld
    BuildInvisible
    OpenBound
PROPERTY
    PublishedImmutable
