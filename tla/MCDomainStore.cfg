CONSTANTS
    a = a
    b = b
    Star = Star
    None = None
    Label <- MCLabel
    True = True
    Rule <- MCRule
    Query <- MCQuery
    MaxPuts = 3
SPECIFICATION Spec
INVARIANTS
    TypeOK
    LookupIsMostSpecific
PROPERTY
    PutIsLocal
CHECK_DEADLOCK FALSE
