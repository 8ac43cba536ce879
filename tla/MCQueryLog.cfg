CONSTANTS
    Task = {t1, t2}
    Ip = {ip1, ip2}
    Nothing = Nothing
    MAX_AGE = 2
    MAX_PER_IP = 3
    MaxLag = 1
    MaxTime = 5
    Page = {p1}
SPECIFICATION SpecA
SYMMETRY Symmetry
INVARIANTS
    TypeOK
    CapPerIp
    SkewBounded
    ActiveUpToLag
    PageCountsViewer
PROPERTY
    FreshLostOnlyAtCap
