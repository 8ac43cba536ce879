CONSTANTS
    Ip <- BitsIp
    ipv4_prefix = 1
    ipv6_prefix = 2
    rps = 2
SPECIFICATION Spec
INVARIANTS
    TypeOK
    RefusedForOwnTraffic
    GroupSharesBucket
