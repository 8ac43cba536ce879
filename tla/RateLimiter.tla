---------------------------- MODULE RateLimiter ----------------------------
(***************************************************************************)
(* The rate limiter (src/src/rate_limiter.rs): clients are grouped by the   *)
(* prefix of their address, and each group has a token bucket of governor's *)
(* keyed rate limiter.  The handler asks it once for every request.         *)
(*                                                                          *)
(* An address is the sequence of its digits, most significant first.  With  *)
(* bits for digits this is exact; 16-bit groups serve as well as long as    *)
(* the prefix lengths are multiples of 16.  The sockets are bound IPv6-only *)
(* (net.rs), so no IPv4-mapped address arrives and normalize_ip of the      *)
(* handler has nothing to do.                                               *)
(*                                                                          *)
(* governor refills a bucket of Quota::per_second(rps) by one token every   *)
(* 1/rps seconds: that is the unit of time, and rps units are one second.   *)
(***************************************************************************)
EXTENDS Integers, Sequences, FiniteSetsExt

CONSTANTS
    Ip,             \* client addresses: [family, digits]
    ipv4_prefix,    \* prefix lengths, in digits
    ipv6_prefix,
    rps             \* requests per second and group; 0 for no limit

Family == {"v4", "v6"}

ASSUME IpAssumption ==
    /\ Ip \subseteq [family: Family, digits: Seq(Nat)]
    /\ \A a, b \in Ip : a.family = b.family => Len(a.digits) = Len(b.digits)
ASSUME PrefixAssumption == ipv4_prefix \in Nat /\ ipv6_prefix \in Nat
ASSUME RateAssumption == rps \in Nat

VARIABLES
    tokens,     \* what is left in the bucket of each group seen so far
    admitted    \* history: the requests of the last second that were admitted
vars == <<tokens, admitted>>

Age == 0 .. rps - 1     \* the last second

\* An admitted request, with the level of the bucket it took a token from:
\* between two refills a bucket only sinks, so that no two are the same.
Admission == [ip: Ip, level: 1 .. rps, age: Age]
Admitted(ip, level) == [ip |-> ip, level |-> level, age |-> 0]

Init == tokens = [key \in {} |-> 0] /\ admitted = {}
-----------------------------------------------------------------------------
prefix(ip) == IF ip.family = "v4" THEN ipv4_prefix ELSE ipv6_prefix

\* Faulty variant of mask_ip: a prefix one digit short of the whole address is
\* taken for the whole address.
mask_ip_off_by_one(ip) ==
    LET width == Len(ip.digits) IN
    IF prefix(ip) >= width - 1 THEN ip
    ELSE [ip EXCEPT !.digits = [i \in DOMAIN @ |-> IF i <= prefix(ip) THEN @[i] ELSE 0]]

\* Faulty variant of mask_ip: the prefix is masked out instead of the rest.
mask_ip_inverted(ip) ==
    [ip EXCEPT !.digits = [i \in DOMAIN @ |-> IF i <= prefix(ip) THEN 0 ELSE @[i]]]

\* The low digits are masked out.  MAX << (width - prefix) shifts modulo the
\* width in a release build, so that with prefix 0 nothing is masked.
mask_ip(ip) ==
    LET width == Len(ip.digits)
        shift == (width - prefix(ip)) % width
    IN IF prefix(ip) >= width THEN ip
       ELSE [ip EXCEPT !.digits =
                [i \in DOMAIN @ |-> IF i <= width - shift THEN @[i] ELSE 0]]

\* A group that has not been seen has a full bucket.
Level(key) == IF key \in DOMAIN tokens THEN tokens[key] ELSE rps

Refused(ip) == rps # 0 /\ Level(mask_ip(ip)) = 0

\* Faulty variant of check_key: the bucket is checked after the token is taken.
check_key_late(ip) ==
    LET key == mask_ip(ip) IN
    /\ Level(key) >= 0
    /\ tokens' = [k \in DOMAIN tokens \cup {key} |->
                    IF k = key THEN Level(key) - 1 ELSE tokens[k]]
    /\ admitted' = admitted \cup {Admitted(ip, Level(key))}

\* A request of ip.  A refused one costs nothing.
check_key(ip) ==
    LET key == mask_ip(ip) IN
    IF Refused(ip) \/ rps = 0 THEN UNCHANGED vars
    ELSE /\ tokens' = [k \in DOMAIN tokens \cup {key} |->
                        IF k = key THEN Level(key) - 1 ELSE tokens[k]]
         /\ admitted' = admitted \cup {Admitted(ip, Level(key))}

\* 1/rps seconds pass.
Refill ==
    /\ tokens' = [k \in DOMAIN tokens |-> Min({rps, tokens[k] + 1})]
    /\ admitted' = {[e EXCEPT !.age = @ + 1] : e \in {a \in admitted : a.age < rps - 1}}

Next == Refill \/ \E ip \in Ip : check_key(ip)

Spec == Init /\ [][Next]_vars
-----------------------------------------------------------------------------
(***************************************************************************)
(* Properties, in terms of prefixes and not of the keys.                    *)
(***************************************************************************)
TypeOK ==
    /\ \A key \in DOMAIN tokens : /\ key.family \in Family
                                  /\ tokens[key] \in 0 .. rps
    /\ admitted \subseteq Admission

SamePrefix(a, b) ==
    /\ a.family = b.family
    /\ \A i \in DOMAIN a.digits : i <= prefix(a) => a.digits[i] = b.digits[i]

Group(ip) == {other \in Ip : SamePrefix(ip, other)}

\* Requests of a group admitted in the last second.
InLastSecond(group) == Cardinality({e \in admitted : e.ip \in group})

\* A client is only ever refused for what its own group has been sending: it
\* takes rps admitted requests of the group within a second, and no traffic of
\* other prefixes, or of the other address family, can use up its tokens.
RefusedForOwnTraffic ==
    \A ip \in Ip : Refused(ip) => InLastSecond(Group(ip)) >= rps

\* A prefix is one client however many addresses it uses: together they have
\* no more than a full bucket and what is refilled within the second.  (With
\* prefix length 0 nothing is masked and each address is a client of its own.)
GroupSharesBucket ==
    \A ip \in Ip :
        rps # 0 /\ prefix(ip) # 0 => InLastSecond(Group(ip)) <= 2 * rps - 1
=============================================================================
