------------------------------- MODULE Lookup -------------------------------
(***************************************************************************)
(* The key-value semantics of one DomainStore (src/src/db.rs): how a name   *)
(* becomes a key when a rule is stored, and which keys a query probes.      *)
(*                                                                          *)
(* A name is its sequence of labels and whether it is written with the      *)
(* trailing dot of a fully qualified name: "*.a.com" is                     *)
(* [labels |-> <<Star, "a", "com">>, dot |-> FALSE].  The content of a      *)
(* store is a partial function kv from names to values: True in the         *)
(* blacklist and the whitelist, the name of the alias in the rewrites.      *)
(***************************************************************************)
EXTENDS Integers, Sequences, FiniteSetsExt

CONSTANTS
    Label,      \* the labels names are made of
    Star,       \* the wildcard label "*"
    True,       \* the value "true" that put stores
    None        \* Option::None

ASSUME StarAssumption == Star \notin Label

AnyLabel == Label \cup {Star}
DomainName == [labels: Seq(AnyLabel), dot: BOOLEAN]

\* A rule as the parsers hand it over and as a query names a domain.
Unqualified(labels) == [labels |-> labels, dot |-> FALSE]
Qualified(labels)   == [labels |-> labels, dot |-> TRUE]
-----------------------------------------------------------------------------
\* Faulty variant of normalize_name: names are stored as the lists spell them.
normalize_name_skipped(name) == name

\* normalize_name: the dot is added unless it is there already.
normalize_name(name) == [name EXCEPT !.dot = TRUE]

\* Faulty variant of star_key: the suffix is taken one label too early.
star_key_off_by_one(domain, i) ==
    Qualified(<<Star>> \o SubSeq(domain.labels, i, Len(domain.labels)))

\* The wildcard key "*.<labels after the i-th>." of the loop of get.
star_key(domain, i) ==
    Qualified(<<Star>> \o SubSeq(domain.labels, i + 1, Len(domain.labels)))

\* The keys get probes, in order: the name as it was given, then the wildcard
\* of each proper suffix, the longest suffix first.  Key 0 is the name itself.
keys(domain) ==
    [i \in {0} \cup 1 .. (Len(domain.labels) - 1) |->
        IF i = 0 THEN domain ELSE star_key(domain, i)]

\* The first key that is stored answers the query.
Hits(kv, domain) == {i \in DOMAIN keys(domain) : keys(domain)[i] \in DOMAIN kv}

\* Faulty variant of get: the shortest wildcard that is stored answers.
get_shortest(kv, domain) ==
    IF Hits(kv, domain) = {} THEN None
    ELSE kv[keys(domain)[Max(Hits(kv, domain))]]

get(kv, domain) ==
    IF Hits(kv, domain) = {} THEN None
    ELSE kv[keys(domain)[Min(Hits(kv, domain))]]

contains(kv, domain) == get(kv, domain) # None
-----------------------------------------------------------------------------
EmptyStore == [n \in {} |-> True]

\* A write replaces the value of the key or adds the key.
Write(kv, key, value) ==
    [n \in DOMAIN kv \cup {key} |-> IF n = key THEN value ELSE kv[n]]

put(kv, domain) == Write(kv, normalize_name(domain), True)

put_alias(kv, domain, alias) ==
    Write(kv, normalize_name(domain), normalize_name(alias))
=============================================================================
