---------------------------- MODULE DomainStore ----------------------------
(***************************************************************************)
(* One DomainStore from create() to the end of its compilation: a list of   *)
(* put (or put_alias) calls on an empty store, in any order.  What a query  *)
(* is answered is compared with a definition that never mentions keys: the  *)
(* rules that cover the queried name, and the most specific one of them.    *)
(***************************************************************************)
EXTENDS Lookup, SequencesExt

CONSTANTS
    Rule,       \* the names the parsers hand to put and put_alias
    Query,      \* the names queries ask for, as LowerName prints them
    MaxPuts     \* bound on the number of calls of one behaviour

ASSUME RuleAssumption  == Rule \subseteq DomainName
ASSUME QueryAssumption == /\ Query \subseteq DomainName
                          /\ \A q \in Query : q.dot
ASSUME MaxPutsAssumption == MaxPuts \in Nat
ASSUME ValueAssumption == /\ True \notin DomainName
                          /\ None \notin DomainName \cup {True}

VARIABLES
    kv,         \* the key-value pairs in RocksDB
    puts        \* the number of calls so far
vars == <<kv, puts>>

Value == {True} \cup DomainName

TypeOK ==
    /\ DOMAIN kv \subseteq DomainName
    /\ \A n \in DOMAIN kv : n.dot /\ kv[n] \in Value
    /\ puts \in 0 .. MaxPuts

Init == kv = EmptyStore /\ puts = 0

Put(rule) ==
    /\ puts < MaxPuts
    /\ kv' = put(kv, rule)
    /\ puts' = puts + 1

PutAlias(rule, alias) ==
    /\ puts < MaxPuts
    /\ kv' = put_alias(kv, rule, alias)
    /\ puts' = puts + 1

Next ==
    \/ \E rule \in Rule : Put(rule)
    \/ \E rule, alias \in Rule : PutAlias(rule, alias)

Spec == Init /\ [][Next]_vars
-----------------------------------------------------------------------------
(***************************************************************************)
(* The reference definition.  A rule without a wildcard covers its own name *)
(* only.  A rule "*.z" covers the names strictly below z, at any depth, and *)
(* not z itself; it also covers the query that spells the wildcard out.     *)
(***************************************************************************)
Wildcard(z) == Qualified(<<Star>> \o z)

Zones(q) == {z \in Suffixes(q.labels) : z # <<>> /\ z # q.labels}

Covers(rule, q) == rule = q \/ \E z \in Zones(q) : rule = Wildcard(z)

Covering(store, q) == {rule \in DOMAIN store : Covers(rule, q)}

\* The exact rule beats every wildcard, a longer wildcard beats a shorter one.
Beats(r1, r2, q) ==
    r1 # r2 => \/ r1 = q
               \/ r2 # q /\ Len(r1.labels) > Len(r2.labels)

\* A query is answered by the most specific rule that covers it, and by none
\* exactly when no rule covers it: the key list of DomainStore::get neither
\* misses a zone, nor probes the apex of a wildcard, nor lets a shorter
\* wildcard win over a longer one.
LookupIsMostSpecific ==
    \A q \in Query :
        LET covering == Covering(kv, q) IN
        IF covering = {} THEN get(kv, q) = None
        ELSE \E rule \in covering :
                /\ get(kv, q) = kv[rule]
                /\ \A other \in covering : Beats(rule, other, q)

\* Storing a rule never removes a name from the list, and changes the answer
\* to a query only when that rule covers the query: rules of one zone cannot
\* leak into the answers about another.
PutIsLocal ==
    [][\A q \in Query :
        /\ contains(kv, q) => contains(kv, q)'
        /\ get(kv, q) # get(kv, q)' =>
              \E rule \in DOMAIN kv' : /\ Covers(rule, q)
                                       /\ rule \in DOMAIN kv => kv'[rule] # kv[rule]]_vars
=============================================================================
