------------------------- MODULE DomainStore_proofs -------------------------
(***************************************************************************)
(* A store answers every query from the most specific rule that covers it,  *)
(* for every alphabet, every set of rules and queries and any number of     *)
(* calls: nothing below depends on the bound on the calls.                  *)
(***************************************************************************)
EXTENDS DomainStore, SequenceTheorems, FiniteSetTheorems, WellFoundedInduction, TLAPS

\* Every set of natural numbers but the empty one has a least element.
LEMMA LeastNat ==
    ASSUME NEW T \in SUBSET Nat, T # {}
    PROVE  Min(T) \in T /\ \A y \in T : Min(T) <= y
<1> DEFINE less == {ss \in Nat \X Nat : ss[1] < ss[2]}
<1>1. IsWellFoundedOn(less, Nat)
  BY NatLessThanWellFounded DEF OpToRel
<1>2. PICK x \in T : \A y \in T : <<y, x>> \notin less
  <2> HIDE DEF less
  <2> QED
    BY <1>1, WFMin
<1>3. ASSUME NEW y \in T PROVE x <= y
  <2>1. y < x => <<y, x>> \in less
    OBVIOUS
  <2> QED
    BY <1>2, <2>1
<1> QED
  BY <1>3 DEF Min

\* Normalization yields a name with the final dot.
LEMMA Normalized ==
    ASSUME NEW n \in DomainName
    PROVE  normalize_name(n) \in DomainName /\ normalize_name(n).dot
BY DEF normalize_name, DomainName

\* The zones of a query are its proper suffixes, none of them empty.
LEMMA ZonesAreSuffixes ==
    ASSUME NEW q \in DomainName
    PROVE  Zones(q) = {SubSeq(q.labels, i + 1, Len(q.labels)) :
                            i \in 1 .. (Len(q.labels) - 1)}
<1> DEFINE n == Len(q.labels)
           suffix(i) == SubSeq(q.labels, i, n)
<1>1. q.labels \in Seq(AnyLabel) /\ n \in Nat
  BY DEF DomainName
<1>2. \A i \in 1 .. n : suffix(i) \in Seq(AnyLabel) /\ Len(suffix(i)) = n - i + 1
  BY <1>1, SubSeqProperties, ElementOfSeq
<1>3. suffix(1) = q.labels
  BY <1>1, SubSeqFull
<1>4. ASSUME NEW z \in Zones(q) PROVE \E i \in 1 .. (n - 1) : z = suffix(i + 1)
  <2>1. PICK l \in 1 .. n : z = suffix(l)
    BY DEF Zones, Suffixes
  <2>2. l # 1
    BY <2>1, <1>3 DEF Zones
  <2>3. l - 1 \in 1 .. (n - 1) /\ (l - 1) + 1 = l
    BY <1>1, <2>2
  <2> QED
    BY <2>1, <2>3
<1>5. ASSUME NEW i \in 1 .. (n - 1) PROVE suffix(i + 1) \in Zones(q)
  <2>1. i + 1 \in 1 .. n
    BY <1>1
  <2>2. Len(suffix(i + 1)) = n - i
    BY <2>1, <1>2, <1>1
  <2>3. suffix(i + 1) # <<>> /\ suffix(i + 1) # q.labels
    <3>1. n - i # 0 /\ n - i # n
      BY <1>1
    <3>2. Len(<<>>) = 0 /\ Len(q.labels) = n
      BY EmptySeq
    <3> HIDE DEF n, suffix
    <3> QED
      BY <2>2, <3>1, <3>2
  <2>4. suffix(i + 1) \in Suffixes(q.labels)
    BY <2>1 DEF Suffixes
  <2> QED
    BY <2>3, <2>4 DEF Zones
<1> QED
  BY <1>4, <1>5

\* The keys get probes are exactly the rules that cover the query.
LEMMA KeysAreCovers ==
    ASSUME NEW q \in DomainName, NEW rule
    PROVE  Covers(rule, q) <=> \E i \in DOMAIN keys(q) : rule = keys(q)[i]
<1> DEFINE n == Len(q.labels)
<1>1. n \in Nat /\ DOMAIN keys(q) = {0} \cup 1 .. (n - 1)
  BY DEF DomainName, keys
<1>2. keys(q)[0] = q
  BY DEF keys
<1>3. \A i \in 1 .. (n - 1) :
        keys(q)[i] = Wildcard(SubSeq(q.labels, i + 1, n))
  BY <1>1 DEF keys, star_key, Wildcard
<1>4. Covers(rule, q) <=>
        \/ rule = q
        \/ \E i \in 1 .. (n - 1) : rule = Wildcard(SubSeq(q.labels, i + 1, n))
  BY ZonesAreSuffixes DEF Covers
<1> QED
  BY <1>1, <1>2, <1>3, <1>4

\* A wildcard that is probed earlier is longer.
LEMMA EarlierIsLonger ==
    ASSUME NEW q \in DomainName,
           NEW i \in DOMAIN keys(q), NEW j \in DOMAIN keys(q), 0 < i, i < j
    PROVE  Len(keys(q)[i].labels) > Len(keys(q)[j].labels)
<1> DEFINE n == Len(q.labels)
           suffix(k) == SubSeq(q.labels, k + 1, n)
<1>1. q.labels \in Seq(AnyLabel) /\ n \in Nat
  BY DEF DomainName
<1>2. i \in 1 .. (n - 1) /\ j \in 1 .. (n - 1)
  BY <1>1 DEF keys
<1>3. ASSUME NEW k \in 1 .. (n - 1)
      PROVE  Len(keys(q)[k].labels) = 1 + (n - k)
  <2>1. suffix(k) \in Seq(AnyLabel) /\ Len(suffix(k)) = n - k
    BY <1>1, SubSeqProperties, ElementOfSeq
  <2>2. keys(q)[k].labels = <<Star>> \o suffix(k)
    BY <1>1 DEF keys, star_key, Qualified
  <2>3. <<Star>> \in Seq(AnyLabel) /\ Len(<<Star>>) = 1
    BY DEF AnyLabel
  <2> QED
    BY <2>1, <2>2, <2>3, ConcatProperties
<1>4. Len(keys(q)[i].labels) = 1 + (n - i) /\ Len(keys(q)[j].labels) = 1 + (n - j)
  BY <1>2, <1>3
<1>5. 1 + (n - i) > 1 + (n - j)
  BY <1>1, <1>2
<1> QED
  BY <1>4, <1>5

\* DomainStore::get returns the value of the most specific covering rule.
THEOREM MostSpecific ==
    ASSUME NEW store, NEW q \in DomainName
    PROVE  LET covering == Covering(store, q) IN
           IF covering = {} THEN get(store, q) = None
           ELSE \E rule \in covering :
                   /\ get(store, q) = store[rule]
                   /\ \A other \in covering : Beats(rule, other, q)
<1> DEFINE hits == Hits(store, q)
           m == Min(hits)
<1>1. Covering(store, q) = {keys(q)[i] : i \in hits}
  BY KeysAreCovers DEF Covering, Hits
<1>2. hits \subseteq Nat
  BY DEF Hits, keys
<1>3. CASE hits = {}
  BY <1>1, <1>3 DEF get
<1>4. CASE hits # {}
  <2>1. m \in hits /\ \A j \in hits : m <= j
    BY <1>2, <1>4, LeastNat
  <2>2. get(store, q) = store[keys(q)[m]]
    BY <1>4 DEF get
  <2>3. ASSUME NEW j \in hits PROVE Beats(keys(q)[m], keys(q)[j], q)
    <3>1. CASE m = j
      BY <3>1 DEF Beats
    <3>2. CASE m = 0
      BY <3>2 DEF Beats, keys
    <3>3. CASE 0 < m /\ m < j
      <4>1. Len(keys(q)[m].labels) > Len(keys(q)[j].labels)
        BY <3>3, <2>1, EarlierIsLonger DEF Hits
      <4>2. keys(q)[j] # q
        <5>1. 0 \in DOMAIN keys(q) /\ keys(q)[0] = q
          BY DEF keys
        <5>2. 0 \notin hits
          BY <3>3, <2>1, <1>2
        <5> QED
          BY <5>1, <5>2 DEF Hits
      <4> QED
        BY <4>1, <4>2 DEF Beats
    <3> QED
      BY <3>1, <3>2, <3>3, <2>1, <1>2
  <2>4. keys(q)[m] \in Covering(store, q) /\ Covering(store, q) # {}
    BY <1>1, <2>1
  <2> HIDE DEF m, hits
  <2> QED
    BY <2>2, <2>3, <2>4, <1>1
<1> QED
  BY <1>3, <1>4
-----------------------------------------------------------------------------
\* Every behaviour of a store looks names up by the most specific rule.
THEOREM LookupCorrect == Spec => []LookupIsMostSpecific
<1>1. LookupIsMostSpecific
  BY MostSpecific, QueryAssumption DEF LookupIsMostSpecific
<1> QED
  BY <1>1, PTL

\* A write of a normalized name keeps the store well formed.
LEMMA WriteStep ==
    ASSUME TypeOK, NEW key \in DomainName, key.dot, NEW value \in Value,
           kv' = Write(kv, key, value)
    PROVE  /\ DOMAIN kv' \subseteq DomainName
           /\ \A n \in DOMAIN kv' : n.dot /\ kv'[n] \in Value
<1>1. DOMAIN kv' = DOMAIN kv \cup {key}
  BY DEF Write
<1>2. \A n \in DOMAIN kv' : kv'[n] = IF n = key THEN value ELSE kv[n]
  BY DEF Write
<1> QED
  BY <1>1, <1>2 DEF TypeOK

\* The content of a store is well formed: every key carries the final dot that
\* lookups rely on, and every value is "true" or a normalized alias.
THEOREM TypeCorrect == Spec => []TypeOK
<1>1. Init => TypeOK
  BY MaxPutsAssumption DEF Init, TypeOK, EmptyStore
<1>2. TypeOK /\ [Next]_vars => TypeOK'
  <2> SUFFICES ASSUME TypeOK, [Next]_vars PROVE TypeOK'
    OBVIOUS
  <2>1. ASSUME NEW rule \in Rule, Put(rule) PROVE TypeOK'
    <3>1. puts' \in 0 .. MaxPuts
      BY <2>1, MaxPutsAssumption DEF Put, TypeOK
    <3>2. normalize_name(rule) \in DomainName /\ normalize_name(rule).dot
      BY Normalized, RuleAssumption
    <3>3. kv' = Write(kv, normalize_name(rule), True) /\ True \in Value
      BY <2>1 DEF Put, put, Value
    <3> QED
      BY <3>1, <3>2, <3>3, WriteStep DEF TypeOK
  <2>2. ASSUME NEW rule \in Rule, NEW alias \in Rule, PutAlias(rule, alias)
        PROVE TypeOK'
    <3>1. puts' \in 0 .. MaxPuts
      BY <2>2, MaxPutsAssumption DEF PutAlias, TypeOK
    <3>2. normalize_name(rule) \in DomainName /\ normalize_name(rule).dot
      BY Normalized, RuleAssumption
    <3>3. /\ kv' = Write(kv, normalize_name(rule), normalize_name(alias))
          /\ normalize_name(alias) \in Value
      BY <2>2, Normalized, RuleAssumption DEF PutAlias, put_alias, Value
    <3> QED
      BY <3>1, <3>2, <3>3, WriteStep DEF TypeOK
  <2>3. CASE UNCHANGED vars
    BY <2>3 DEF vars, TypeOK
  <2> QED
    BY <2>1, <2>2, <2>3 DEF Next
<1> QED
  BY <1>1, <1>2, PTL DEF Spec

\* A write that reaches none of the keys of a query leaves its answer alone,
\* and no write takes an answer away.
LEMMA WriteIsLocal ==
    ASSUME TypeOK, NEW key \in DomainName, NEW value \in Value,
           kv' = Write(kv, key, value), NEW q \in DomainName
    PROVE  /\ contains(kv, q) => contains(kv', q)
           /\ get(kv, q) # get(kv', q) =>
                 \E rule \in DOMAIN kv' :
                    /\ Covers(rule, q)
                    /\ rule \in DOMAIN kv => kv'[rule] # kv[rule]
<1>1. DOMAIN kv' = DOMAIN kv \cup {key}
  BY DEF Write
<1>2. \A n \in DOMAIN kv' : kv'[n] = IF n = key THEN value ELSE kv[n]
  BY DEF Write
<1>3. Hits(kv, q) \subseteq Hits(kv', q) /\ Hits(kv', q) \subseteq Nat
  BY <1>1 DEF Hits, keys
<1>4. ASSUME NEW store, Hits(store, q) # {}, Hits(store, q) \subseteq Nat
      PROVE  /\ Min(Hits(store, q)) \in Hits(store, q)
             /\ keys(q)[Min(Hits(store, q))] \in DOMAIN store
             /\ get(store, q) = store[keys(q)[Min(Hits(store, q))]]
  <2>1. Min(Hits(store, q)) \in Hits(store, q)
    BY <1>4, LeastNat
  <2> QED
    BY <2>1, <1>4 DEF get, Hits
<1>5. ASSUME contains(kv, q) PROVE contains(kv', q)
  <2>1. Hits(kv, q) # {}
    BY <1>5 DEF contains, get
  <2>2. Hits(kv', q) # {}
    BY <2>1, <1>3
  <2>3. PICK n \in DOMAIN kv' : get(kv', q) = kv'[n]
    BY <2>2, <1>3, <1>4
  <2>4. kv'[n] \in Value
    BY <2>3, <1>1, <1>2 DEF TypeOK
  <2>5. None \notin Value
    BY ValueAssumption DEF Value
  <2> QED
    BY <2>3, <2>4, <2>5 DEF contains
<1>6. ASSUME \A rule \in DOMAIN kv' :
                Covers(rule, q) => rule \in DOMAIN kv /\ kv'[rule] = kv[rule]
      PROVE  get(kv, q) = get(kv', q)
  <2>1. \A i \in DOMAIN keys(q) : Covers(keys(q)[i], q)
    BY KeysAreCovers
  <2>2. Hits(kv, q) = Hits(kv', q)
    BY <2>1, <1>6, <1>3 DEF Hits
  <2>3. CASE Hits(kv', q) = {}
    BY <2>2, <2>3 DEF get
  <2>4. CASE Hits(kv', q) # {}
    <3> DEFINE key0 == keys(q)[Min(Hits(kv', q))]
    <3>1. /\ key0 \in DOMAIN kv'
          /\ get(kv', q) = kv'[key0] /\ get(kv, q) = kv[key0]
      BY <2>2, <2>4, <1>3, <1>4
    <3>2. Covers(key0, q)
      BY <2>1, <2>4, <1>3, <1>4 DEF Hits
    <3> QED
      BY <3>1, <3>2, <1>6
  <2> QED
    BY <2>3, <2>4
<1> QED
  BY <1>5, <1>6

\* A put changes the answers to the queries it covers and to no others.
THEOREM PutLocal == Spec => PutIsLocal
<1> DEFINE Local(q) ==
        /\ contains(kv, q) => contains(kv, q)'
        /\ get(kv, q) # get(kv, q)' =>
              \E rule \in DOMAIN kv' :
                 /\ Covers(rule, q)
                 /\ rule \in DOMAIN kv => kv'[rule] # kv[rule]
<1>1. ASSUME TypeOK, Next PROVE \A q \in Query : Local(q)
  <2>1. PICK key \in DomainName, value \in Value : kv' = Write(kv, key, value)
    <3>1. CASE \E rule \in Rule : Put(rule)
      BY <3>1, Normalized, RuleAssumption DEF Put, put, Value
    <3>2. CASE \E rule, alias \in Rule : PutAlias(rule, alias)
      BY <3>2, Normalized, RuleAssumption DEF PutAlias, put_alias, Value
    <3> QED
      BY <1>1, <3>1, <3>2 DEF Next
  <2> TAKE q \in Query
  <2>2. q \in DomainName
    BY QueryAssumption
  <2> QED
    BY <1>1, <2>1, <2>2, WriteIsLocal
<1>2. TypeOK /\ [Next]_vars => [\A q \in Query : Local(q)]_vars
  BY <1>1
<1> QED
  BY <1>2, TypeCorrect, PTL DEF Spec, PutIsLocal
=============================================================================
