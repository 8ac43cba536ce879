------------------------- MODULE RateLimiter_proofs -------------------------
(***************************************************************************)
(* Theorems about the rate limiter for any addresses, prefix lengths and    *)
(* rate, and any traffic.                                                   *)
(***************************************************************************)
EXTENDS RateLimiter, SequenceTheorems, FiniteSetTheorems, TLAPS

\* The requests charged to the bucket of key that are younger than j units.
Since(key, j) == {e \in admitted : mask_ip(e.ip) = key /\ e.age < j}

Taken(key) == rps - Level(key)

\* The books of one bucket balance.  What it lacks has been taken in the last j
\* units, but for what may have been lacking before and cannot be refilled yet;
\* and what has been taken is lacking, but for what is refilled within j units.
\* (One refill earlier the unit it comes in is not over: hence j - 1.)
Balanced(key) ==
    /\ \A j \in 0 .. rps : Taken(key) <= rps - j + Cardinality(Since(key, j))
    /\ \A j \in 1 .. rps : Cardinality(Since(key, j)) <= Taken(key) + j - 1

\* A bucket is below every level that a request found since the last refill: the
\* next one finds another, so the history has each of them once.
Sinking == \A e \in admitted : e.age = 0 => Level(mask_ip(e.ip)) < e.level

Key == {mask_ip(ip) : ip \in Ip}

IInv ==
    /\ TypeOK
    /\ DOMAIN tokens \subseteq Key
    /\ IsFiniteSet(admitted)
    /\ Sinking
    /\ \A key \in Key : Balanced(key)
-----------------------------------------------------------------------------
(***************************************************************************)
(* Keys and prefixes.                                                       *)
(***************************************************************************)
\* The digits of an address that are kept in its key, by position.
Kept(ip) == IF prefix(ip) = 0 THEN DOMAIN ip.digits
            ELSE {i \in DOMAIN ip.digits : i <= prefix(ip)}

LEMMA Masked ==
    ASSUME NEW ip \in Ip
    PROVE  mask_ip(ip) = [family |-> ip.family,
                          digits |-> [i \in DOMAIN ip.digits |->
                                        IF i \in Kept(ip) THEN ip.digits[i] ELSE 0]]
<1> DEFINE width == Len(ip.digits)
           shift == (width - prefix(ip)) % width
           kept  == [i \in DOMAIN ip.digits |-> IF i \in Kept(ip) THEN ip.digits[i] ELSE 0]
<1>1. /\ ip \in [family: Family, digits: Seq(Nat)] /\ prefix(ip) \in Nat
      /\ width \in Nat /\ DOMAIN ip.digits = 1 .. width
      /\ ip.digits = [i \in DOMAIN ip.digits |-> ip.digits[i]]
  BY IpAssumption, PrefixAssumption, LenProperties DEF prefix
<1>2. CASE prefix(ip) >= width
  <2>1. Kept(ip) = DOMAIN ip.digits
    <3>1. \A i \in DOMAIN ip.digits : i <= prefix(ip)
      BY <1>1, <1>2
    <3> QED
      BY <3>1 DEF Kept
  <2>2. mask_ip(ip) = ip
    BY <1>2 DEF mask_ip
  <2>3. kept = ip.digits
    BY <1>1, <2>1
  <2>4. ip = [family |-> ip.family, digits |-> ip.digits]
    BY <1>1
  <2> QED
    BY <2>2, <2>3, <2>4
<1>3. CASE prefix(ip) < width
  <2>1. shift = IF prefix(ip) = 0 THEN 0 ELSE width - prefix(ip)
    <3>1. \A w, q \in Nat : q < w => (w - q) % w = IF q = 0 THEN 0 ELSE w - q
      OBVIOUS
    <3> QED
      BY <1>1, <1>3, <3>1
  <2>2. \A i \in DOMAIN ip.digits : i <= width - shift <=> i \in Kept(ip)
    BY <1>1, <1>3, <2>1 DEF Kept
  <2>3. mask_ip(ip) = [ip EXCEPT !.digits =
                          [i \in DOMAIN ip.digits |-> IF i <= width - shift THEN ip.digits[i] ELSE 0]]
    BY <1>1, <1>3 DEF mask_ip
  <2>4. [i \in DOMAIN ip.digits |-> IF i <= width - shift THEN ip.digits[i] ELSE 0] = kept
    BY <2>2
  <2>5. mask_ip(ip) = [ip EXCEPT !.digits = kept]
    BY <2>3, <2>4
  <2> HIDE DEF kept
  <2>6. [ip EXCEPT !.digits = kept] = [family |-> ip.family, digits |-> kept]
    BY <1>1
  <2> QED
    BY <2>5, <2>6 DEF kept
<1> QED
  BY <1>1, <1>2, <1>3

\* Clients that share a bucket share the prefix.
LEMMA KeyMeansPrefix ==
    ASSUME NEW a \in Ip, NEW b \in Ip, mask_ip(a) = mask_ip(b)
    PROVE  SamePrefix(a, b)
<1> DEFINE key(ip) == [i \in DOMAIN ip.digits |-> IF i \in Kept(ip) THEN ip.digits[i] ELSE 0]
<1>1. a.family = b.family /\ key(a) = key(b)
  <2>1. /\ mask_ip(a) = [family |-> a.family, digits |-> key(a)]
        /\ mask_ip(b) = [family |-> b.family, digits |-> key(b)]
    BY Masked
  <2>2. \A f, g, x, y : [family |-> f, digits |-> x] = [family |-> g, digits |-> y]
                       => f = g /\ x = y
    <3>1. SUFFICES ASSUME NEW f, NEW g, NEW x, NEW y,
                          [family |-> f, digits |-> x] = [family |-> g, digits |-> y]
                   PROVE  f = g /\ x = y
      OBVIOUS
    <3>2. [family |-> f, digits |-> x].family = [family |-> g, digits |-> y].family
      BY <3>1
    <3>3. [family |-> f, digits |-> x].digits = [family |-> g, digits |-> y].digits
      BY <3>1
    <3> QED
      BY <3>2, <3>3
  <2> HIDE DEF key
  <2> QED
    BY <2>1, <2>2
<1>2. prefix(a) = prefix(b)
  BY <1>1 DEF prefix
<1>3. DOMAIN a.digits = DOMAIN b.digits
  BY <1>1
<1>4. ASSUME NEW i \in DOMAIN a.digits, i <= prefix(a) PROVE a.digits[i] = b.digits[i]
  <2>1. i \in Kept(a) /\ i \in Kept(b)
    BY <1>2, <1>3, <1>4 DEF Kept
  <2>2. key(a)[i] = a.digits[i] /\ key(b)[i] = b.digits[i]
    BY <1>3, <2>1
  <2> QED
    BY <1>1, <2>2
<1> QED
  BY <1>1, <1>4 DEF SamePrefix

\* Clients that share a prefix share a bucket.
LEMMA PrefixMeansKey ==
    ASSUME NEW a \in Ip, NEW b \in Ip, SamePrefix(a, b), prefix(a) # 0
    PROVE  mask_ip(a) = mask_ip(b)
<1> DEFINE key(ip) == [i \in DOMAIN ip.digits |-> IF i \in Kept(ip) THEN ip.digits[i] ELSE 0]
<1>1. a.family = b.family /\ prefix(a) = prefix(b)
  BY DEF SamePrefix, prefix
<1>2. DOMAIN a.digits = DOMAIN b.digits
  <2>1. Len(a.digits) = Len(b.digits)
    BY <1>1, IpAssumption
  <2>2. a.digits \in Seq(Nat) /\ b.digits \in Seq(Nat)
    BY IpAssumption
  <2> QED
    BY <2>1, <2>2, LenProperties
<1>3. ASSUME NEW i \in DOMAIN a.digits
      PROVE  (IF i \in Kept(a) THEN a.digits[i] ELSE 0) = (IF i \in Kept(b) THEN b.digits[i] ELSE 0)
  BY <1>1, <1>2 DEF Kept, SamePrefix
<1>4. key(a) = key(b)
  BY <1>2, <1>3
<1>5. /\ mask_ip(a) = [family |-> a.family, digits |-> key(a)]
      /\ mask_ip(b) = [family |-> b.family, digits |-> key(b)]
  BY Masked
<1> HIDE DEF key
<1> QED
  BY <1>1, <1>4, <1>5
-----------------------------------------------------------------------------
(***************************************************************************)
(* One step of a bucket and its history.                                    *)
(***************************************************************************)
LEMMA LevelType ==
    ASSUME TypeOK, NEW key
    PROVE  /\ Level(key) \in 0 .. rps /\ Level(key) \in Nat
           /\ Taken(key) \in 0 .. rps /\ Taken(key) \in Nat
BY RateAssumption DEF TypeOK, Level, Taken

LEMMA SinceFinite ==
    ASSUME IInv, NEW key, NEW j
    PROVE  IsFiniteSet(Since(key, j)) /\ Cardinality(Since(key, j)) \in Nat
<1>1. Since(key, j) \in SUBSET admitted
  BY DEF Since
<1>2. IsFiniteSet(Since(key, j))
  BY <1>1, FS_Subset DEF IInv
<1> QED
  BY <1>2, FS_CardinalityType

\* Growing older changes nothing else about a request.
Older(e) == [e EXCEPT !.age = @ + 1]

LEMMA OlderIs ==
    ASSUME NEW e \in Admission
    PROVE  Older(e) = [ip |-> e.ip, level |-> e.level, age |-> e.age + 1]
BY DEF Older, Admission

LEMMA OlderFields ==
    ASSUME NEW e \in Admission
    PROVE  /\ Older(e).ip = e.ip /\ Older(e).level = e.level /\ Older(e).age = e.age + 1
           /\ e.ip \in Ip /\ e.level \in 1 .. rps /\ e.age \in Nat /\ e.age < rps
<1>1. e.ip \in Ip /\ e.level \in 1 .. rps /\ e.age \in Age
  BY DEF Admission
<1> QED
  BY <1>1, OlderIs, RateAssumption DEF Age

\* As many requests grow older as there are.
LEMMA OlderCounts ==
    ASSUME NEW S, S \subseteq Admission, IsFiniteSet(S), NEW T, T = {Older(e) : e \in S}
    PROVE  IsFiniteSet(T) /\ Cardinality(T) = Cardinality(S)
<1> DEFINE f == [e \in S |-> Older(e)]
<1>1. f \in [S -> T] /\ \A t \in T : \E e \in S : f[e] = t
  OBVIOUS
<1>2. ASSUME NEW x \in S, NEW y \in S, f[x] = f[y] PROVE x = y
  <2>1. Older(x) = Older(y)
    BY <1>2
  <2>2. x \in Admission /\ y \in Admission
    OBVIOUS
  <2>3. x.ip = y.ip /\ x.level = y.level /\ x.age = y.age
    BY <2>1, <2>2, OlderFields
  <2>4. /\ x = [ip |-> x.ip, level |-> x.level, age |-> x.age]
        /\ y = [ip |-> y.ip, level |-> y.level, age |-> y.age]
    BY <2>2 DEF Admission
  <2> QED
    BY <2>3, <2>4
<1>3. f \in Bijection(S, T)
  BY <1>1, <1>2 DEF Bijection, Injection, Surjection, IsInjective
<1>4. ExistsBijection(S, T)
  BY <1>3 DEF ExistsBijection
<1> QED
  BY <1>4, FS_Bijection

LEMMA InitInv == Init => IInv
<1> SUFFICES ASSUME Init PROVE IInv
  OBVIOUS
<1>1. admitted = {} /\ DOMAIN tokens = {}
  BY DEF Init
<1>2. ASSUME NEW key PROVE Taken(key) = 0 /\ \A j : Since(key, j) = {}
  BY <1>1, RateAssumption DEF Taken, Level, Since
<1>3. \A key \in Key : Balanced(key)
  BY <1>2, FS_EmptySet, RateAssumption DEF Balanced
<1> QED
  BY <1>1, <1>3, FS_EmptySet DEF IInv, TypeOK, Sinking

\* The least of the rate and a level.
LEMMA MinOfTwo ==
    ASSUME NEW a \in Nat, NEW b \in Nat
    PROVE  Min({a, b}) = IF a <= b THEN a ELSE b
<1>1. \E x \in {a, b} : \A y \in {a, b} : x <= y
  OBVIOUS
<1> QED
  BY <1>1 DEF Min

LEMMA RefillInv == ASSUME IInv, Refill PROVE IInv'
<1> DEFINE kept == {a \in admitted : a.age < rps - 1}
<1>1. /\ admitted' = {Older(e) : e \in kept} /\ admitted \subseteq Admission
      /\ IsFiniteSet(admitted) /\ IsFiniteSet(kept)
  <2>1. IsFiniteSet(admitted) /\ kept \in SUBSET admitted
    BY DEF IInv
  <2>2. IsFiniteSet(kept)
    BY <2>1, FS_Subset
  <2> QED
    BY <2>1, <2>2 DEF Refill, Older, IInv, TypeOK
<1>2. ASSUME NEW key PROVE Level(key)' = IF Level(key) < rps THEN Level(key) + 1 ELSE rps
  <2>1. CASE key \in DOMAIN tokens
    <3>1. tokens[key] \in Nat /\ rps \in Nat /\ tokens[key] <= rps
      BY <2>1, RateAssumption DEF IInv, TypeOK
    <3>2. Level(key)' = Min({rps, tokens[key] + 1})
      BY <2>1 DEF Level, Refill
    <3>3. Min({rps, tokens[key] + 1}) = IF rps <= tokens[key] + 1 THEN rps ELSE tokens[key] + 1
      BY <3>1, MinOfTwo
    <3> QED
      BY <2>1, <3>1, <3>2, <3>3 DEF Level
  <2>2. CASE key \notin DOMAIN tokens
    BY <2>2, RateAssumption DEF Level, Refill
  <2> QED
    BY <2>1, <2>2
<1>3. TypeOK' /\ (DOMAIN tokens \subseteq Key)' /\ IsFiniteSet(admitted')
  <2>1. DOMAIN tokens' = DOMAIN tokens
    BY DEF Refill
  <2>2. ASSUME NEW key \in DOMAIN tokens PROVE key.family \in Family /\ tokens'[key] \in 0 .. rps
    <3>1. key.family \in Family /\ Level(key) \in Nat /\ Level(key) <= rps
      BY LevelType, RateAssumption DEF IInv, TypeOK
    <3>2. tokens'[key] = Level(key)'
      BY <2>1 DEF Level
    <3> QED
      BY <1>2, <3>1, <3>2, RateAssumption
  <2>3. ASSUME NEW e \in kept PROVE Older(e) \in Admission
    <3>1. /\ e \in Admission /\ e.ip \in Ip /\ e.level \in 1 .. rps
          /\ e.age \in Nat /\ e.age < rps - 1
      BY <1>1, OlderFields
    <3>2. e.age + 1 \in Age
      BY <3>1, RateAssumption DEF Age
    <3> QED
      BY <3>1, <3>2, OlderIs DEF Admission
  <2>4. admitted' \subseteq Admission
    BY <1>1, <2>3
  <2>5. (DOMAIN tokens \subseteq Key)'
    BY <2>1 DEF IInv, Key
  <2>6. IsFiniteSet(admitted')
    <3>1. kept \subseteq Admission
      BY <1>1
    <3> HIDE DEF kept
    <3> QED
      BY <1>1, <3>1, OlderCounts
  <2> QED
    BY <2>1, <2>2, <2>4, <2>5, <2>6 DEF TypeOK
<1>4. \A e \in admitted' : e.age # 0
  <2>1. ASSUME NEW e \in kept PROVE Older(e).age # 0
    <3>1. e \in Admission
      BY <1>1
    <3> QED
      BY <3>1, OlderFields
  <2> QED
    BY <1>1, <2>1
<1>5. Sinking'
  BY <1>4 DEF Sinking
<1>6. ASSUME NEW key, NEW j \in 0 .. rps - 1
      PROVE  Cardinality(Since(key, j + 1)') = Cardinality(Since(key, j))
  <2>1. Since(key, j + 1)' = {Older(e) : e \in Since(key, j)}
    <3>1. ASSUME NEW e \in kept
          PROVE  /\ Older(e).ip = e.ip
                 /\ Older(e).age < j + 1 <=> e.age < j
      <4>1. e \in Admission
        BY <1>1
      <4> QED
        BY <4>1, OlderFields, RateAssumption
    <3>2. ASSUME NEW e \in admitted, e.age < j PROVE e \in kept
      <4>1. e \in Admission /\ e.age \in Nat
        BY <1>1, OlderFields
      <4> QED
        BY <3>2, <4>1, RateAssumption
    <3>3. Since(key, j + 1)' = {x \in admitted' : mask_ip(x.ip) = key /\ x.age < j + 1}
      BY DEF Since
    <3>4. {x \in admitted' : mask_ip(x.ip) = key /\ x.age < j + 1}
            = {Older(e) : e \in {a \in kept : mask_ip(a.ip) = key /\ a.age < j}}
      <4> HIDE DEF kept
      <4> QED
        BY <1>1, <3>1
    <3>5. {a \in kept : mask_ip(a.ip) = key /\ a.age < j} = Since(key, j)
      BY <3>2 DEF Since
    <3> QED
      BY <3>3, <3>4, <3>5
  <2>2. Since(key, j) \subseteq Admission
    BY <1>1 DEF Since
  <2> QED
    BY <2>1, <2>2, SinceFinite, OlderCounts
<1>7. ASSUME NEW key PROVE Cardinality(Since(key, 0)') = 0
  <2>1. ASSUME NEW e \in admitted' PROVE ~(e.age < 0)
    <3>1. e \in Admission
      BY <1>3 DEF TypeOK
    <3> QED
      BY <3>1, OlderFields
  <2>2. Since(key, 0)' = {}
    BY <2>1 DEF Since
  <2> QED
    BY <2>2, FS_EmptySet
<1>8. ASSUME NEW key \in Key PROVE Balanced(key)'
  <2> DEFINE c(j) == Cardinality(Since(key, j))
             d == Taken(key)
             dd == Taken(key)'
             cc(j) == Cardinality(Since(key, j)')
  <2>1. /\ d \in Nat /\ d <= rps /\ rps \in Nat
        /\ dd = IF d > 0 THEN d - 1 ELSE 0
    <3>1. Level(key) \in Nat /\ Level(key) <= rps
      BY LevelType, RateAssumption DEF IInv
    <3> QED
      BY <1>2, <3>1, RateAssumption DEF Taken
  <2>2. \A j \in 0 .. rps : c(j) \in Nat
    BY SinceFinite
  <2>3. /\ \A j \in 0 .. rps : d <= rps - j + c(j)
        /\ \A j \in 1 .. rps : c(j) <= d + j - 1
    BY DEF IInv, Balanced
  <2>4. cc(0) = 0 /\ \A j \in 0 .. rps - 1 : cc(j + 1) = c(j)
    BY <1>6, <1>7
  <2>5. c(0) = 0
    <3>1. ASSUME NEW e \in admitted PROVE ~(e.age < 0)
      <4>1. e \in Admission
        BY <1>1
      <4> QED
        BY <4>1, OlderFields
    <3>2. Since(key, 0) = {}
      BY <3>1 DEF Since
    <3> QED
      BY <3>2, FS_EmptySet
  <2> HIDE DEF c, cc, d, dd
  <2>6. ASSUME NEW j \in 0 .. rps PROVE dd <= rps - j + cc(j)
    <3>1. CASE j = 0
      BY <2>1, <2>4, <3>1
    <3>2. CASE j # 0
      <4>1. j - 1 \in 0 .. rps - 1 /\ j - 1 \in 0 .. rps /\ (j - 1) + 1 = j
        BY <2>1, <3>2
      <4>2. cc(j) = c(j - 1) /\ c(j - 1) \in Nat /\ d <= rps - (j - 1) + c(j - 1)
        BY <2>2, <2>3, <2>4, <4>1
      <4> QED
        BY <2>1, <4>2
    <3> QED
      BY <3>1, <3>2
  <2>7. ASSUME NEW j \in 1 .. rps PROVE cc(j) <= dd + j - 1
    <3>1. j - 1 \in 0 .. rps - 1 /\ j - 1 \in 0 .. rps /\ (j - 1) + 1 = j
      BY <2>1
    <3>2. cc(j) = c(j - 1) /\ c(j - 1) \in Nat
      BY <2>2, <2>4, <3>1
    <3>3. CASE j = 1
      <4>1. cc(j) = 0
        BY <2>5, <3>2, <3>3
      <4> QED
        BY <2>1, <3>3, <4>1
    <3>4. CASE j > 1
      <4>1. c(j - 1) <= d + (j - 1) - 1
        BY <2>3, <2>1, <3>4
      <4> QED
        BY <2>1, <3>2, <3>4, <4>1
    <3> QED
      BY <3>3, <3>4
  <2> QED
    BY <2>6, <2>7 DEF Balanced, dd, cc
<1> QED
  BY <1>3, <1>5, <1>8 DEF IInv, Key

LEMMA CheckInv == ASSUME IInv, NEW ip \in Ip, check_key(ip) PROVE IInv'
<1> DEFINE key == mask_ip(ip)
           e0  == Admitted(ip, Level(key))
<1>1. CASE UNCHANGED vars
  <2>1. /\ Level(key)' = Level(key) /\ admitted' = admitted /\ tokens' = tokens
    BY <1>1 DEF vars, Level
  <2> QED
    BY <2>1 DEF IInv, TypeOK, Sinking, Balanced, Since, Taken, Level, Key
<1>2. CASE ~Refused(ip) /\ rps # 0
  <2>1. /\ tokens' = [k \in DOMAIN tokens \cup {key} |->
                        IF k = key THEN Level(key) - 1 ELSE tokens[k]]
        /\ admitted' = admitted \cup {e0}
    BY <1>2 DEF check_key
  <2>2. Level(key) \in 1 .. rps /\ rps \in Nat
    BY <1>2, LevelType, RateAssumption DEF Refused, IInv
  <2>3. /\ Level(key)' = Level(key) - 1
        /\ \A k : k # key => Level(k)' = Level(k)
    BY <2>1 DEF Level
  <2> HIDE DEF key
  <2>4. /\ e0 \in Admission
        /\ e0.ip = ip /\ e0.level = Level(key) /\ e0.age = 0
    BY <2>2 DEF Admitted, Admission, Age
  <2> HIDE DEF e0
  <2>5. e0 \notin admitted
    <3>1. SUFFICES ASSUME e0 \in admitted PROVE FALSE
      OBVIOUS
    <3>2. Level(mask_ip(e0.ip)) < e0.level
      BY <2>4, <3>1 DEF IInv, Sinking
    <3> QED
      BY <2>2, <2>4, <3>2 DEF key
  <2>6. TypeOK'
    <3>1. ASSUME NEW k \in DOMAIN tokens'
          PROVE  k.family \in Family /\ tokens'[k] \in 0 .. rps
      <4>1. CASE k = key
        <5>1. key.family = ip.family /\ ip.family \in Family
          BY Masked, IpAssumption DEF key
        <5> QED
          BY <2>1, <2>2, <4>1, <5>1
      <4>2. CASE k # key
        BY <2>1, <3>1, <4>2 DEF IInv, TypeOK
      <4> QED
        BY <4>1, <4>2
    <3>2. admitted' \subseteq Admission
      BY <2>1, <2>4 DEF IInv, TypeOK
    <3> QED
      BY <3>1, <3>2 DEF TypeOK
  <2>7. (DOMAIN tokens \subseteq Key)' /\ IsFiniteSet(admitted')
    <3>1. IsFiniteSet(admitted')
      BY <2>1, FS_AddElement DEF IInv
    <3>2. DOMAIN tokens' \subseteq Key
      BY <2>1 DEF IInv, Key, key
    <3> QED
      BY <3>1, <3>2 DEF Key
  <2>8. Sinking'
    <3>1. ASSUME NEW e \in admitted', e.age = 0 PROVE Level(mask_ip(e.ip))' < e.level
      <4>1. CASE e = e0
        BY <2>2, <2>3, <2>4, <4>1 DEF key
      <4>2. CASE e # e0
        <5>1. /\ e \in admitted /\ Level(mask_ip(e.ip)) < e.level
              /\ e.level \in Nat /\ Level(mask_ip(e.ip)) \in Nat
          <6>1. e \in admitted /\ e \in Admission
            BY <2>1, <3>1, <4>2 DEF IInv, TypeOK
          <6>2. Level(mask_ip(e.ip)) < e.level
            BY <3>1, <6>1 DEF IInv, Sinking
          <6>3. e.level \in Nat
            BY <6>1, OlderFields
          <6> QED
            BY <6>1, <6>2, <6>3, LevelType DEF IInv
        <5>2. CASE mask_ip(e.ip) = key
          BY <2>2, <2>3, <5>1, <5>2
        <5>3. CASE mask_ip(e.ip) # key
          <6>1. Level(mask_ip(e.ip))' = Level(mask_ip(e.ip))
            BY <2>3, <5>3
          <6> QED
            BY <5>1, <6>1
        <5> QED
          BY <5>2, <5>3
      <4> QED
        BY <4>1, <4>2
    <3> QED
      BY <3>1 DEF Sinking
  <2>9. ASSUME NEW k \in Key PROVE Balanced(k)'
    <3>1. CASE k # key
      <4>1. Taken(k)' = Taken(k)
        BY <2>3, <3>1 DEF Taken
      <4>2. \A j : Since(k, j)' = Since(k, j)
        BY <2>1, <2>4, <3>1 DEF Since, key
      <4> QED
        BY <4>1, <4>2 DEF Balanced, IInv
    <3>2. CASE k = key
      <4> DEFINE c(j) == Cardinality(Since(k, j))
                 cc(j) == Cardinality(Since(k, j)')
                 d == Taken(k)
                 dd == Taken(k)'
      <4>1. d \in Nat /\ dd = d + 1 /\ dd <= rps
        BY <2>2, <2>3, <3>2 DEF Taken
      <4>2. ASSUME NEW j \in 1 .. rps PROVE cc(j) = c(j) + 1
        <5>1. Since(k, j)' = Since(k, j) \cup {e0}
          BY <2>1, <2>4, <3>2 DEF Since, key
        <5>2. e0 \notin Since(k, j)
          BY <2>5 DEF Since
        <5> QED
          BY <5>1, <5>2, SinceFinite, FS_AddElement
      <4>3. /\ \A j \in 0 .. rps : c(j) \in Nat
            /\ \A j \in 0 .. rps : d <= rps - j + c(j)
            /\ \A j \in 1 .. rps : c(j) <= d + j - 1
        BY SinceFinite DEF Balanced, IInv
      <4>4. cc(0) \in Nat
        <5>1. Since(k, 0)' \in SUBSET admitted'
          BY DEF Since
        <5>2. IsFiniteSet(Since(k, 0)')
          BY <2>7, <5>1, FS_Subset
        <5> QED
          BY <5>2, FS_CardinalityType
      <4> HIDE DEF c, cc, d, dd
      <4>5. ASSUME NEW j \in 0 .. rps PROVE dd <= rps - j + cc(j)
        <5>1. CASE j = 0
          BY <2>2, <4>1, <4>4, <5>1
        <5>2. CASE j \in 1 .. rps
          <6>1. cc(j) = c(j) + 1 /\ c(j) \in Nat /\ d <= rps - j + c(j)
            BY <4>2, <4>3, <5>2
          <6> QED
            BY <2>2, <4>1, <6>1
        <5> QED
          BY <2>2, <5>1, <5>2
      <4>6. ASSUME NEW j \in 1 .. rps PROVE cc(j) <= dd + j - 1
        <5>1. cc(j) = c(j) + 1 /\ c(j) \in Nat /\ c(j) <= d + j - 1
          BY <4>2, <4>3
        <5> QED
          BY <2>2, <4>1, <5>1
      <4> QED
        BY <4>5, <4>6 DEF Balanced, cc, dd
    <3> QED
      BY <3>1, <3>2
  <2> QED
    BY <2>6, <2>7, <2>8, <2>9 DEF IInv, Key
<1> QED
  BY <1>1, <1>2 DEF check_key
-----------------------------------------------------------------------------
LEMMA StepInv == IInv /\ [Next]_vars => IInv'
<1> SUFFICES ASSUME IInv, [Next]_vars PROVE IInv'
  OBVIOUS
<1>1. CASE UNCHANGED vars
  BY <1>1 DEF vars, IInv, TypeOK, Sinking, Balanced, Since, Taken, Level, Key
<1> QED
  BY <1>1, RefillInv, CheckInv DEF Next

LEMMA Invariance == Spec => []IInv
  BY InitInv, StepInv, PTL DEF Spec

\* No bucket holds more than rps tokens or less than none.
THEOREM TypeCorrect == Spec => []TypeOK
<1>1. IInv => TypeOK
  BY DEF IInv
<1> QED
  BY <1>1, Invariance, PTL

\* No traffic but that of its own prefix, and of that rps requests within the
\* second, gets a client refused: whatever the rate, the prefix lengths (0 too)
\* and the addresses.
THEOREM OwnTraffic == Spec => []RefusedForOwnTraffic
<1>1. ASSUME IInv, NEW ip \in Ip, Refused(ip) PROVE InLastSecond(Group(ip)) >= rps
  <2> DEFINE key == mask_ip(ip)
             own == {e \in admitted : e.ip \in Group(ip)}
  <2>1. key \in Key /\ rps \in Nat /\ Taken(key) = rps
    BY <1>1, RateAssumption DEF Key, Refused, Taken
  <2>2. rps <= rps - rps + Cardinality(Since(key, rps))
    BY <1>1, <2>1 DEF IInv, Balanced
  <2>3. Since(key, rps) \in SUBSET own
    <3>1. ASSUME NEW e \in Since(key, rps) PROVE e \in own
      <4>1. e \in admitted /\ e.ip \in Ip /\ mask_ip(e.ip) = mask_ip(ip)
        BY <1>1 DEF Since, IInv, TypeOK, Admission
      <4>2. SamePrefix(ip, e.ip)
        BY <4>1, KeyMeansPrefix
      <4> QED
        BY <4>1, <4>2 DEF Group
    <3> QED
      BY <3>1
  <2>4. IsFiniteSet(own)
    <3>1. own \in SUBSET admitted /\ IsFiniteSet(admitted)
      BY <1>1 DEF IInv
    <3> QED
      BY <3>1, FS_Subset
  <2>5. Cardinality(Since(key, rps)) <= Cardinality(own)
    BY <2>3, <2>4, FS_Subset
  <2>6. Cardinality(own) \in Nat /\ Cardinality(Since(key, rps)) \in Nat
    BY <1>1, <2>4, FS_CardinalityType, SinceFinite
  <2> QED
    BY <2>1, <2>2, <2>5, <2>6 DEF InLastSecond
<1>2. IInv => RefusedForOwnTraffic
  BY <1>1 DEF RefusedForOwnTraffic
<1> QED
  BY <1>2, Invariance, PTL

\* The addresses of a prefix together are admitted at most twice rps less one
\* request within any second, however many they are.
THEOREM PrefixShares == Spec => []GroupSharesBucket
<1>1. ASSUME IInv, NEW ip \in Ip, rps # 0, prefix(ip) # 0
      PROVE  InLastSecond(Group(ip)) <= 2 * rps - 1
  <2> DEFINE key == mask_ip(ip)
             own == {e \in admitted : e.ip \in Group(ip)}
  <2>1. key \in Key /\ rps \in Nat /\ Taken(key) \in 0 .. rps
    BY <1>1, RateAssumption, LevelType DEF Key, IInv
  <2>2. Cardinality(Since(key, rps)) <= Taken(key) + rps - 1
    BY <1>1, <2>1 DEF IInv, Balanced
  <2>3. own \in SUBSET Since(key, rps)
    <3>1. ASSUME NEW e \in own PROVE e \in Since(key, rps)
      <4>1. e \in admitted /\ e \in Admission /\ e.ip \in Ip /\ SamePrefix(ip, e.ip)
        BY <1>1 DEF IInv, TypeOK, Group
      <4>2. mask_ip(e.ip) = key
        BY <1>1, <4>1, PrefixMeansKey
      <4>3. e.age < rps
        BY <4>1, OlderFields
      <4> QED
        BY <4>1, <4>2, <4>3 DEF Since
    <3> QED
      BY <3>1
  <2>4. Cardinality(own) <= Cardinality(Since(key, rps))
    BY <1>1, <2>3, SinceFinite, FS_Subset
  <2>5. Cardinality(own) \in Nat /\ Cardinality(Since(key, rps)) \in Nat
    <3>1. IsFiniteSet(own)
      BY <1>1, <2>3, SinceFinite, FS_Subset
    <3> QED
      BY <1>1, <3>1, SinceFinite, FS_CardinalityType
  <2> QED
    BY <2>1, <2>2, <2>4, <2>5 DEF InLastSecond
<1>2. IInv => GroupSharesBucket
  BY <1>1 DEF GroupSharesBucket
<1> QED
  BY <1>2, Invariance, PTL
=============================================================================
