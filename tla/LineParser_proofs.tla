-------------------------- MODULE LineParser_proofs --------------------------
(***************************************************************************)
(* Theorems about LineParser: what the formats make of a line, however long *)
(* it is and whatever it is put together from.                              *)
(***************************************************************************)
EXTENDS LineParser, SequenceTheorems, FiniteSetTheorems, WellFoundedInduction, TLAPS

\* Every set of natural numbers but the empty one has a least element.
LEMMA LeastNat ==
    ASSUME NEW T \in SUBSET Nat, T # {}
    PROVE  Min(T) \in T /\ \A y \in T : Min(T) <= y
<1> DEFINE less == {ss \in Nat \X Nat : ss[1] < ss[2]}
<1>1. IsWellFoundedOn(less, Nat)
  BY NatLessThanWellFounded DEF OpToRel
<1>2. PICK x \in T : \A y \in T : <<y, x>> \notin less
  <2> HIDE DEF less
  <2> QED
    BY <1>1, WFMin
<1>3. ASSUME NEW y \in T PROVE x <= y
  <2>1. y < x => <<y, x>> \in less
    OBVIOUS
  <2> QED
    BY <1>2, <2>1
<1> QED
  BY <1>3 DEF Min

\* Every set of natural numbers with an upper bound but the empty one has a
\* greatest element.
LEMMA GreatestUpTo ==
    ASSUME NEW n \in Nat, NEW T \in SUBSET (0 .. n), T # {}
    PROVE  Max(T) \in T /\ \A y \in T : y <= Max(T)
<1> DEFINE above == {m \in 0 .. n : \A y \in T : y <= m}
<1>1. n \in above /\ above \in SUBSET Nat
  OBVIOUS
<1>2. Min(above) \in above /\ \A m \in above : Min(above) <= m
  BY <1>1, LeastNat
<1>3. PICK m \in above : \A o \in above : m <= o
  BY <1>2
<1>4. m \in T
  <2>1. ASSUME m \notin T PROVE m - 1 \in above
    <3>1. \A y \in T : y \in Int /\ 0 <= y /\ y <= m /\ y # m
      BY <2>1, <1>3
    <3>2. m \in Nat /\ m <= n
      BY <1>3
    <3>3. PICK y \in T : TRUE
      OBVIOUS
    <3>4. m - 1 \in 0 .. n
      BY <3>1, <3>2, <3>3
    <3> QED
      BY <3>1, <3>2, <3>4
  <2> QED
    BY <2>1, <1>3
<1>5. \A y \in T : y <= m
  BY <1>3
<1> QED
  BY <1>4, <1>5 DEF Max

-----------------------------------------------------------------------------
(***************************************************************************)
(* Cuts and matches.                                                        *)
(***************************************************************************)

\* A cut of a line has the characters of the line, and those only.
LEMMA CutProperties ==
    ASSUME NEW s \in Seq(Char), NEW i \in 1 .. Len(s) + 1, NEW j \in i - 1 .. Len(s)
    PROVE  /\ Cut(s, i, j) \in Seq(Char)
           /\ Len(Cut(s, i, j)) = j - i + 1
           /\ DOMAIN Cut(s, i, j) = 1 .. j - i + 1
           /\ \A k \in 1 .. j - i + 1 : Cut(s, i, j)[k] = s[i + k - 1]
<1>1. Len(s) \in Nat
  BY LenProperties
<1>2. i \in Int /\ j \in Int /\ \A k \in i .. j : s[k] \in Char
  BY <1>1, ElementOfSeq
<1>3. /\ Cut(s, i, j) \in Seq(Char)
      /\ Len(Cut(s, i, j)) = IF i <= j THEN j - i + 1 ELSE 0
      /\ \A k \in 1 .. j - i + 1 : Cut(s, i, j)[k] = s[i + k - 1]
  BY <1>2, SubSeqProperties DEF Cut
<1>4. Len(Cut(s, i, j)) = j - i + 1
  BY <1>1, <1>3
<1> QED
  BY <1>3, <1>4, LenProperties

\* The matches Greedy chooses from.
Matches == (MinHead .. MaxHead) \X (MinTld .. MaxTld)

Best(ms, m) ==
    m \in ms /\ \A o \in ms : o[1] < m[1] \/ (o[1] = m[1] /\ o[2] <= m[2])

\* Of several matches one takes the most, and no other does.
LEMMA GreedyBest ==
    ASSUME NEW ms \in SUBSET Matches, ms # {}
    PROVE  Best(ms, Greedy(ms)) /\ \A m : Best(ms, m) => Greedy(ms) = m
<1> DEFINE heads == {m[1] : m \in ms}
           h == Max(heads)
           tlds == {m[2] : m \in {o \in ms : o[1] = h}}
           t == Max(tlds)
<1>1. /\ MaxHead \in Nat /\ MaxTld \in Nat
      /\ \A m \in ms : m = <<m[1], m[2]>> /\ m[1] \in 0 .. MaxHead /\ m[2] \in 0 .. MaxTld
  BY BoundAssumption DEF Matches
<1>2. heads \in SUBSET (0 .. MaxHead) /\ heads # {}
  BY <1>1
<1>3. h \in heads /\ \A m \in ms : m[1] <= h
  <2>1. h \in heads /\ \A y \in heads : y <= h
    <3> HIDE DEF heads
    <3> QED
      BY <1>1, <1>2, GreatestUpTo
  <2> QED
    BY <2>1
<1> HIDE DEF h
<1>4. tlds \in SUBSET (0 .. MaxTld) /\ tlds # {}
  BY <1>1, <1>3
<1>5. t \in tlds /\ \A m \in ms : m[1] = h => m[2] <= t
  <2>1. t \in tlds /\ \A y \in tlds : y <= t
    <3> HIDE DEF tlds
    <3> QED
      BY <1>1, <1>4, GreatestUpTo
  <2> QED
    BY <2>1
<1> HIDE DEF t
<1>6. PICK g \in ms : g[1] = h /\ g[2] = t
  BY <1>5
<1>7. Best(ms, g)
  <2> HIDE DEF heads, tlds
  <2> QED
    BY <1>1, <1>3, <1>5, <1>6 DEF Best
<1>8. Best(ms, Greedy(ms))
  BY <1>7 DEF Best, Greedy
<1>9. ASSUME NEW m, Best(ms, m) PROVE Greedy(ms) = m
  <2>1. m \in ms /\ Greedy(ms) \in ms
    BY <1>8, <1>9 DEF Best
  <2>2. \/ m[1] < Greedy(ms)[1]
        \/ m[1] = Greedy(ms)[1] /\ m[2] <= Greedy(ms)[2]
    BY <2>1, <1>8 DEF Best
  <2>3. \/ Greedy(ms)[1] < m[1]
        \/ Greedy(ms)[1] = m[1] /\ Greedy(ms)[2] <= m[2]
    BY <2>1, <1>9 DEF Best
  <2>4. m[1] = Greedy(ms)[1] /\ m[2] = Greedy(ms)[2]
    BY <2>1, <2>2, <2>3, <1>1
  <2> QED
    BY <2>1, <2>4, <1>1
<1> QED
  BY <1>8, <1>9

\* A match lies in the line: a dot stands where its head ends, and letters from
\* there to its end.
LEMMA MatchInLine ==
    ASSUME NEW s \in Seq(Char), NEW i \in 1 .. Len(s), NEW m \in NameAt(s, i)
    PROVE  /\ m \in Matches /\ m = <<m[1], m[2]>>
           /\ m[1] \in MinHead .. MaxHead /\ m[2] \in MinTld .. MaxTld
           /\ m[1] \in Nat \ {0} /\ m[2] \in Nat \ {0}
           /\ i + m[1] \in i + 1 .. Len(s) /\ s[i + m[1]] = "."
           /\ EndOf(i, m) \in i + m[1] + 1 .. Len(s)
           /\ \A k \in i + m[1] + 1 .. EndOf(i, m) : s[k] \in Lower
<1>1. Len(s) \in Nat /\ i \in Nat
  BY LenProperties
<1>2. /\ m \in Matches
      /\ i + m[1] + m[2] <= Len(s) /\ s[i + m[1]] = "."
      /\ \A k \in 1 .. m[2] : s[i + m[1] + k] \in Lower
  BY DEF NameAt, Matches
<1>3. PICK h \in MinHead .. MaxHead, t \in MinTld .. MaxTld : m = <<h, t>>
  BY <1>2 DEF Matches
<1>4. m[1] = h /\ m[2] = t
  BY <1>3
<1>5. h \in Nat \ {0} /\ t \in Nat \ {0}
  BY BoundAssumption
<1>6. i + h + t <= Len(s) /\ EndOf(i, m) = i + h + t
  BY <1>2, <1>4 DEF EndOf
<1>7. i + h \in i + 1 .. Len(s) /\ EndOf(i, m) \in i + h + 1 .. Len(s)
  BY <1>1, <1>5, <1>6
<1>8. ASSUME NEW k \in i + h + 1 .. EndOf(i, m) PROVE s[k] \in Lower
  <2>1. k - i - h \in 1 .. t /\ k = i + h + (k - i - h)
    BY <1>1, <1>5, <1>6, <1>8
  <2> QED
    BY <2>1, <1>2, <1>4
<1> QED
  BY <1>2, <1>3, <1>4, <1>5, <1>7, <1>8
-----------------------------------------------------------------------------
(***************************************************************************)
(* parse_domain_name decides whether a sequence is a name: labels with dots *)
(* between them.                                                            *)
(***************************************************************************)
Dots(w) == {k \in DOMAIN w : w[k] = "."} \cup {0, Len(w) + 1}

\* Where the label behind the dot i ends: there is no dot in it.
After(w, i) == Min({j \in Dots(w) : j > i})

LEMMA NextDot ==
    ASSUME NEW w \in Seq(Char), NEW i \in 0 .. Len(w)
    PROVE  /\ After(w, i) \in Dots(w) /\ After(w, i) \in i + 1 .. Len(w) + 1
           /\ \A j \in Dots(w) : j > i => After(w, i) <= j
<1> DEFINE later == {j \in Dots(w) : j > i}
<1>1. Len(w) \in Nat /\ DOMAIN w = 1 .. Len(w)
  BY LenProperties
<1>2. Dots(w) \in SUBSET (0 .. Len(w) + 1)
  BY <1>1 DEF Dots
<1>3. later \in SUBSET Nat /\ Len(w) + 1 \in later
  BY <1>1, <1>2 DEF Dots
<1>4. Min(later) \in later /\ \A j \in later : Min(later) <= j
  <2> HIDE DEF later
  <2> QED
    BY <1>3, LeastNat
<1>5. After(w, i) = Min(later)
  BY DEF After
<1> HIDE DEF later
<1> DEFINE m == Min(later)
<1>6. m \in later /\ \A j \in later : m <= j
  BY <1>4
<1> HIDE DEF m
<1>7. m \in Dots(w) /\ m > i /\ \A j \in Dots(w) : j > i => m <= j
  BY <1>6 DEF later
<1>8. m \in i + 1 .. Len(w) + 1
  BY <1>1, <1>2, <1>7
<1> QED
  BY <1>5, <1>7, <1>8 DEF m

LEMMA NameByLabels ==
    ASSUME NEW w
    PROVE  IsName(w) <=>
              \A i \in Dots(w) \ {Len(w) + 1} : IsLabel(Cut(w, i + 1, After(w, i) - 1))
  BY DEF IsName, Dots, After

\* A label by its place in the sequence.
LEMMA LabelAt ==
    ASSUME NEW w \in Seq(Char), NEW i \in 0 .. Len(w), NEW e \in i + 1 .. Len(w) + 1
    PROVE  IsLabel(Cut(w, i + 1, e - 1)) <=>
              /\ e - i - 1 \in 1 .. MaxLabel
              /\ \A p \in i + 1 .. e - 1 :
                    w[p] \in Alnum \/ (w[p] = "-" /\ p \notin {i + 1, e - 1})
<1> DEFINE l == Cut(w, i + 1, e - 1)
           n == e - i - 1
<1>1. Len(w) \in Nat
  BY LenProperties
<1>2. PICK f \in 1 .. Len(w) + 1 : \E g \in f - 1 .. Len(w) :
        f = i + 1 /\ g = e - 1 /\ g - f + 1 = n
  BY <1>1
<1>3. PICK g \in f - 1 .. Len(w) : f = i + 1 /\ g = e - 1 /\ g - f + 1 = n
  BY <1>2
<1>4. Len(l) = n /\ DOMAIN l = 1 .. n /\ \A k \in 1 .. n : l[k] = w[i + 1 + k - 1]
  <2>1. /\ Len(Cut(w, f, g)) = g - f + 1 /\ DOMAIN Cut(w, f, g) = 1 .. g - f + 1
        /\ \A k \in 1 .. g - f + 1 : Cut(w, f, g)[k] = w[f + k - 1]
    BY CutProperties
  <2> HIDE DEF n
  <2> QED
    BY <2>1, <1>3
<1>5. \A k \in 1 .. n : i + 1 + k - 1 = i + k
  BY <1>1
<1>6. \A k \in 1 .. n : l[k] = w[i + k]
  BY <1>4, <1>5
<1> HIDE DEF l
<1>7. \A k \in 1 .. n : i + k \in i + 1 .. e - 1 /\ (k \in {1, n} <=> i + k \in {i + 1, e - 1})
  BY <1>1
<1>8. \A p \in i + 1 .. e - 1 : p - i \in 1 .. n /\ i + (p - i) = p
  BY <1>1
<1>9. IsLabel(l) <=> /\ n \in 1 .. MaxLabel
                     /\ \A k \in 1 .. n : l[k] \in Alnum \/ (l[k] = "-" /\ k \notin {1, n})
  BY <1>4 DEF IsLabel
<1>10. (\A k \in 1 .. n : l[k] \in Alnum \/ (l[k] = "-" /\ k \notin {1, n}))
      <=> \A p \in i + 1 .. e - 1 : w[p] \in Alnum \/ (w[p] = "-" /\ p \notin {i + 1, e - 1})
  <2> HIDE DEF n
  <2>1. ASSUME NEW p \in i + 1 .. e - 1,
               \A k \in 1 .. n : l[k] \in Alnum \/ (l[k] = "-" /\ k \notin {1, n})
        PROVE  w[p] \in Alnum \/ (w[p] = "-" /\ p \notin {i + 1, e - 1})
    <3>1. PICK k \in 1 .. n : i + k = p
      BY <1>8
    <3> QED
      BY <2>1, <3>1, <1>6, <1>7
  <2>2. ASSUME NEW k \in 1 .. n,
               \A p \in i + 1 .. e - 1 : w[p] \in Alnum \/ (w[p] = "-" /\ p \notin {i + 1, e - 1})
        PROVE  l[k] \in Alnum \/ (l[k] = "-" /\ k \notin {1, n})
    BY <2>2, <1>6, <1>7
  <2> QED
    BY <2>1, <2>2
<1> QED
  BY <1>9, <1>10 DEF l

LEMMA DotsOf ==
    ASSUME NEW w \in Seq(Char)
    PROVE  /\ Dots(w) \in SUBSET (0 .. Len(w) + 1)
           /\ 0 \in Dots(w) /\ Len(w) + 1 \in Dots(w)
           /\ \A i \in 1 .. Len(w) : i \in Dots(w) <=> w[i] = "."
<1>1. Len(w) \in Nat /\ DOMAIN w = 1 .. Len(w)
  BY LenProperties
<1> QED
  BY <1>1 DEF Dots

\* What parse_domain_name asks of each position.
LegalAt(n, i) ==
    /\ n[i] \in Alnum \cup {".", "-"}
    /\ i = 1 \/ n[i - 1] = "." => n[i] \in Alnum
    /\ i = Len(n) \/ n[i + 1] = "." => n[i] \in Alnum
    /\ \E k \in i .. i + MaxLabel : k > Len(n) \/ n[k] = "."

LEMMA LegalByPosition ==
    ASSUME NEW n \in Seq(Char)
    PROVE  parse_domain_name(n) <=> n # <<>> /\ \A i \in 1 .. Len(n) : LegalAt(n, i)
<1>1. parse_domain_name(n) <=> n # <<>> /\ \A i \in DOMAIN n : LegalAt(n, i)
  BY DEF parse_domain_name, LegalAt
<1> QED
  BY <1>1, LenProperties

LEMMA LegalIsName ==
    ASSUME NEW n \in Seq(Char), parse_domain_name(n)
    PROVE  IsName(n)
<1>1. Len(n) \in Nat \ {0} /\ MaxLabel \in Nat
  BY LenProperties, EmptySeq, BoundAssumption, LegalByPosition
<1>2. \A i \in 1 .. Len(n) :
        /\ n[i] \in Alnum \cup {".", "-"}
        /\ i = 1 \/ n[i - 1] = "." => n[i] \in Alnum
        /\ i = Len(n) \/ n[i + 1] = "." => n[i] \in Alnum
        /\ \E k \in i .. i + MaxLabel : k > Len(n) \/ n[k] = "."
  BY LegalByPosition DEF LegalAt
<1>3. "." \notin Alnum
  BY DEF Alnum, Lower
<1>4. /\ Dots(n) \in SUBSET (0 .. Len(n) + 1) /\ 0 \in Dots(n) /\ Len(n) + 1 \in Dots(n)
      /\ \A i \in 1 .. Len(n) : i \in Dots(n) <=> n[i] = "."
  BY DotsOf
<1>5. ASSUME NEW i \in Dots(n) \ {Len(n) + 1}
      PROVE  IsLabel(Cut(n, i + 1, After(n, i) - 1))
  <2> DEFINE e == After(n, i)
  <2>1. i \in 0 .. Len(n) /\ (i # 0 => n[i] = ".")
    BY <1>1, <1>4
  <2>2. e \in Dots(n) /\ e \in i + 1 .. Len(n) + 1 /\ \A j \in Dots(n) : j > i => e <= j
    BY <2>1, NextDot
  <2> HIDE DEF e
  <2>3. e = Len(n) + 1 \/ n[e] = "."
    BY <1>4, <2>2
  <2>4. \A p \in i + 1 .. e - 1 : p \in 1 .. Len(n) /\ n[p] # "."
    BY <1>1, <1>4, <2>1, <2>2
  <2>5. e # i + 1
    <3>1. CASE e = Len(n) + 1 /\ e = i + 1
      <4>1. i = Len(n) /\ i \in 1 .. Len(n)
        BY <3>1, <1>1, <2>1
      <4>2. n[i] \in Alnum /\ n[i] = "."
        BY <4>1, <1>2, <2>1, <1>1
      <4> QED
        BY <4>2, <1>3
    <3>2. CASE e # Len(n) + 1 /\ e = i + 1
      <4>1. e \in 1 .. Len(n) /\ n[e] = "." /\ (e = 1 \/ n[e - 1] = ".")
        BY <3>2, <1>1, <2>1, <2>2, <2>3
      <4> QED
        BY <4>1, <1>2, <1>3
    <3> QED
      BY <3>1, <3>2
  <2>6. e - i - 1 \in 1 .. MaxLabel
    <3>1. i + 1 \in 1 .. Len(n)
      BY <1>1, <2>1, <2>2, <2>5
    <3>2. PICK k \in i + 1 .. i + 1 + MaxLabel : k > Len(n) \/ n[k] = "."
      BY <3>1, <1>2
    <3>3. e <= k
      <4>1. CASE k > Len(n)
        BY <4>1, <1>1, <2>1, <2>2
      <4>2. CASE k <= Len(n)
        <5>1. k \in Dots(n) /\ k > i
          BY <4>2, <3>2, <1>1, <1>4, <2>1
        <5> QED
          BY <5>1, <2>2
      <4> QED
        BY <4>1, <4>2, <1>1, <2>1
    <3> QED
      BY <3>3, <1>1, <2>1, <2>2, <2>5
  <2>7. ASSUME NEW p \in i + 1 .. e - 1
        PROVE  n[p] \in Alnum \/ (n[p] = "-" /\ p \notin {i + 1, e - 1})
    <3>1. p \in 1 .. Len(n) /\ n[p] \in Alnum \cup {"-"}
      BY <1>2, <2>4
    <3>2. ASSUME p = i + 1 PROVE n[p] \in Alnum
      <4>1. p = 1 \/ n[p - 1] = "."
        BY <3>2, <1>1, <2>1
      <4> QED
        BY <4>1, <3>1, <1>2
    <3>3. ASSUME p = e - 1 PROVE n[p] \in Alnum
      <4>1. p = Len(n) \/ n[p + 1] = "."
        BY <3>3, <1>1, <2>2, <2>3
      <4> QED
        BY <4>1, <3>1, <1>2
    <3> QED
      BY <3>1, <3>2, <3>3
  <2>8. IsLabel(Cut(n, i + 1, e - 1))
    BY <2>1, <2>2, <2>6, <2>7, LabelAt
  <2> QED
    BY <2>8 DEF e
<1> QED
  BY <1>5, NameByLabels

LEMMA NameIsLegal ==
    ASSUME NEW n \in Seq(Char), IsName(n)
    PROVE  parse_domain_name(n)
<1>1. Len(n) \in Nat /\ MaxLabel \in Nat
  BY LenProperties, BoundAssumption
<1>2. /\ Dots(n) \in SUBSET (0 .. Len(n) + 1) /\ 0 \in Dots(n) /\ Len(n) + 1 \in Dots(n)
      /\ \A i \in 1 .. Len(n) : i \in Dots(n) <=> n[i] = "."
  BY DotsOf
\* Between two dots that follow one another is a label.
<1>3. ASSUME NEW i \in Dots(n), i # Len(n) + 1
      PROVE  /\ After(n, i) \in Dots(n) /\ After(n, i) \in i + 1 .. Len(n) + 1
             /\ \A j \in Dots(n) : j > i => After(n, i) <= j
             /\ After(n, i) - i - 1 \in 1 .. MaxLabel
             /\ \A p \in i + 1 .. After(n, i) - 1 :
                   n[p] \in Alnum \/ (n[p] = "-" /\ p \notin {i + 1, After(n, i) - 1})
  <2>1. i \in 0 .. Len(n)
    BY <1>1, <1>2, <1>3
  <2>2. /\ After(n, i) \in Dots(n) /\ After(n, i) \in i + 1 .. Len(n) + 1
        /\ \A j \in Dots(n) : j > i => After(n, i) <= j
    BY <2>1, NextDot
  <2>3. IsLabel(Cut(n, i + 1, After(n, i) - 1))
    BY <1>3, NameByLabels
  <2> HIDE DEF After
  <2> QED
    BY <2>1, <2>2, <2>3, LabelAt
\* So two dots never stand side by side, nor one at either end.
<1>4. ASSUME NEW i \in Dots(n), i # Len(n) + 1 PROVE i + 1 \notin Dots(n)
  <2>1. i \in Nat /\ (i + 1 \in Dots(n) => After(n, i) <= i + 1)
    BY <1>1, <1>2, <1>3, <1>4
  <2>2. After(n, i) - i - 1 \in 1 .. MaxLabel /\ After(n, i) \in i + 1 .. Len(n) + 1
    BY <1>3, <1>4
  <2> QED
    BY <2>1, <2>2, <1>1
<1>5. n # <<>>
  <2>1. 0 \in Dots(n) /\ (Len(n) = 0 => 0 + 1 \in Dots(n) /\ 0 # Len(n) + 1)
    BY <1>2
  <2>2. Len(n) # 0
    BY <2>1, <1>4
  <2> QED
    BY <2>2, EmptySeq
<1>6. ASSUME NEW i \in 1 .. Len(n)
      PROVE  /\ n[i] \in Alnum \cup {".", "-"}
             /\ i = 1 \/ n[i - 1] = "." => n[i] \in Alnum
             /\ i = Len(n) \/ n[i + 1] = "." => n[i] \in Alnum
             /\ \E k \in i .. i + MaxLabel : k > Len(n) \/ n[k] = "."
  <2>1. CASE n[i] = "."
    <3>1. i \in Dots(n) /\ i # Len(n) + 1 /\ i + 1 \notin Dots(n)
      <4>1. i \in Dots(n) /\ i # Len(n) + 1
        BY <2>1, <1>1, <1>2
      <4> QED
        BY <4>1, <1>4
    <3>2. i - 1 \notin Dots(n)
      <4>1. i - 1 # Len(n) + 1 /\ (i - 1) + 1 = i
        BY <1>1
      <4> QED
        BY <4>1, <3>1, <1>4
    <3>3. i # 1 /\ n[i - 1] # "."
      BY <3>2, <1>1, <1>2
    <3>4. i # Len(n) /\ n[i + 1] # "."
      BY <3>1, <1>1, <1>2
    <3>5. i \in i .. i + MaxLabel
      BY <1>1
    <3> QED
      BY <2>1, <3>3, <3>4, <3>5
  <2>2. CASE n[i] # "."
    <3> DEFINE before == {j \in Dots(n) : j < i}
               d == Max(before)
               e == After(n, d)
    <3>1. before \in SUBSET (0 .. i) /\ 0 \in before
      BY <1>1, <1>2
    <3>2. d \in before /\ \A j \in before : j <= d
      <4> HIDE DEF before
      <4>1. i \in Nat /\ before # {}
        BY <3>1, <1>1
      <4> QED
        BY <3>1, <4>1, GreatestUpTo
    <3>3. d \in Dots(n) /\ d \in 0 .. i - 1 /\ d # Len(n) + 1
          /\ \A j \in Dots(n) : j < i => j <= d
      BY <3>1, <3>2, <1>1
    <3> HIDE DEF d
    <3>4. /\ e \in Dots(n) /\ e \in d + 1 .. Len(n) + 1 /\ \A j \in Dots(n) : j > d => e <= j
          /\ e - d - 1 \in 1 .. MaxLabel
          /\ \A p \in d + 1 .. e - 1 :
                n[p] \in Alnum \/ (n[p] = "-" /\ p \notin {d + 1, e - 1})
      BY <3>3, <1>3
    <3> HIDE DEF e
    <3>5. e > i
      BY <2>2, <3>3, <3>4, <1>1, <1>2
    <3>6. i \in d + 1 .. e - 1
      BY <3>3, <3>4, <3>5, <1>1
    <3>7. ASSUME i = 1 \/ n[i - 1] = "." PROVE i = d + 1
      <4>1. i - 1 \in Dots(n) /\ i - 1 < i
        BY <3>7, <1>1, <1>2
      <4> QED
        BY <4>1, <3>3, <1>1
    <3>8. ASSUME i = Len(n) \/ n[i + 1] = "." PROVE i = e - 1
      <4>1. i + 1 \in Dots(n) /\ i + 1 > d
        BY <3>8, <3>3, <1>1, <1>2
      <4> QED
        BY <4>1, <3>4, <3>5, <1>1
    <3>9. e \in i .. i + MaxLabel /\ (e > Len(n) \/ n[e] = ".")
      BY <3>3, <3>4, <3>5, <1>1, <1>2
    <3> QED
      BY <3>4, <3>6, <3>7, <3>8, <3>9
  <2> QED
    BY <2>1, <2>2
<1>7. \A i \in 1 .. Len(n) : LegalAt(n, i)
  BY <1>6 DEF LegalAt
<1> QED
  BY <1>5, <1>7, LegalByPosition
-----------------------------------------------------------------------------
(***************************************************************************)
(* What Checked makes of a match.                                           *)
(***************************************************************************)

\* The classes of characters.
Blank == " "

LEMMA Characters ==
    /\ Alnum \cup {".", "-"} \subseteq Char /\ {"*", "#", Blank} \subseteq Char
    /\ Lower \subseteq Alnum /\ "A" \in Alnum /\ "a" \in Lower
    /\ \A c \in {".", "-", "*", "#", Blank} : c \notin Alnum
    /\ "A" \notin Lower /\ "I" \notin Lower /\ "C" \notin Lower
    /\ Blank \notin {".", "-", "*", "#", "A", "I", "C"}
  BY DEF Char, Alnum, Lower, Blank

LEMMA SequenceOfFunction ==
    ASSUME NEW c \in Nat, NEW f \in [1 .. c -> Char]
    PROVE  f \in Seq(Char) /\ Len(f) = c
<1>1. f \in Seq(Char)
  BY SeqDef
<1>2. DOMAIN f = 1 .. c /\ DOMAIN f = 1 .. Len(f) /\ Len(f) \in Nat
  BY <1>1, LenProperties
<1>3. PICK n \in Nat : n = Len(f) /\ 1 .. c = 1 .. n
  BY <1>2
<1>4. \A k \in Int : k \in 1 .. c <=> k \in 1 .. n
  BY <1>3
<1>5. c = n
  BY <1>4
<1> QED
  BY <1>1, <1>3, <1>5

\* Lower case is as long, and stands where the other stood.
LEMMA LowercaseOf ==
    ASSUME NEW w \in Seq(Char)
    PROVE  /\ lowercase(w) \in Seq(Char) /\ Len(lowercase(w)) = Len(w)
           /\ \A k \in 1 .. Len(w) : lowercase(w)[k] = IF w[k] = "A" THEN "a" ELSE w[k]
           /\ domain_to_ascii(w) = lowercase(w)
<1>1. Len(w) \in Nat /\ \A k \in 1 .. Len(w) : w[k] \in Char
  BY LenProperties, ElementOfSeq
<1>2. lowercase(w) = [k \in 1 .. Len(w) |-> IF w[k] = "A" THEN "a" ELSE w[k]]
  BY LenProperties DEF lowercase
<1>3. "a" \in Char
  BY Characters
<1>4. lowercase(w) \in [1 .. Len(w) -> Char]
  BY <1>1, <1>2, <1>3
<1> QED
  BY <1>1, <1>2, <1>4, SequenceOfFunction DEF lowercase, domain_to_ascii

\* A sequence without capitals is its own lower case.
LEMMA NoCapitals ==
    ASSUME NEW w \in Seq(Char), \A k \in 1 .. Len(w) : w[k] # "A"
    PROVE  lowercase(w) = w
<1>1. \A k \in 1 .. Len(w) : lowercase(w)[k] = w[k]
  BY LowercaseOf
<1> QED
  BY <1>1, LowercaseOf, SeqEqual

\* A legal name stays one in lower case.
LEMMA LegalInLowercase ==
    ASSUME NEW n \in Seq(Char), parse_domain_name(n)
    PROVE  parse_domain_name(lowercase(n))
<1> DEFINE l == lowercase(n)
<1>1. l \in Seq(Char) /\ Len(l) = Len(n)
      /\ \A k \in 1 .. Len(n) : l[k] = IF n[k] = "A" THEN "a" ELSE n[k]
  BY LowercaseOf
<1>2. Len(n) \in Nat \ {0} /\ \A i \in 1 .. Len(n) : LegalAt(n, i)
  BY LenProperties, EmptySeq, LegalByPosition
<1>3. \A k \in 1 .. Len(n) : /\ l[k] \in Alnum <=> n[k] \in Alnum
                             /\ l[k] = "." <=> n[k] = "."
                             /\ n[k] \in Alnum \cup {".", "-"} => l[k] \in Alnum \cup {".", "-"}
  BY <1>1, Characters
<1> HIDE DEF l
<1>4. ASSUME NEW i \in 1 .. Len(n) PROVE LegalAt(l, i)
  <2>1. LegalAt(n, i)
    BY <1>2
  <2>2. i = 1 \/ (i - 1 \in 1 .. Len(n) /\ (l[i - 1] = "." <=> n[i - 1] = "."))
    BY <1>2, <1>3
  <2>3. i = Len(n) \/ (i + 1 \in 1 .. Len(n) /\ (l[i + 1] = "." <=> n[i + 1] = "."))
    BY <1>2, <1>3
  <2>4. \E k \in i .. i + MaxLabel : k > Len(l) \/ l[k] = "."
    <3>1. PICK k \in i .. i + MaxLabel : k > Len(n) \/ n[k] = "."
      BY <2>1 DEF LegalAt
    <3>2. k > Len(n) \/ k \in 1 .. Len(n)
      BY <1>2, BoundAssumption
    <3> QED
      BY <3>1, <3>2, <1>1, <1>3
  <2> QED
    BY <2>1, <2>2, <2>3, <2>4, <1>1, <1>3 DEF LegalAt
<1>5. l # <<>>
  BY <1>1, <1>2, EmptySeq
<1> QED
  BY <1>1, <1>4, <1>5, LegalByPosition DEF l

\* WithoutStars by the positions it keeps.
StarAt(n, i) == n[i] = "*" /\ i < Len(n) /\ n[i + 1] = "."
Kept(n) == {i \in DOMAIN n : ~StarAt(n, i) /\ ~(i > 1 /\ StarAt(n, i - 1))}
Rank(n, i) == Cardinality({j \in Kept(n) : j <= i})
Nth(n, k) == CHOOSE i \in Kept(n) : Rank(n, i) = k

LEMMA WithoutStarsKeeps ==
    ASSUME NEW n \in Seq(Char)
    PROVE  /\ IsFiniteSet(Kept(n)) /\ Cardinality(Kept(n)) \in Nat
           /\ Kept(n) \in SUBSET (1 .. Len(n))
           /\ WithoutStars(n) = [k \in 1 .. Cardinality(Kept(n)) |-> n[Nth(n, k)]]
<1>1. Len(n) \in Nat /\ Kept(n) \in SUBSET (1 .. Len(n))
  BY LenProperties DEF Kept
<1>2. IsFiniteSet(1 .. Len(n))
  BY <1>1, FS_Interval
<1>3. IsFiniteSet(Kept(n)) /\ Cardinality(Kept(n)) \in Nat
  BY <1>1, <1>2, FS_Subset, FS_CardinalityType
<1>4. WithoutStars(n) = [k \in 1 .. Cardinality(Kept(n)) |-> n[Nth(n, k)]]
  BY DEF WithoutStars, Kept, StarAt, Nth, Rank
<1> QED
  BY <1>1, <1>3, <1>4

\* What Checked tests is a sequence whenever the test succeeds.
LEMMA TestedIsSequence ==
    ASSUME NEW n \in Seq(Char), parse_domain_name(WithoutStars(n))
    PROVE  WithoutStars(n) \in Seq(Char)
<1> DEFINE c == Cardinality(Kept(n))
           w == WithoutStars(n)
<1>1. c \in Nat /\ w = [k \in 1 .. c |-> n[Nth(n, k)]]
  BY WithoutStarsKeeps
<1> HIDE DEF c
<1>2. DOMAIN w = 1 .. c
  BY <1>1
<1>3. \A k \in DOMAIN w : w[k] \in Alnum \cup {".", "-"}
  BY DEF parse_domain_name
<1>4. \A k \in 1 .. c : w[k] \in Char
  BY <1>2, <1>3, Characters
<1>5. w \in [1 .. c -> Char]
  BY <1>1, <1>4
<1> QED
  BY <1>1, <1>5, SequenceOfFunction

\* A star in front and nothing else.
LEMMA StarInFront ==
    ASSUME NEW l \in Seq(Char)
    PROVE  LET r == <<"*", ".">> \o l IN
           /\ r \in Seq(Char) /\ Len(r) = Len(l) + 2
           /\ r[1] = "*" /\ r[2] = "." /\ \A k \in 3 .. Len(l) + 2 : r[k] = l[k - 2]
           /\ HasStar(r) /\ Starless(r) = l
<1> DEFINE star == <<"*", ".">>
           r == star \o l
<1>1. star \in Seq(Char) /\ Len(star) = 2 /\ star[1] = "*" /\ star[2] = "."
  BY Characters
<1>2. Len(l) \in Nat
  BY LenProperties
<1>3. /\ r \in Seq(Char) /\ Len(r) = Len(star) + Len(l)
      /\ \A k \in 1 .. Len(star) + Len(l) :
            r[k] = IF k <= Len(star) THEN star[k] ELSE l[k - Len(star)]
  BY <1>1, ConcatProperties
<1>4. /\ Len(r) = Len(l) + 2 /\ r[1] = "*" /\ r[2] = "."
      /\ \A k \in 3 .. Len(l) + 2 : r[k] = l[k - 2]
  <2> HIDE DEF r, star
  <2> QED
    BY <1>1, <1>2, <1>3
<1> HIDE DEF r
<1>5. HasStar(r)
  BY <1>2, <1>4 DEF HasStar
<1>6. Starless(r) = l
  <2>1. PICK i \in 1 .. Len(r) + 1 : i = 3
    BY <1>2, <1>4
  <2>2. Len(r) \in i - 1 .. Len(r)
    BY <1>2, <1>4, <2>1
  <2>3. /\ Cut(r, 3, Len(r)) \in Seq(Char)
        /\ Len(Cut(r, 3, Len(r))) = Len(r) - 3 + 1
        /\ \A k \in 1 .. Len(r) - 3 + 1 : Cut(r, 3, Len(r))[k] = r[3 + k - 1]
    BY <1>3, <2>1, <2>2, CutProperties
  <2> DEFINE t == Cut(r, 3, Len(r))
  <2> HIDE DEF t
  <2>4. t \in Seq(Char) /\ Len(t) = Len(l)
    BY <1>2, <1>4, <2>3 DEF t
  <2>5. ASSUME NEW k \in 1 .. Len(t) PROVE t[k] = l[k]
    <3>1. k \in 1 .. Len(r) - 3 + 1 /\ 3 + k - 1 \in 3 .. Len(l) + 2 /\ 3 + k - 1 - 2 = k
      BY <1>2, <1>4, <2>4
    <3>2. t[k] = r[3 + k - 1]
      BY <2>3, <3>1 DEF t
    <3>3. r[3 + k - 1] = l[3 + k - 1 - 2]
      BY <1>4, <3>1
    <3> QED
      BY <3>1, <3>2, <3>3
  <2>6. t = l
    BY <2>4, <2>5, SeqEqual
  <2> QED
    BY <1>5, <2>6 DEF Starless, t
<1> QED
  BY <1>3, <1>4, <1>5, <1>6 DEF r

\* A legal name begins with a letter or a digit and has no star and no blank.
LEMMA LegalCharacters ==
    ASSUME NEW n \in Seq(Char), parse_domain_name(n)
    PROVE  /\ Len(n) \in Nat \ {0} /\ n[1] \in Alnum
           /\ \A k \in 1 .. Len(n) : n[k] \in Alnum \cup {".", "-"}
           /\ \A k \in 1 .. Len(n) : n[k] # "*" /\ n[k] # Blank
           /\ ~HasStar(n)
<1>1. Len(n) \in Nat \ {0} /\ \A i \in 1 .. Len(n) : LegalAt(n, i)
  BY LenProperties, EmptySeq, LegalByPosition
<1>2. 1 \in 1 .. Len(n)
  BY <1>1
<1>3. n[1] \in Alnum /\ \A k \in 1 .. Len(n) : n[k] \in Alnum \cup {".", "-"}
  BY <1>1, <1>2 DEF LegalAt
<1>4. \A c \in Alnum \cup {".", "-"} : c # "*" /\ c # Blank
  BY Characters
<1>5. n[1] # "*"
  BY <1>2, <1>3, <1>4
<1> QED
  BY <1>1, <1>3, <1>4, <1>5 DEF HasStar

\* Whatever Checked lets pass is a name in lower case, but for a star.
LEMMA CheckedIsName ==
    ASSUME NEW n \in Seq(Char), Checked(n) # None
    PROVE  /\ Checked(n) \in Seq(Char) /\ lowercase(Checked(n)) = Checked(n)
           /\ IsName(Starless(Checked(n)))
<1> DEFINE bare == IF HasStar(n) THEN WithoutStars(n) ELSE n
           l == lowercase(bare)
<1>1. parse_domain_name(bare) /\ bare \in Seq(Char)
  BY TestedIsSequence DEF Checked
<1>2. Checked(n) = (IF HasStar(n) THEN <<"*", ".">> ELSE <<>>) \o domain_to_ascii(bare)
  BY <1>1 DEF Checked
<1> HIDE DEF bare
<1>3. l \in Seq(Char) /\ domain_to_ascii(bare) = l /\ parse_domain_name(l) /\ Len(l) = Len(bare)
  BY <1>1, LowercaseOf, LegalInLowercase
<1>4. \A k \in 1 .. Len(l) : l[k] # "A"
  BY <1>1, <1>3, LowercaseOf, Characters
<1> HIDE DEF l
<1>5. IsName(l) /\ ~HasStar(l) /\ Len(l) \in Nat
  BY <1>3, LegalIsName, LegalCharacters
<1>6. CASE HasStar(n)
  <2> DEFINE r == <<"*", ".">> \o l
  <2>1. /\ r \in Seq(Char) /\ Len(r) = Len(l) + 2 /\ r[1] = "*" /\ r[2] = "."
        /\ \A k \in 3 .. Len(l) + 2 : r[k] = l[k - 2]
        /\ Starless(r) = l
    BY <1>3, StarInFront
  <2>2. Checked(n) = r
    BY <1>2, <1>3, <1>6
  <2> HIDE DEF r
  <2>3. ASSUME NEW k \in 1 .. Len(r) PROVE r[k] # "A"
    <3>1. k \in {1, 2} \/ (k \in 3 .. Len(l) + 2 /\ k - 2 \in 1 .. Len(l))
      BY <2>1, <1>5
    <3> QED
      BY <3>1, <2>1, <1>4
  <2>4. lowercase(r) = r
    BY <2>1, <2>3, NoCapitals
  <2> QED
    BY <2>1, <2>2, <2>4, <1>5
<1>7. CASE ~HasStar(n)
  <2>1. Checked(n) = l
    BY <1>2, <1>3, <1>7, ConcatEmptySeq
  <2>2. lowercase(l) = l
    BY <1>3, <1>4, NoCapitals
  <2>3. Starless(l) = l
    BY <1>5 DEF Starless
  <2> QED
    BY <2>1, <2>2, <2>3, <1>3, <1>5
<1> QED
  BY <1>6, <1>7

\* A position kept has a rank, and is the only one of that rank.
LEMMA RankOfKept ==
    ASSUME NEW n \in Seq(Char), NEW p \in Kept(n)
    PROVE  /\ Rank(n, p) \in 1 .. Cardinality(Kept(n))
           /\ Nth(n, Rank(n, p)) = p
<1> DEFINE upto(i) == {j \in Kept(n) : j <= i}
<1>1. IsFiniteSet(Kept(n)) /\ Cardinality(Kept(n)) \in Nat /\ Kept(n) \in SUBSET (1 .. Len(n))
  BY WithoutStarsKeeps
<1>2. Len(n) \in Nat /\ Kept(n) \in SUBSET Int
  BY <1>1, LenProperties
<1>3. ASSUME NEW i \in Kept(n)
      PROVE  IsFiniteSet(upto(i)) /\ Rank(n, i) = Cardinality(upto(i))
             /\ Cardinality(upto(i)) \in Nat /\ Cardinality(upto(i)) <= Cardinality(Kept(n))
  <2>1. upto(i) \in SUBSET Kept(n)
    OBVIOUS
  <2>2. IsFiniteSet(upto(i)) /\ Cardinality(upto(i)) <= Cardinality(Kept(n))
    BY <1>1, <2>1, FS_Subset
  <2> QED
    BY <2>2, FS_CardinalityType DEF Rank
<1>4. upto(p) # {}
  BY <1>2
<1>5. Rank(n, p) # 0
  BY <1>3, <1>4, FS_EmptySet
\* Of two positions kept the later one outranks the earlier.
<1>6. ASSUME NEW i \in Kept(n), NEW j \in Kept(n), i < j PROVE Rank(n, i) # Rank(n, j)
  <2>1. upto(i) \in SUBSET upto(j) /\ upto(i) # upto(j)
    BY <1>2, <1>6
  <2> QED
    BY <2>1, <1>3, FS_Subset
<1>7. ASSUME NEW i \in Kept(n), Rank(n, i) = Rank(n, p) PROVE i = p
  BY <1>2, <1>6, <1>7
<1>8. Nth(n, Rank(n, p)) = p
  BY <1>7 DEF Nth
<1>9. Rank(n, p) \in Nat /\ Rank(n, p) <= Cardinality(Kept(n))
  BY <1>3
<1> QED
  BY <1>1, <1>5, <1>8, <1>9

\* A match with a blank in it is no rule: neither test nor WithoutStars drops it.
LEMMA CheckedBlank ==
    ASSUME NEW n \in Seq(Char), NEW p \in 1 .. Len(n), n[p] = Blank
    PROVE  Checked(n) = None
<1> DEFINE w == WithoutStars(n)
<1>1. ~parse_domain_name(n)
  BY LegalCharacters
<1>2. SUFFICES ASSUME parse_domain_name(w) PROVE FALSE
  BY <1>1 DEF Checked
<1>3. w \in Seq(Char)
  BY <1>2, TestedIsSequence
<1>4. p \in Kept(n)
  <2>1. p \in DOMAIN n /\ p - 1 + 1 = p
    BY LenProperties
  <2>2. n[p] # "*" /\ n[p - 1 + 1] # "."
    BY <2>1, Characters
  <2> QED
    BY <2>1, <2>2 DEF Kept, StarAt
<1> DEFINE k == Rank(n, p)
<1>5. k \in 1 .. Cardinality(Kept(n)) /\ Nth(n, k) = p
  BY <1>4, RankOfKept
<1>6. w = [h \in 1 .. Cardinality(Kept(n)) |-> n[Nth(n, h)]]
  BY WithoutStarsKeeps
<1> HIDE DEF w, k
<1>7. w[k] = Blank /\ k \in DOMAIN w
  BY <1>5, <1>6
<1>8. k \in 1 .. Len(w)
  BY <1>3, <1>7, LenProperties
<1> QED
  BY <1>2, <1>3, <1>7, <1>8, LegalCharacters

\* So is one that begins with the sign of a comment.
LEMMA CheckedComment ==
    ASSUME NEW n \in Seq(Char), n[1] = "#"
    PROVE  Checked(n) = None
<1>1. ~HasStar(n)
  BY DEF HasStar
<1>2. ~parse_domain_name(n)
  BY LegalCharacters, Characters
<1> QED
  BY <1>1, <1>2 DEF Checked

\* A name behind a star: the star is all that WithoutStars takes away.
LEMMA WithoutItsStar ==
    ASSUME NEW n \in Seq(Char), HasStar(n), IsName(Starless(n))
    PROVE  /\ Starless(n) \in Seq(Char) /\ Len(n) = Len(Starless(n)) + 2
           /\ \A k \in 1 .. Len(Starless(n)) : Starless(n)[k] = n[k + 2]
           /\ WithoutStars(n) = Starless(n) /\ parse_domain_name(Starless(n))
<1> DEFINE w == Starless(n)
           L == Len(n)
<1>1. L \in Nat /\ L >= 2 /\ n[1] = "*" /\ n[2] = "."
  BY LenProperties DEF HasStar
<1>2. w \in Seq(Char) /\ Len(w) = L - 2 /\ \A k \in 1 .. L - 2 : w[k] = n[k + 2]
  <2>1. w = Cut(n, 3, L)
    BY DEF Starless
  <2>2. PICK i \in 1 .. L + 1 : i = 3
    BY <1>1
  <2>3. L \in i - 1 .. L
    BY <1>1, <2>2
  <2>4. /\ w \in Seq(Char) /\ Len(w) = L - 3 + 1
        /\ \A k \in 1 .. L - 3 + 1 : w[k] = n[3 + k - 1]
    BY <2>1, <2>2, <2>3, CutProperties
  <2>5. L - 3 + 1 = L - 2 /\ \A k \in 1 .. L - 2 : 3 + k - 1 = k + 2
    BY <1>1
  <2> HIDE DEF L, w
  <2>6. ASSUME NEW k \in 1 .. L - 2 PROVE w[k] = n[k + 2]
    BY <2>4, <2>5
  <2>7. Len(w) = L - 2
    BY <2>4, <2>5
  <2> QED
    BY <2>4, <2>6, <2>7
<1>3. parse_domain_name(w)
  BY <1>2, NameIsLegal
<1>4. L - 2 \in Nat \ {0} /\ \A k \in 1 .. L - 2 : w[k] # "*"
  BY <1>2, <1>3, LegalCharacters
<1> HIDE DEF w
<1>5. ASSUME NEW i \in 3 .. L PROVE n[i] # "*"
  <2>1. i - 2 \in 1 .. L - 2 /\ (i - 2) + 2 = i
    BY <1>1
  <2> QED
    BY <2>1, <1>2, <1>4
<1>6. Kept(n) = 3 .. L
  <2>1. DOMAIN n = 1 .. L
    BY LenProperties
  <2>2. StarAt(n, 1) /\ 1 \notin Kept(n)
    BY <1>1 DEF StarAt, Kept
  <2>3. 2 \notin Kept(n)
    <3>1. 2 - 1 = 1
      OBVIOUS
    <3> QED
      BY <2>2, <3>1 DEF Kept
  <2>4. ASSUME NEW i \in 3 .. L PROVE i \in Kept(n)
    <3>1. n[i] # "*" /\ n[i - 1] # "*"
      <4>1. i - 1 = 2 \/ i - 1 \in 3 .. L
        BY <1>1
      <4> QED
        BY <4>1, <1>1, <1>5
    <3>2. i \in DOMAIN n
      BY <2>1, <1>1
    <3> QED
      BY <3>1, <3>2 DEF Kept, StarAt
  <2>5. \A i \in Kept(n) : i \in 1 .. L
    BY <2>1 DEF Kept
  <2>6. \A i \in 1 .. L : i = 1 \/ i = 2 \/ i \in 3 .. L
    BY <1>1
  <2> HIDE DEF L
  <2> QED
    BY <2>2, <2>3, <2>4, <2>5, <2>6
<1>7. Cardinality(Kept(n)) = L - 2
  BY <1>1, <1>4, <1>6, FS_Interval
<1>8. ASSUME NEW k \in 1 .. L - 2 PROVE Nth(n, k) = k + 2
  <2>1. k + 2 \in 3 .. L /\ k + 2 \in Int /\ k \in Nat \ {0}
    BY <1>1
  <2>2. {j \in 3 .. L : j <= k + 2} = 3 .. k + 2
    BY <2>1, <1>1
  <2>3. Cardinality(3 .. k + 2) = k
    BY <2>1, FS_Interval
  <2>4. Rank(n, k + 2) = k
    BY <1>6, <2>2, <2>3 DEF Rank
  <2> QED
    BY <1>6, <2>1, <2>4, RankOfKept
<1>9. WithoutStars(n) = w
  <2>1. WithoutStars(n) = [k \in 1 .. L - 2 |-> n[Nth(n, k)]]
    BY <1>7, WithoutStarsKeeps
  <2>2. w = [k \in 1 .. L - 2 |-> w[k]]
    BY <1>2, LenProperties
  <2> HIDE DEF L
  <2> QED
    BY <1>2, <1>8, <2>1, <2>2
<1>10. Len(n) = Len(w) + 2
  BY <1>1, <1>2
<1> HIDE DEF L
<1> QED
  BY <1>2, <1>3, <1>9, <1>10 DEF w

\* A rule, starred or not, passes as it is written.
LEMMA CheckedRule ==
    ASSUME NEW n \in Seq(Char), IsName(Starless(n))
    PROVE  /\ Checked(n) = lowercase(n) /\ Len(n) \in Nat \ {0}
           /\ \A k \in 1 .. Len(n) : n[k] # Blank
<1>1. CASE HasStar(n)
  <2> DEFINE w == Starless(n)
  <2>1. /\ w \in Seq(Char) /\ Len(n) = Len(w) + 2
        /\ \A k \in 1 .. Len(w) : w[k] = n[k + 2]
        /\ WithoutStars(n) = w /\ parse_domain_name(w)
    BY <1>1, WithoutItsStar
  <2> HIDE DEF w
  <2>2. Len(w) \in Nat \ {0} /\ \A k \in 1 .. Len(w) : w[k] # Blank
    BY <2>1, LegalCharacters
  <2>3. n[1] = "*" /\ n[2] = "."
    BY <1>1 DEF HasStar
  <2>4. ASSUME NEW k \in 1 .. Len(n) PROVE k \in {1, 2} \/ (k - 2 \in 1 .. Len(w) /\ (k - 2) + 2 = k)
    BY <2>1, <2>2
  <2>5. ASSUME NEW k \in 1 .. Len(n) PROVE n[k] # Blank
    <3>1. CASE k \in {1, 2}
      BY <3>1, <2>3, Characters
    <3>2. CASE k - 2 \in 1 .. Len(w) /\ (k - 2) + 2 = k
      BY <3>2, <2>1, <2>2
    <3> QED
      BY <3>1, <3>2, <2>4
  <2> DEFINE l == lowercase(w)
             r == <<"*", ".">> \o l
  <2>6. /\ l \in Seq(Char) /\ Len(l) = Len(w) /\ domain_to_ascii(w) = l
        /\ \A k \in 1 .. Len(w) : l[k] = IF w[k] = "A" THEN "a" ELSE w[k]
    BY <2>1, LowercaseOf
  <2>7. Checked(n) = r
    BY <1>1, <2>1, <2>6 DEF Checked
  <2> HIDE DEF l
  <2>8. /\ r \in Seq(Char) /\ Len(r) = Len(l) + 2 /\ r[1] = "*" /\ r[2] = "."
        /\ \A k \in 3 .. Len(l) + 2 : r[k] = l[k - 2]
    BY <2>6, StarInFront
  <2> HIDE DEF r
  <2> DEFINE u == lowercase(n)
  <2>9. /\ u \in Seq(Char) /\ Len(u) = Len(n)
        /\ \A k \in 1 .. Len(n) : u[k] = IF n[k] = "A" THEN "a" ELSE n[k]
    BY LowercaseOf
  <2> HIDE DEF u
  <2>10. Len(r) = Len(u)
    BY <2>1, <2>6, <2>8, <2>9
  <2>11. ASSUME NEW k \in 1 .. Len(r) PROVE r[k] = u[k]
    <3>1. k \in 1 .. Len(n)
      BY <2>9, <2>10
    <3>2. CASE k \in {1, 2}
      BY <3>1, <3>2, <2>3, <2>8, <2>9
    <3>3. CASE k - 2 \in 1 .. Len(w) /\ (k - 2) + 2 = k
      <4>1. k \in 3 .. Len(l) + 2
        BY <3>3, <2>2, <2>6
      <4>2. r[k] = l[k - 2] /\ w[k - 2] = n[k]
        BY <4>1, <3>3, <2>1, <2>8
      <4> QED
        BY <4>2, <3>1, <3>3, <2>6, <2>9
    <3> QED
      BY <3>1, <3>2, <3>3, <2>4
  <2>12. r = u
    BY <2>8, <2>9, <2>10, <2>11, SeqEqual
  <2> QED
    BY <2>1, <2>2, <2>5, <2>7, <2>12 DEF u
<1>2. CASE ~HasStar(n)
  <2>1. parse_domain_name(n)
    BY <1>2, NameIsLegal DEF Starless
  <2>2. Checked(n) = <<>> \o domain_to_ascii(n)
    BY <1>2, <2>1 DEF Checked
  <2>3. Checked(n) = lowercase(n)
    BY <2>2, LowercaseOf, ConcatEmptySeq
  <2> QED
    BY <2>1, <2>3, LegalCharacters
<1> QED
  BY <1>1, <1>2
-----------------------------------------------------------------------------
(***************************************************************************)
(* What the formats make of a line is None or a name.                       *)
(***************************************************************************)
RuleName(r) == r \in Seq(Char) /\ lowercase(r) = r /\ IsName(Starless(r))

\* trim takes nothing from what begins with something to see, and is left with
\* something of what has it anywhere.
LEMMA TrimProperties ==
    ASSUME NEW c \in Seq(Char), NEW p \in 1 .. Len(c), c[p] # Blank
    PROVE  trim(c) \in Seq(Char) /\ (c[1] # Blank => trim(c) = c)
<1> DEFINE seen == {i \in DOMAIN c : c[i] # Blank}
           m == Min(seen)
<1>1. Len(c) \in Nat /\ seen = {i \in 1 .. Len(c) : c[i] # Blank}
  BY LenProperties
<1>2. trim(c) = Cut(c, m, Len(c))
  BY DEF trim, Blank
<1> HIDE DEF seen
<1>3. seen \in SUBSET Nat /\ p \in seen
  BY <1>1
<1>4. m \in seen /\ \A i \in seen : m <= i
  BY <1>3, LeastNat
<1> HIDE DEF m
<1>5. m \in 1 .. Len(c) + 1 /\ m \in 1 .. Len(c) /\ Len(c) \in m - 1 .. Len(c)
  BY <1>1, <1>4
<1>6. Cut(c, m, Len(c)) \in Seq(Char)
  BY <1>5, CutProperties
<1>7. ASSUME c[1] # Blank PROVE Cut(c, m, Len(c)) = c
  <2>1. 1 \in seen
    BY <1>1, <1>5, <1>7
  <2>2. m = 1
    BY <1>4, <1>5, <2>1
  <2> QED
    BY <2>2, SubSeqFull DEF Cut
<1> QED
  BY <1>2, <1>6, <1>7

\* The cut of the match that is taken out of some of those at i.
Match(s, i, ms) == Cut(s, i, EndOf(i, Greedy(ms)))

LEMMA MatchProperties ==
    ASSUME NEW s \in Seq(Char), NEW i \in 1 .. Len(s), NEW ms \in SUBSET NameAt(s, i), ms # {}
    PROVE  /\ Best(ms, Greedy(ms)) /\ Greedy(ms) \in NameAt(s, i)
           /\ EndOf(i, Greedy(ms)) \in i + 1 .. Len(s)
           /\ Match(s, i, ms) \in Seq(Char)
           /\ Len(Match(s, i, ms)) = EndOf(i, Greedy(ms)) - i + 1
           /\ \A k \in 1 .. Len(Match(s, i, ms)) : Match(s, i, ms)[k] = s[i + k - 1]
           /\ trim(Match(s, i, ms)) \in Seq(Char)
           /\ s[i] # Blank => trim(Match(s, i, ms)) = Match(s, i, ms)
<1> DEFINE g == Greedy(ms)
           e == EndOf(i, g)
           c == Match(s, i, ms)
<1>1. Best(ms, g) /\ g \in NameAt(s, i)
  <2>1. ms \in SUBSET Matches
    BY DEF NameAt, Matches
  <2> QED
    BY <2>1, GreedyBest DEF Best
<1> HIDE DEF g
<1>2. /\ Len(s) \in Nat /\ g[1] \in Nat \ {0} /\ g[2] \in Nat \ {0}
      /\ i + g[1] \in i + 1 .. Len(s) /\ s[i + g[1]] = "."
      /\ e \in i + g[1] + 1 .. Len(s)
  BY <1>1, MatchInLine, LenProperties
<1> HIDE DEF e
<1>3. i \in 1 .. Len(s) + 1 /\ e \in i - 1 .. Len(s) /\ e \in i + 1 .. Len(s)
  <2>1. PICK h \in Nat \ {0} : e \in i + h + 1 .. Len(s)
    BY <1>2
  <2>2. Len(s) \in Nat
    BY <1>2
  <2> QED
    BY <2>1, <2>2
<1>4. /\ c \in Seq(Char) /\ Len(c) = e - i + 1
      /\ \A k \in 1 .. e - i + 1 : c[k] = s[i + k - 1]
  <2>1. c = Cut(s, i, e)
    BY DEF Match, e, g
  <2> QED
    BY <1>3, <2>1, CutProperties
<1> HIDE DEF c
<1>5. PICK h \in Nat \ {0} : s[i + h] = "." /\ e \in i + h + 1 .. Len(s)
  BY <1>2
<1>6. h + 1 \in 1 .. Len(c) /\ h + 1 \in 1 .. e - i + 1 /\ i + (h + 1) - 1 = i + h
  <2>1. i \in Int /\ e \in Int /\ e - i + 1 \in Nat /\ h + 1 <= e - i + 1
    BY <1>2, <1>5
  <2>2. Len(c) \in Nat /\ h + 1 <= Len(c)
    BY <1>4, <2>1
  <2> QED
    BY <2>1, <2>2
<1>7. c[h + 1] # Blank
  <2>1. c[h + 1] = "."
    BY <1>4, <1>5, <1>6
  <2> QED
    BY <2>1, Characters
<1>8. 1 \in 1 .. e - i + 1 /\ i + 1 - 1 = i
  BY <1>3
<1>9. c[1] = s[i]
  BY <1>4, <1>8
<1>10. trim(c) \in Seq(Char) /\ (s[i] # Blank => trim(c) = c)
  BY <1>4, <1>6, <1>7, <1>9, TrimProperties
<1> QED
  BY <1>1, <1>3, <1>4, <1>10 DEF c, e, g

DomainStarts(s) == {i \in DOMAIN s : NameAt(s, i) # {}}

\* parse_domain takes the match at the first place there is one.
LEMMA DomainMatch ==
    ASSUME NEW s \in Seq(Char)
    PROVE  /\ DomainStarts(s) = {} => parse_domain(s) = None
           /\ DomainStarts(s) # {} =>
                 LET i == Min(DomainStarts(s)) IN
                 /\ i \in DomainStarts(s) /\ \A j \in DomainStarts(s) : i <= j
                 /\ i \in 1 .. Len(s) /\ NameAt(s, i) # {}
                 /\ parse_domain(s) = Checked(Match(s, i, NameAt(s, i)))
<1>1. DomainStarts(s) = {} => parse_domain(s) = None
  BY DEF parse_domain, DomainStarts
<1>2. ASSUME DomainStarts(s) # {}
      PROVE  /\ Min(DomainStarts(s)) \in DomainStarts(s)
             /\ \A j \in DomainStarts(s) : Min(DomainStarts(s)) <= j
             /\ parse_domain(s) =
                    Checked(Match(s, Min(DomainStarts(s)), NameAt(s, Min(DomainStarts(s)))))
  <2>1. DomainStarts(s) \in SUBSET Nat
    BY LenProperties DEF DomainStarts
  <2>2. /\ Min(DomainStarts(s)) \in DomainStarts(s)
        /\ \A j \in DomainStarts(s) : Min(DomainStarts(s)) <= j
    BY <1>2, <2>1, LeastNat
  <2> QED
    BY <1>2, <2>2 DEF parse_domain, DomainStarts, Match
<1>3. \A i \in DomainStarts(s) : i \in 1 .. Len(s) /\ NameAt(s, i) # {}
  BY LenProperties DEF DomainStarts
<1> QED
  BY <1>1, <1>2, <1>3

LEMMA DomainIsName ==
    ASSUME NEW s \in Seq(Char)
    PROVE  parse_domain(s) = None \/ RuleName(parse_domain(s))
<1>1. CASE DomainStarts(s) = {}
  BY <1>1, DomainMatch
<1>2. CASE DomainStarts(s) # {}
  <2> DEFINE i == Min(DomainStarts(s))
  <2>1. i \in 1 .. Len(s) /\ NameAt(s, i) # {} /\ parse_domain(s) = Checked(Match(s, i, NameAt(s, i)))
    BY <1>2, DomainMatch
  <2> HIDE DEF i
  <2>2. Match(s, i, NameAt(s, i)) \in Seq(Char)
    BY <2>1, MatchProperties
  <2> QED
    BY <2>1, <2>2, CheckedIsName DEF RuleName
<1> QED
  BY <1>1, <1>2

HostNames(s, i) == {j \in AfterGap(s, i + 1) : NameAt(s, j) # {}}
HostStarts(s) == {i \in DOMAIN s : s[i] = "I" /\ HostNames(s, i) # {}}

\* parse_host takes the first address with a name behind it, and that name where
\* the gap between them is longest.
LEMMA HostMatch ==
    ASSUME NEW s \in Seq(Char)
    PROVE  /\ HostStarts(s) = {} => parse_host(s) = None
           /\ HostStarts(s) # {} =>
                 LET i == Min(HostStarts(s))
                     j == Max(HostNames(s, i))
                 IN  /\ i \in HostStarts(s) /\ \A k \in HostStarts(s) : i <= k
                     /\ j \in HostNames(s, i) /\ \A k \in HostNames(s, i) : k <= j
                     /\ j \in 1 .. Len(s) /\ NameAt(s, j) # {}
                     /\ parse_host(s) = parse_domain(trim(Match(s, j, NameAt(s, j))))
<1>1. HostStarts(s) = {} => parse_host(s) = None
  BY DEF parse_host, HostStarts, HostNames
<1>2. ASSUME HostStarts(s) # {}
      PROVE  LET i == Min(HostStarts(s))
                 j == Max(HostNames(s, i))
             IN  /\ i \in HostStarts(s) /\ \A k \in HostStarts(s) : i <= k
                 /\ j \in HostNames(s, i) /\ \A k \in HostNames(s, i) : k <= j
                 /\ j \in 1 .. Len(s) /\ NameAt(s, j) # {}
                 /\ parse_host(s) = parse_domain(trim(Match(s, j, NameAt(s, j))))
  <2> DEFINE i == Min(HostStarts(s))
             j == Max(HostNames(s, i))
  <2>1. parse_host(s) = parse_domain(trim(Match(s, j, NameAt(s, j))))
    BY <1>2 DEF parse_host, HostStarts, HostNames, Match
  <2>2. HostStarts(s) \in SUBSET (1 .. Len(s)) /\ Len(s) \in Nat
    BY LenProperties DEF HostStarts
  <2>3. i \in HostStarts(s) /\ \A k \in HostStarts(s) : i <= k
    <3>1. HostStarts(s) \in SUBSET Nat
      BY <2>2
    <3> QED
      BY <1>2, <3>1, LeastNat
  <2> HIDE DEF i
  <2>4. HostNames(s, i) # {} /\ i \in 1 .. Len(s)
    BY <2>2, <2>3 DEF HostStarts
  <2>5. HostNames(s, i) \in SUBSET (1 .. Len(s))
    BY <2>2, <2>4 DEF HostNames, AfterGap
  <2>6. j \in HostNames(s, i) /\ \A k \in HostNames(s, i) : k <= j
    <3>1. HostNames(s, i) \in SUBSET (0 .. Len(s))
      BY <2>5
    <3> QED
      BY <2>2, <2>4, <3>1, GreatestUpTo
  <2>7. j \in 1 .. Len(s) /\ NameAt(s, j) # {}
    BY <2>5, <2>6 DEF HostNames
  <2> QED
    BY <2>1, <2>3, <2>6, <2>7 DEF i
<1> QED
  BY <1>1, <1>2

LEMMA HostIsName ==
    ASSUME NEW s \in Seq(Char)
    PROVE  parse_host(s) = None \/ RuleName(parse_host(s))
<1>1. CASE HostStarts(s) = {}
  BY <1>1, HostMatch
<1>2. CASE HostStarts(s) # {}
  <2>1. PICK j \in 1 .. Len(s) : /\ NameAt(s, j) # {}
                                 /\ parse_host(s) = parse_domain(trim(Match(s, j, NameAt(s, j))))
    BY <1>2, HostMatch
  <2>2. trim(Match(s, j, NameAt(s, j))) \in Seq(Char)
    BY <2>1, MatchProperties
  <2> QED
    BY <2>1, <2>2, DomainIsName
<1> QED
  BY <1>1, <1>2

CnameNames(s, i) == {m \in NameAt(s, i) : Aliases(s, EndOf(i, m)) # {}}
CnameStarts(s) == {i \in DOMAIN s : CnameNames(s, i) # {}}

\* The two names of an override, when one match begins at i and the other at j.
DomainOf(s, i) == parse_domain(trim(Match(s, i, CnameNames(s, i))))
AliasOf(s, j) == parse_domain(trim(Match(s, j, AliasAt(s, j))))

\* parse_cname takes the first name with an alias behind it, as long as it can
\* be, and the alias where the gap before it is longest.
LEMMA CnameMatch ==
    ASSUME NEW s \in Seq(Char)
    PROVE  /\ CnameStarts(s) = {} => parse_cname(s) = None
           /\ CnameStarts(s) # {} =>
                 LET i == Min(CnameStarts(s))
                     e == EndOf(i, Greedy(CnameNames(s, i)))
                     j == Max(Aliases(s, e))
                 IN  /\ i \in CnameStarts(s) /\ \A k \in CnameStarts(s) : i <= k
                     /\ i \in 1 .. Len(s) /\ CnameNames(s, i) # {}
                     /\ e \in i + 1 .. Len(s)
                     /\ j \in Aliases(s, e) /\ \A k \in Aliases(s, e) : k <= j
                     /\ j \in 1 .. Len(s) /\ AliasAt(s, j) # {}
                     /\ parse_cname(s) =
                           IF None \in {DomainOf(s, i), AliasOf(s, j)} THEN None
                           ELSE [domain |-> DomainOf(s, i), alias |-> AliasOf(s, j)]
<1>1. CnameStarts(s) = {} => parse_cname(s) = None
  BY DEF parse_cname, CnameStarts, CnameNames
<1>2. ASSUME CnameStarts(s) # {}
      PROVE  LET i == Min(CnameStarts(s))
                 e == EndOf(i, Greedy(CnameNames(s, i)))
                 j == Max(Aliases(s, e))
             IN  /\ i \in CnameStarts(s) /\ \A k \in CnameStarts(s) : i <= k
                 /\ i \in 1 .. Len(s) /\ CnameNames(s, i) # {}
                 /\ e \in i + 1 .. Len(s)
                 /\ j \in Aliases(s, e) /\ \A k \in Aliases(s, e) : k <= j
                 /\ j \in 1 .. Len(s) /\ AliasAt(s, j) # {}
                 /\ parse_cname(s) =
                       IF None \in {DomainOf(s, i), AliasOf(s, j)} THEN None
                       ELSE [domain |-> DomainOf(s, i), alias |-> AliasOf(s, j)]
  <2> DEFINE i == Min(CnameStarts(s))
             e == EndOf(i, Greedy(CnameNames(s, i)))
             j == Max(Aliases(s, e))
  <2>1. parse_cname(s) = IF None \in {DomainOf(s, i), AliasOf(s, j)} THEN None
                         ELSE [domain |-> DomainOf(s, i), alias |-> AliasOf(s, j)]
    BY <1>2 DEF parse_cname, CnameStarts, CnameNames, DomainOf, AliasOf, Match
  <2>2. CnameStarts(s) \in SUBSET (1 .. Len(s)) /\ Len(s) \in Nat
    BY LenProperties DEF CnameStarts
  <2>3. i \in CnameStarts(s) /\ \A k \in CnameStarts(s) : i <= k
    <3>1. CnameStarts(s) \in SUBSET Nat
      BY <2>2
    <3> QED
      BY <1>2, <3>1, LeastNat
  <2> HIDE DEF i
  <2>4. CnameNames(s, i) # {} /\ i \in 1 .. Len(s) /\ CnameNames(s, i) \in SUBSET NameAt(s, i)
    BY <2>2, <2>3 DEF CnameStarts, CnameNames
  <2>5. e \in i + 1 .. Len(s) /\ Greedy(CnameNames(s, i)) \in CnameNames(s, i)
    BY <2>4, MatchProperties DEF Best
  <2>6. Aliases(s, e) # {}
    BY <2>5 DEF CnameNames
  <2> HIDE DEF e
  <2>7. Aliases(s, e) \in SUBSET (0 .. Len(s)) /\ Aliases(s, e) \in SUBSET (1 .. Len(s))
    <3>1. ASSUME NEW k \in Aliases(s, e) PROVE k \in 1 .. Len(s)
      <4>1. PICK h \in AfterGap(s, e + 1) : k \in AfterGap(s, h + 1)
        BY DEF Aliases
      <4>2. h \in e + 1 + 1 .. Len(s) /\ k \in h + 1 + 1 .. Len(s)
        BY <4>1 DEF AfterGap
      <4> QED
        BY <4>2, <2>2, <2>4, <2>5
    <3> QED
      BY <3>1
  <2>8. j \in Aliases(s, e) /\ \A k \in Aliases(s, e) : k <= j
    BY <2>2, <2>6, <2>7, GreatestUpTo
  <2>9. j \in 1 .. Len(s) /\ AliasAt(s, j) # {}
    BY <2>7, <2>8 DEF Aliases
  <2> QED
    BY <2>1, <2>3, <2>4, <2>5, <2>8, <2>9 DEF i, e
<1> QED
  BY <1>1, <1>2

LEMMA CnameIsName ==
    ASSUME NEW s \in Seq(Char)
    PROVE  into_domain(parse_cname(s)) = None \/ RuleName(into_domain(parse_cname(s)))
<1>1. CASE parse_cname(s) = None
  BY <1>1 DEF into_domain
<1>2. CASE parse_cname(s) # None
  <2>1. PICK i \in 1 .. Len(s), j \in 1 .. Len(s) :
         CnameNames(s, i) # {} /\ parse_cname(s) = [domain |-> DomainOf(s, i), alias |-> AliasOf(s, j)]
    BY <1>2, CnameMatch
  <2>2. trim(Match(s, i, CnameNames(s, i))) \in Seq(Char)
    <3>1. CnameNames(s, i) \in SUBSET NameAt(s, i)
      BY DEF CnameNames
    <3> QED
      BY <2>1, <3>1, MatchProperties
  <2>3. DomainOf(s, i) = None \/ RuleName(DomainOf(s, i))
    BY <2>2, DomainIsName DEF DomainOf
  <2>4. into_domain(parse_cname(s)) = DomainOf(s, i)
    BY <1>2, <2>1 DEF into_domain
  <2> QED
    BY <2>3, <2>4
<1> QED
  BY <1>1, <1>2
-----------------------------------------------------------------------------
(***************************************************************************)
(* The inductive invariant: the rules are those of the line as it is.       *)
(***************************************************************************)
IInv ==
    /\ line \in Seq(Char) /\ pieces \in 0 .. MaxPieces
    /\ rule = parse(line)

LEMMA InitInv == Init => IInv
<1>1. <<>> \in Seq(Char)
  BY EmptySeq
<1> QED
  BY <1>1, BoundAssumption DEF Init, IInv

LEMMA NextInv == IInv /\ [Next]_vars => IInv'
<1> SUFFICES ASSUME IInv, [Next]_vars PROVE IInv'
  OBVIOUS
<1>1. CASE Next
  <2>1. PICK p \in Piece : line' = line \o p
    BY <1>1 DEF Next
  <2>2. p \in Seq(Char)
    BY LineAssumption
  <2>3. line' \in Seq(Char)
    BY <2>1, <2>2, ConcatProperties DEF IInv
  <2>4. pieces' \in 0 .. MaxPieces
    BY <1>1, BoundAssumption DEF Next, IInv
  <2>5. rule' = parse(line')
    BY <1>1 DEF Next
  <2>6. rule' = parse(line)'
    BY <2>5 DEF parse
  <2> QED
    BY <2>3, <2>4, <2>6 DEF IInv
<1>2. CASE UNCHANGED vars
  BY <1>2 DEF vars, IInv
<1> QED
  BY <1>1, <1>2

LEMMA Invariant == Spec => []IInv
  BY InitInv, NextInv, PTL DEF Spec

\* Whatever the line, a rule for a name to be listed is a name in lower case,
\* with or without a star.
THEOREM TypeCorrect == Spec => []TypeOK
<1>1. IInv => TypeOK
  <2> SUFFICES ASSUME IInv PROVE TypeOK
    OBVIOUS
  <2>1. /\ rule.domains = parse_domain(line) /\ rule.hosts = parse_host(line)
        /\ rule.zone = into_domain(parse_cname(line))
    BY DEF IInv, parse
  <2>2. \A f \in {"domains", "hosts", "zone"} : rule[f] = None \/ RuleName(rule[f])
    <3>1. line \in Seq(Char)
      BY DEF IInv
    <3>2. /\ parse_domain(line) = None \/ RuleName(parse_domain(line))
          /\ parse_host(line) = None \/ RuleName(parse_host(line))
          /\ into_domain(parse_cname(line)) = None \/ RuleName(into_domain(parse_cname(line)))
      BY <3>1, DomainIsName, HostIsName, CnameIsName
    <3> QED
      BY <2>1, <3>2
  <2> QED
    BY <2>2 DEF IInv, TypeOK, RuleName
<1> QED
  BY <1>1, Invariant, PTL
-----------------------------------------------------------------------------
(***************************************************************************)
(* A rule that is a word of the line.                                       *)
(***************************************************************************)

\* The word of s from i to j is a rule whose last dot is at d.
RuleAt(s, i, j, d) ==
    /\ d \in i + 1 .. j /\ s[d] = "." /\ \A k \in d + 1 .. j : s[k] \in Lower
    /\ <<d - i, j - d>> \in NameAt(s, i) /\ EndOf(i, <<d - i, j - d>>) = j
    /\ \A k \in i .. j : s[k] # Blank

LEMMA RuleInLine ==
    ASSUME NEW s \in Seq(Char), NEW i \in 1 .. Len(s), NEW j \in i .. Len(s),
           IsRule(Cut(s, i, j))
    PROVE  /\ Checked(Cut(s, i, j)) = lowercase(Cut(s, i, j))
           /\ \E d : RuleAt(s, i, j, d)
<1> DEFINE w == Cut(s, i, j)
           n == j - i + 1
<1>1. /\ Len(s) \in Nat /\ i \in Nat \ {0} /\ j \in Nat /\ i <= j /\ j <= Len(s)
      /\ i \in 1 .. Len(s) + 1 /\ j \in i - 1 .. Len(s)
  BY LenProperties
<1>2. /\ w \in Seq(Char) /\ Len(w) = n /\ DOMAIN w = 1 .. n
      /\ \A k \in 1 .. n : w[k] = s[i + k - 1]
  BY <1>1, CutProperties
<1>3. PICK h \in 1 .. n : /\ w[h] = "." /\ h - 1 \in MinHead .. MaxHead
                          /\ n - h \in MinTld .. MaxTld
                          /\ \A k \in h + 1 .. n : w[k] \in Lower
  BY <1>2 DEF IsRule
<1>4. /\ Checked(w) = lowercase(w) /\ \A k \in 1 .. n : w[k] # Blank
  BY <1>2, CheckedRule DEF IsRule
<1> HIDE DEF w
<1> DEFINE d == i + h - 1
<1>5. h - 1 \in Nat \ {0} /\ n - h \in Nat \ {0}
  BY <1>1, <1>3, BoundAssumption
<1>6. d \in i + 1 .. j /\ d - i = h - 1 /\ j - d = n - h /\ i + (h - 1) + (n - h) = j
  BY <1>1, <1>5
<1>7. s[d] = "."
  BY <1>2, <1>3
<1>8. ASSUME NEW k \in i .. j PROVE k - i + 1 \in 1 .. n /\ w[k - i + 1] = s[k]
  <2>1. k - i + 1 \in 1 .. n /\ i + (k - i + 1) - 1 = k
    BY <1>1
  <2> HIDE DEF n
  <2> QED
    BY <1>2, <2>1
<1>9. ASSUME NEW k \in d + 1 .. j PROVE s[k] \in Lower
  <2>1. k \in i .. j /\ k - i + 1 \in h + 1 .. n
    BY <1>1, <1>6
  <2> HIDE DEF n
  <2> QED
    BY <1>3, <1>8, <2>1
<1>10. \A k \in i .. j : s[k] # Blank
  <2> HIDE DEF n
  <2> QED
    BY <1>4, <1>8
<1>11. <<h - 1, n - h>> \in NameAt(s, i)
  <2> DEFINE m == <<h - 1, n - h>>
  <2>1. m \in (MinHead .. MaxHead) \X (MinTld .. MaxTld) /\ m[1] = h - 1 /\ m[2] = n - h
    BY <1>3
  <2>2. i + m[1] + m[2] <= Len(s)
    BY <1>1, <1>6, <2>1
  <2>3. i + m[1] = d
    BY <1>1, <2>1
  <2>4. ASSUME NEW k \in 1 .. m[2] PROVE s[d + k] \in Lower
    <3>1. d + k \in d + 1 .. j
      BY <1>1, <1>6, <2>1
    <3> QED
      BY <1>9, <3>1
  <2> HIDE DEF m, d
  <2> QED
    BY <1>7, <2>1, <2>2, <2>3, <2>4 DEF NameAt, m
<1>12. EndOf(i, <<h - 1, n - h>>) = j
  BY <1>6 DEF EndOf
<1>13. RuleAt(s, i, j, d)
  <2> HIDE DEF d, n
  <2> QED
    BY <1>6, <1>7, <1>9, <1>10, <1>11, <1>12 DEF RuleAt
<1> QED
  BY <1>4, <1>13 DEF w

\* A match that takes no less than the rule ends with the word or beyond it,
\* and beyond it only over a letter or to a later dot.
LEMMA NoLess ==
    ASSUME NEW s \in Seq(Char), NEW i \in 1 .. Len(s), NEW j \in i .. Len(s), NEW d,
           RuleAt(s, i, j, d), NEW g \in NameAt(s, i),
           d - i < g[1] \/ (d - i = g[1] /\ j - d <= g[2])
    PROVE  /\ EndOf(i, g) \in j .. Len(s)
           /\ EndOf(i, g) > j =>
                 \/ s[j + 1] \in Lower
                 \/ \E k \in j + 1 .. EndOf(i, g) - 1 :
                       s[k] = "." /\ \A o \in k + 1 .. EndOf(i, g) : s[o] \in Lower
<1>1. Len(s) \in Nat /\ i \in Nat /\ j \in Nat /\ i <= j /\ j <= Len(s)
  BY LenProperties
<1>2. /\ d \in i + 1 .. j /\ s[d] = "." /\ \A k \in d + 1 .. j : s[k] \in Lower
  BY DEF RuleAt
<1>3. PICK h \in Nat \ {0}, t \in Nat \ {0} :
        /\ g[1] = h /\ g[2] = t /\ i + h \in i + 1 .. Len(s) /\ s[i + h] = "."
        /\ \A k \in i + h + 1 .. EndOf(i, g) : s[k] \in Lower
  BY MatchInLine
<1>4. EndOf(i, g) = i + h + t /\ EndOf(i, g) \in i + h + 1 .. Len(s)
  BY <1>3, MatchInLine DEF EndOf
<1>5. CASE d - i < h
  <2>1. i + h > d /\ i + h \in Nat /\ d \in Nat
    BY <1>1, <1>2, <1>5
  <2>2. i + h > j
    <3>1. SUFFICES ASSUME i + h <= j PROVE FALSE
      BY <1>1, <2>1
    <3>2. i + h \in d + 1 .. j
      BY <1>1, <2>1, <3>1
    <3>3. "." \in Lower
      BY <1>2, <1>3, <3>2
    <3> QED
      BY <3>3, Characters
  <2>3. EndOf(i, g) > j /\ i + h \in j + 1 .. EndOf(i, g) - 1
    BY <1>1, <1>4, <2>2
  <2> QED
    BY <1>1, <1>3, <1>4, <2>3
<1>6. CASE d - i = h /\ j - d <= t
  <2>1. i + h = d /\ EndOf(i, g) \in j .. Len(s)
    BY <1>1, <1>2, <1>4, <1>6
  <2>2. ASSUME EndOf(i, g) > j PROVE s[j + 1] \in Lower
    <3>1. j + 1 \in i + h + 1 .. EndOf(i, g)
      BY <1>1, <1>2, <1>4, <2>1, <2>2
    <3> QED
      BY <1>3, <3>1
  <2> QED
    BY <2>1, <2>2
<1> QED
  BY <1>3, <1>5, <1>6

\* parse_domain takes a rule that the line begins with, or the match runs over
\* the blank behind it, to a dot, and is none.
LEMMA DomainTaken ==
    ASSUME NEW s \in Seq(Char), NEW j \in 1 .. Len(s),
           j = Len(s) \/ s[j + 1] = Blank, IsRule(Cut(s, 1, j))
    PROVE  \/ parse_domain(s) = lowercase(Cut(s, 1, j))
           \/ parse_domain(s) = None /\ \E k \in j + 1 .. Len(s) : s[k] = "."
<1> DEFINE ms == NameAt(s, 1)
           g == Greedy(ms)
           e == EndOf(1, g)
<1>1. Len(s) \in Nat /\ 1 \in 1 .. Len(s) /\ j \in Nat \ {0} /\ j <= Len(s)
  BY LenProperties
<1>2. PICK d : RuleAt(s, 1, j, d)
  BY <1>1, RuleInLine
<1>3. Checked(Cut(s, 1, j)) = lowercase(Cut(s, 1, j))
  BY <1>1, RuleInLine
<1>4. <<d - 1, j - d>> \in ms
  BY <1>2 DEF RuleAt
<1>5. parse_domain(s) = Checked(Match(s, 1, ms))
  <2>1. 1 \in DomainStarts(s)
    BY <1>1, <1>4, LenProperties DEF DomainStarts
  <2>2. Min(DomainStarts(s)) \in 1 .. Len(s) /\ Min(DomainStarts(s)) <= 1
    BY <2>1, DomainMatch
  <2>3. Min(DomainStarts(s)) = 1
    BY <1>1, <2>2
  <2> QED
    BY <2>1, <2>3, DomainMatch
<1>6. /\ Best(ms, g) /\ g \in NameAt(s, 1) /\ e \in 1 + 1 .. Len(s)
      /\ Match(s, 1, ms) \in Seq(Char) /\ Len(Match(s, 1, ms)) = e - 1 + 1
      /\ \A k \in 1 .. Len(Match(s, 1, ms)) : Match(s, 1, ms)[k] = s[1 + k - 1]
  BY <1>1, <1>4, MatchProperties
<1>7. d - 1 < g[1] \/ (d - 1 = g[1] /\ j - d <= g[2])
  <2> HIDE DEF ms, g
  <2> QED
    BY <1>4, <1>6 DEF Best
<1>8. /\ e \in j .. Len(s)
      /\ e > j => s[j + 1] \in Lower \/ \E k \in j + 1 .. e - 1 : s[k] = "."
  <2> HIDE DEF ms, g
  <2> QED
    BY <1>1, <1>2, <1>6, <1>7, NoLess
<1>9. CASE e = j
  BY <1>3, <1>5, <1>9 DEF Match
<1>10. CASE e > j
  <2> DEFINE c == Match(s, 1, ms)
  <2> HIDE DEF e, ms, c
  <2>1. s[j + 1] = Blank /\ j + 1 \in 1 .. e
    BY <1>1, <1>8, <1>10
  <2>2. PICK k \in j + 1 .. e - 1 : s[k] = "."
    BY <1>8, <1>10, <2>1, Characters
  <2>3. k \in j + 1 .. Len(s)
    BY <1>1, <1>8, <2>2
  <2>4. c \in Seq(Char) /\ j + 1 \in 1 .. Len(c) /\ c[j + 1] = Blank
    <3>1. e - 1 + 1 = e /\ 1 + (j + 1) - 1 = j + 1
      BY <1>1, <1>8
    <3>2. Len(c) = e
      BY <1>6, <3>1 DEF c
    <3> QED
      BY <1>6, <2>1, <3>1, <3>2 DEF c
  <2>5. Checked(c) = None
    BY <2>4, CheckedBlank
  <2> QED
    BY <1>5, <2>2, <2>3, <2>5 DEF c
<1>11. e = j \/ e > j
  <2> HIDE DEF e
  <2> QED
    BY <1>1, <1>8
<1> QED
  BY <1>9, <1>10, <1>11

\* A rule by itself is taken.
LEMMA RuleTaken ==
    ASSUME NEW w \in Seq(Char), IsRule(w)
    PROVE  parse_domain(w) = lowercase(w) /\ parse_domain(w) \in Seq(Char)
<1>1. Len(w) \in Nat /\ Len(w) # 0
  <2>1. IsName(Starless(w))
    BY DEF IsRule
  <2> QED
    BY <2>1, CheckedRule
<1>2. Cut(w, 1, Len(w)) = w /\ Len(w) \in 1 .. Len(w)
  BY <1>1, SubSeqFull DEF Cut
<1>3. ~\E k \in Len(w) + 1 .. Len(w) : w[k] = "."
  BY <1>1
<1>4. parse_domain(w) = lowercase(w)
  BY <1>2, <1>3, DomainTaken
<1> QED
  BY <1>4, LowercaseOf

LEMMA GapOfBlanks ==
    ASSUME NEW s, NEW i, NEW j
    PROVE  Gap(s, i, j) <=> i < j /\ \A k \in i .. j - 1 : s[k] = Blank
  BY DEF Gap, Blank

\* parse_host takes a rule that stands behind an address the line begins with,
\* unless the match runs over the blank behind it.
LEMMA HostTaken ==
    ASSUME NEW s \in Seq(Char), NEW i \in 1 .. Len(s), NEW j \in i .. Len(s),
           s[1] = "I", Gap(s, 2, i), j = Len(s) \/ s[j + 1] = Blank, IsRule(Cut(s, i, j))
    PROVE  \/ parse_host(s) = lowercase(Cut(s, i, j))
           \/ parse_host(s) = None /\ \E k \in j + 1 .. Len(s) : s[k] = "."
<1> DEFINE ms == NameAt(s, i)
           g == Greedy(ms)
           e == EndOf(i, g)
           c == Match(s, i, ms)
           w == Cut(s, i, j)
           n == j - i + 1
<1>1. /\ Len(s) \in Nat /\ 1 \in 1 .. Len(s) /\ i \in Nat \ {0} /\ j \in Nat
      /\ i <= j /\ j <= Len(s)
  BY LenProperties
<1>2. PICK d : RuleAt(s, i, j, d)
  BY RuleInLine
<1>3. <<d - i, j - d>> \in ms /\ s[i] # Blank
  BY <1>1, <1>2 DEF RuleAt
<1>4. 2 < i /\ \A k \in 2 .. i - 1 : s[k] = Blank
  BY GapOfBlanks
<1>5. i \in HostNames(s, 1)
  <2>1. i \in 1 + 1 + 1 .. Len(s) /\ Gap(s, 1 + 1, i)
    BY <1>1, <1>4
  <2> QED
    BY <1>3, <2>1 DEF HostNames, AfterGap
<1>6. HostStarts(s) # {} /\ Min(HostStarts(s)) = 1
  <2>1. 1 \in HostStarts(s)
    BY <1>1, <1>5, LenProperties DEF HostStarts
  <2>2. Min(HostStarts(s)) \in HostStarts(s) /\ Min(HostStarts(s)) <= 1
    BY <2>1, HostMatch
  <2>3. Min(HostStarts(s)) \in 1 .. Len(s)
    BY <2>2, LenProperties DEF HostStarts
  <2> QED
    BY <1>1, <2>1, <2>2, <2>3
<1>7. Max(HostNames(s, 1)) = i
  <2> DEFINE m == Max(HostNames(s, 1))
  <2>1. m \in HostNames(s, 1) /\ m >= i /\ m \in 1 .. Len(s)
    BY <1>5, <1>6, HostMatch
  <2> HIDE DEF m
  <2>2. ASSUME m > i PROVE FALSE
    <3>1. Gap(s, 1 + 1, m)
      BY <2>1 DEF HostNames, AfterGap
    <3>2. i \in 1 + 1 .. m - 1
      BY <1>1, <1>4, <2>1, <2>2
    <3> QED
      BY <1>3, <3>1, <3>2, GapOfBlanks
  <2>3. m = i
    BY <1>1, <2>1, <2>2
  <2> QED
    BY <2>3 DEF m
<1>8. /\ Best(ms, g) /\ g \in NameAt(s, i) /\ e \in i + 1 .. Len(s)
      /\ c \in Seq(Char) /\ Len(c) = e - i + 1
      /\ \A k \in 1 .. Len(c) : c[k] = s[i + k - 1]
      /\ trim(c) = c
  BY <1>3, MatchProperties
<1>9. parse_host(s) = parse_domain(c)
  BY <1>6, <1>7, <1>8, HostMatch
<1>10. e \in j .. Len(s)
  <2>1. d - i < g[1] \/ (d - i = g[1] /\ j - d <= g[2])
    <3> HIDE DEF ms, g
    <3> QED
      BY <1>3, <1>8 DEF Best
  <2> HIDE DEF ms, g, c
  <2> QED
    BY <1>2, <1>8, <2>1, NoLess
<1> HIDE DEF e, c, ms
<1>11. n \in 1 .. Len(c) /\ Len(c) \in Nat
  BY <1>1, <1>8, <1>10
<1>12. Cut(c, 1, n) = w
  <2>1. /\ w \in Seq(Char) /\ Len(w) = n /\ \A k \in 1 .. n : w[k] = s[i + k - 1]
    <3>1. i \in 1 .. Len(s) + 1 /\ j \in i - 1 .. Len(s)
      BY <1>1
    <3> QED
      BY <3>1, CutProperties
  <2>2. /\ Cut(c, 1, n) \in Seq(Char) /\ Len(Cut(c, 1, n)) = n - 1 + 1
        /\ \A k \in 1 .. n - 1 + 1 : Cut(c, 1, n)[k] = c[1 + k - 1]
    <3>1. 1 \in 1 .. Len(c) + 1 /\ n \in 1 - 1 .. Len(c)
      BY <1>11
    <3> HIDE DEF n
    <3> QED
      BY <1>8, <3>1, CutProperties
  <2> DEFINE u == Cut(c, 1, n)
  <2>3. n - 1 + 1 = n /\ \A k \in 1 .. n : 1 + k - 1 = k /\ k \in 1 .. Len(c)
    BY <1>1, <1>11
  <2> HIDE DEF u, w, n
  <2>4. ASSUME NEW k \in 1 .. n PROVE u[k] = w[k]
    <3>1. u[k] = c[1 + k - 1] /\ 1 + k - 1 = k /\ k \in 1 .. Len(c)
      BY <2>2, <2>3 DEF u
    <3> QED
      BY <1>8, <2>1, <3>1
  <2>5. u = w
    BY <2>1, <2>2, <2>3, <2>4, SeqEqual DEF u
  <2> QED
    BY <2>5 DEF u
<1>13. n = Len(c) \/ c[n + 1] = Blank
  <2>1. CASE e = j
    BY <1>8, <2>1
  <2>2. CASE e # j
    <3>1. n + 1 \in 1 .. Len(c) /\ i + (n + 1) - 1 = j + 1 /\ j # Len(s)
      BY <1>1, <1>8, <1>10, <2>2
    <3> HIDE DEF n
    <3> QED
      BY <1>8, <3>1
  <2> QED
    BY <2>1, <2>2
<1>14. \/ parse_domain(c) = lowercase(w)
       \/ parse_domain(c) = None /\ \E k \in n + 1 .. Len(c) : c[k] = "."
  <2>1. IsRule(w)
    OBVIOUS
  <2> HIDE DEF n, w
  <2> QED
    BY <2>1, <1>8, <1>11, <1>12, <1>13, DomainTaken
<1>15. ASSUME NEW k \in n + 1 .. Len(c), c[k] = "."
       PROVE  i + k - 1 \in j + 1 .. Len(s) /\ s[i + k - 1] = "."
  <2>1. k \in 1 .. Len(c) /\ i + k - 1 \in j + 1 .. Len(s)
    BY <1>1, <1>8, <1>10, <1>11
  <2> QED
    BY <1>8, <1>15, <2>1
<1> HIDE DEF n, w
<1> QED
  BY <1>9, <1>14, <1>15 DEF w

\* A match that begins after the first character can begin at it as well, when
\* the line is no longer than a head can be.
LEMMA Lengthened ==
    ASSUME NEW s \in Seq(Char), Len(s) <= MaxHead, NEW i \in 1 .. Len(s), NEW m \in NameAt(s, i)
    PROVE  LET o == <<m[1] + i - 1, m[2]>> IN o \in NameAt(s, 1) /\ EndOf(1, o) = EndOf(i, m)
<1>1. Len(s) \in Nat /\ i \in Nat \ {0} /\ MinHead \in Nat \ {0} /\ MaxHead \in Nat
  BY LenProperties, BoundAssumption
<1>2. PICK h \in MinHead .. MaxHead, t \in MinTld .. MaxTld : m = <<h, t>>
  BY DEF NameAt
<1>3. /\ i + h + t <= Len(s) /\ s[i + h] = "."
      /\ \A k \in 1 .. t : s[i + h + k] \in Lower
  BY <1>2 DEF NameAt
<1>4. t \in Nat /\ h \in Nat
  BY <1>1, BoundAssumption
<1> DEFINE f == h + i - 1
           o == <<f, t>>
<1>5. f \in MinHead .. MaxHead /\ 1 + f = i + h /\ 1 + f + t <= Len(s)
  BY <1>1, <1>3, <1>4
<1>6. o[1] = f /\ o[2] = t /\ o \in (MinHead .. MaxHead) \X (MinTld .. MaxTld)
  BY <1>5
<1>7. o \in NameAt(s, 1)
  <2> HIDE DEF o, f
  <2> QED
    BY <1>3, <1>5, <1>6 DEF NameAt
<1>8. EndOf(1, o) = 1 + f + t /\ EndOf(i, m) = i + h + t
  BY <1>2 DEF EndOf
<1>9. EndOf(1, o) = EndOf(i, m)
  <2> HIDE DEF o, f
  <2> QED
    BY <1>5, <1>8
<1>10. <<m[1] + i - 1, m[2]>> = o
  BY <1>2
<1> QED
  BY <1>7, <1>9, <1>10

\* In the domains format a comment is none, unless it is very long.
LEMMA CommentIsNoDomain ==
    ASSUME NEW s \in Seq(Char), s # <<>>, s[1] = "#", Len(s) <= MaxHead
    PROVE  parse_domain(s) = None
<1>1. Len(s) \in Nat \ {0} /\ 1 \in 1 .. Len(s)
  BY LenProperties, EmptySeq
<1>2. CASE DomainStarts(s) = {}
  BY <1>2, DomainMatch
<1>3. CASE DomainStarts(s) # {}
  <2>1. PICK i \in 1 .. Len(s) : NameAt(s, i) # {}
    BY <1>3, DomainMatch
  <2>2. NameAt(s, 1) # {}
    BY <2>1, Lengthened
  <2>3. 1 \in DomainStarts(s)
    BY <1>1, <2>2, LenProperties DEF DomainStarts
  <2>4. Min(DomainStarts(s)) <= 1 /\ Min(DomainStarts(s)) \in 1 .. Len(s)
    BY <1>3, <2>3, DomainMatch
  <2>5. Min(DomainStarts(s)) = 1
    BY <1>1, <2>4
  <2> DEFINE c == Match(s, 1, NameAt(s, 1))
  <2>6. parse_domain(s) = Checked(c)
    BY <1>3, <2>5, DomainMatch
  <2>7. /\ c \in Seq(Char) /\ Len(c) \in Nat /\ 1 \in 1 .. Len(c)
        /\ \A k \in 1 .. Len(c) : c[k] = s[1 + k - 1]
    <3>1. /\ c \in Seq(Char) /\ \A k \in 1 .. Len(c) : c[k] = s[1 + k - 1]
          /\ Len(c) = EndOf(1, Greedy(NameAt(s, 1))) - 1 + 1
          /\ EndOf(1, Greedy(NameAt(s, 1))) \in 1 + 1 .. Len(s)
      BY <1>1, <2>2, MatchProperties
    <3> HIDE DEF c
    <3> QED
      BY <1>1, <3>1
  <2> HIDE DEF c
  <2>8. c[1] = "#"
    <3>1. 1 + 1 - 1 = 1
      OBVIOUS
    <3> QED
      BY <2>7, <3>1
  <2> QED
    BY <2>6, <2>7, <2>8, CheckedComment
<1> QED
  BY <1>2, <1>3

\* Nor is it an override.
LEMMA CommentIsNoCname ==
    ASSUME NEW s \in Seq(Char), s # <<>>, s[1] = "#", Len(s) <= MaxHead
    PROVE  parse_cname(s) = None
<1>1. Len(s) \in Nat \ {0} /\ 1 \in 1 .. Len(s) /\ "#" # Blank
  BY LenProperties, EmptySeq, Characters
<1>2. CASE CnameStarts(s) = {}
  BY <1>2, CnameMatch
<1>3. CASE CnameStarts(s) # {}
  <2>1. PICK i \in 1 .. Len(s) : CnameNames(s, i) # {}
    BY <1>3, CnameMatch
  <2>2. PICK m \in NameAt(s, i) : Aliases(s, EndOf(i, m)) # {}
    BY <2>1 DEF CnameNames
  <2>3. CnameNames(s, 1) # {} /\ CnameNames(s, 1) \in SUBSET NameAt(s, 1)
    <3>1. PICK o \in NameAt(s, 1) : EndOf(1, o) = EndOf(i, m)
      BY Lengthened
    <3> QED
      BY <2>2, <3>1 DEF CnameNames
  <2>4. 1 \in CnameStarts(s)
    BY <1>1, <2>3, LenProperties DEF CnameStarts
  <2>5. Min(CnameStarts(s)) <= 1 /\ Min(CnameStarts(s)) \in 1 .. Len(s)
    BY <1>3, <2>4, CnameMatch
  <2>6. Min(CnameStarts(s)) = 1
    BY <1>1, <2>5
  <2> DEFINE c == Match(s, 1, CnameNames(s, 1))
             e == EndOf(1, Greedy(CnameNames(s, 1)))
  <2>7. /\ c \in Seq(Char) /\ \A k \in 1 .. Len(c) : c[k] = s[1 + k - 1]
        /\ Len(c) = e - 1 + 1 /\ e \in 1 + 1 .. Len(s) /\ trim(c) = c
    BY <1>1, <2>3, MatchProperties
  <2> HIDE DEF c, e
  <2>8. Len(c) <= MaxHead /\ 1 \in 1 .. Len(c) /\ 1 + 1 - 1 = 1 /\ Len(c) # 0
    BY <1>1, <2>7, BoundAssumption
  <2>9. c[1] = "#" /\ c # <<>>
    BY <2>7, <2>8, EmptySeq
  <2>10. parse_domain(c) = None
    BY <2>7, <2>8, <2>9, CommentIsNoDomain
  <2>11. DomainOf(s, 1) = None
    BY <2>7, <2>10 DEF DomainOf, c
  <2> QED
    BY <1>3, <2>6, <2>11, CnameMatch
<1> QED
  BY <1>2, <1>3

\* A name of the usual form is taken as it is written, in every format it is
\* written for, and a commented line is no rule.
THEOREM RulesAsWritten == Spec => []RuleOrNothing
<1>1. IInv => RuleOrNothing
  <2> SUFFICES ASSUME IInv PROVE RuleOrNothing
    OBVIOUS
  <2>1. /\ line \in Seq(Char) /\ Len(line) \in Nat /\ DOMAIN line = 1 .. Len(line)
        /\ rule.domains = parse_domain(line) /\ rule.hosts = parse_host(line)
        /\ rule.zone = into_domain(parse_cname(line))
    BY LenProperties DEF IInv, parse
  <2>2. ASSUME NEW i \in DOMAIN line, NEW j \in DOMAIN line,
               FirstWord(i, j), IsRule(Cut(line, i, j))
        PROVE  LET found == IF i = 1 THEN rule.domains ELSE rule.hosts
                   word  == lowercase(Cut(line, i, j))
               IN \/ found = word
                  \/ found = None /\ \E k \in j + 1 .. Len(line) : line[k] = "."
    <3>1. /\ i \in 1 .. Len(line) /\ j \in 1 .. Len(line) /\ i <= j
          /\ j = Len(line) \/ line[j + 1] = Blank
          /\ i > 1 => line[1] = "I" /\ Gap(line, 2, i)
      BY <2>1, <2>2 DEF FirstWord, Blank
    <3>2. j \in i .. Len(line) /\ (i = 1 \/ i > 1)
      BY <3>1
    <3>3. CASE i = 1
      BY <2>1, <2>2, <3>1, <3>3, DomainTaken
    <3>4. CASE i > 1
      <4>1. \/ parse_host(line) = lowercase(Cut(line, i, j))
            \/ parse_host(line) = None /\ \E k \in j + 1 .. Len(line) : line[k] = "."
        BY <2>1, <2>2, <3>1, <3>2, <3>4, HostTaken
      <4>2. i # 1
        BY <3>1, <3>4
      <4> QED
        BY <2>1, <4>1, <4>2
    <3> QED
      BY <3>2, <3>3, <3>4
  <2>3. TakenAsWritten
    BY <2>2 DEF TakenAsWritten
  <2>4. CommentNoRule
    BY <2>1, CommentIsNoDomain, CommentIsNoCname DEF CommentNoRule, into_domain
  <2> QED
    BY <2>3, <2>4 DEF RuleOrNothing
<1> QED
  BY <1>1, Invariant, PTL
-----------------------------------------------------------------------------
(***************************************************************************)
(* An override: a name up to i, CNAME, and from k on an alias up to the     *)
(* last character but one, which is a dot.                                  *)
(***************************************************************************)
Override(s, i, k) ==
    /\ i \in 1 .. Len(s) /\ k \in i + 4 .. Len(s) - 1 /\ s[Len(s)] = "."
    /\ s[i + 1] = Blank /\ s[i + 2] = "C" /\ \A p \in i + 3 .. k - 1 : s[p] = Blank
    /\ IsRule(Cut(s, 1, i)) /\ IsRule(Cut(s, k, Len(s) - 1))

\* There is nothing but the rule to take the alias from k for.
LEMMA AliasTaken ==
    ASSUME NEW s \in Seq(Char), NEW i, NEW k, Override(s, i, k)
    PROVE  /\ AliasAt(s, k) # {} /\ EndOf(k, Greedy(AliasAt(s, k))) = Len(s) - 1
           /\ s[k] # Blank
<1> DEFINE ms == AliasAt(s, k)
           g == Greedy(ms)
           e == EndOf(k, g)
           j == Len(s) - 1
<1>1. /\ Len(s) \in Nat /\ i \in Nat \ {0} /\ k \in Nat \ {0} /\ j \in Nat
      /\ k <= j /\ k \in 1 .. Len(s) /\ j \in k .. Len(s) /\ j + 1 = Len(s)
  BY LenProperties DEF Override
<1>2. s[j + 1] = "."
  BY <1>1 DEF Override
<1>3. PICK d : RuleAt(s, k, j, d)
  BY <1>1, RuleInLine DEF Override
<1>4. s[k] # Blank /\ d \in Nat /\ <<d - k, j - d>> \in NameAt(s, k)
      /\ EndOf(k, <<d - k, j - d>>) = j
  <2>1. k \in k .. j
    BY <1>1
  <2> HIDE DEF j
  <2> QED
    BY <1>1, <1>3, <2>1 DEF RuleAt
<1>5. <<d - k, j - d>> \in ms
  <2>1. j < Len(s)
    BY <1>1
  <2> HIDE DEF j
  <2> QED
    BY <1>2, <1>4, <2>1 DEF AliasAt
<1>6. ms \in SUBSET NameAt(s, k) /\ \A m \in ms : EndOf(k, m) < Len(s) /\ s[EndOf(k, m) + 1] = "."
  BY DEF AliasAt
<1> HIDE DEF ms, j
<1>7. Best(ms, g) /\ g \in NameAt(s, k) /\ e \in k + 1 .. Len(s) /\ g \in ms
  BY <1>1, <1>5, <1>6, MatchProperties DEF Best
<1> HIDE DEF g
<1>8. d - k < g[1] \/ (d - k = g[1] /\ j - d <= g[2])
  BY <1>5, <1>7 DEF Best
<1>9. /\ e \in j .. Len(s)
      /\ e > j => s[j + 1] \in Lower \/ \E p \in j + 1 .. e - 1 : s[p] = "."
  BY <1>1, <1>3, <1>7, <1>8, NoLess
<1>10. e < Len(s)
  BY <1>6, <1>7
<1> HIDE DEF e
<1>11. e = j
  BY <1>1, <1>9, <1>10
<1> QED
  BY <1>4, <1>5, <1>11 DEF e, g, ms, j

\* What follows the name is a gap, CNAME and a gap, and the alias begins there.
LEMMA AliasesBehind ==
    ASSUME NEW s \in Seq(Char), NEW i, NEW k, Override(s, i, k)
    PROVE  k \in Aliases(s, i) /\ \A j \in Aliases(s, i) : j \in Nat /\ j <= k
<1>1. /\ Len(s) \in Nat /\ i \in Nat \ {0} /\ k \in Nat \ {0} /\ i + 4 <= k /\ k <= Len(s) - 1
  BY LenProperties DEF Override
<1>2. s[i + 1] = Blank /\ s[i + 2] = "C" /\ \A p \in i + 3 .. k - 1 : s[p] = Blank
  BY DEF Override
<1>3. AliasAt(s, k) # {} /\ s[k] # Blank
  BY AliasTaken
<1>4. i + 2 \in AfterGap(s, i + 1)
  <2>1. i + 2 \in i + 1 + 1 .. Len(s) /\ i + 1 < i + 2 /\ \A p \in i + 1 .. i + 2 - 1 : p = i + 1
    BY <1>1
  <2>2. ASSUME NEW p \in i + 1 .. (i + 2) - 1 PROVE s[p] = Blank
    <3>1. p = i + 1
      BY <1>1
    <3> QED
      BY <1>2, <3>1
  <2>3. Gap(s, i + 1, i + 2)
    BY <2>1, <2>2, GapOfBlanks
  <2> QED
    BY <2>1, <2>3 DEF AfterGap
<1>5. k \in AfterGap(s, i + 2 + 1)
  <2>1. k \in i + 2 + 1 + 1 .. Len(s) /\ i + 2 + 1 < k /\ \A p \in i + 2 + 1 .. k - 1 : p \in i + 3 .. k - 1
    BY <1>1
  <2>2. Gap(s, i + 2 + 1, k)
    BY <1>2, <2>1, GapOfBlanks
  <2> QED
    BY <2>1, <2>2 DEF AfterGap
<1>6. k \in Aliases(s, i)
  BY <1>2, <1>3, <1>4, <1>5 DEF Aliases
<1>7. ASSUME NEW j \in Aliases(s, i) PROVE j \in Nat /\ j <= k
  <2>1. PICK h \in AfterGap(s, i + 1) : s[h] = "C" /\ j \in AfterGap(s, h + 1)
    BY DEF Aliases
  <2>2. h \in i + 1 + 1 .. Len(s) /\ \A p \in i + 1 .. h - 1 : s[p] = Blank
    BY <2>1, GapOfBlanks DEF AfterGap
  <2>3. h = i + 2
    <3>1. SUFFICES ASSUME h > i + 2 PROVE FALSE
      BY <1>1, <2>2
    <3>2. i + 2 \in i + 1 .. h - 1
      BY <1>1, <2>2, <3>1
    <3>3. Blank = "C"
      BY <1>2, <2>2, <3>2
    <3> QED
      BY <3>3, Characters
  <2>4. j \in i + 2 + 1 + 1 .. Len(s) /\ \A p \in i + 2 + 1 .. j - 1 : s[p] = Blank
    BY <2>1, <2>3, GapOfBlanks DEF AfterGap
  <2>5. ~(j > k)
    <3>1. SUFFICES ASSUME j > k PROVE FALSE
      OBVIOUS
    <3>2. k \in i + 2 + 1 .. j - 1
      BY <1>1, <2>4, <3>1
    <3> QED
      BY <1>3, <2>4, <3>2
  <2> QED
    BY <1>1, <2>4, <2>5
<1> QED
  BY <1>6, <1>7

\* Nor is there anything but the rule to take the name for: a longer match ends
\* in the alias, which has no blank for a gap to begin with.
LEMMA NameTaken ==
    ASSUME NEW s \in Seq(Char), NEW i, NEW k, Override(s, i, k)
    PROVE  /\ 1 \in CnameStarts(s) /\ EndOf(1, Greedy(CnameNames(s, 1))) = i
           /\ s[1] # Blank
<1> DEFINE ms == CnameNames(s, 1)
           g == Greedy(ms)
           e == EndOf(1, g)
<1>1. /\ Len(s) \in Nat /\ i \in Nat \ {0} /\ k \in Nat \ {0} /\ i + 4 <= k /\ k <= Len(s) - 1
      /\ i \in 1 .. Len(s) /\ 1 \in 1 .. Len(s) /\ Len(s) - 1 \in k .. Len(s) /\ k \in 1 .. Len(s)
  BY LenProperties DEF Override
<1>2. s[i + 1] = Blank /\ s[i + 2] = "C" /\ \A p \in i + 3 .. k - 1 : s[p] = Blank
  BY DEF Override
<1>3. PICK d : RuleAt(s, 1, i, d)
  BY <1>1, RuleInLine DEF Override
<1>4. <<d - 1, i - d>> \in NameAt(s, 1) /\ EndOf(1, <<d - 1, i - d>>) = i /\ s[1] # Blank
  <2>1. 1 \in 1 .. i
    BY <1>1
  <2> QED
    BY <1>3, <2>1 DEF RuleAt
<1>5. <<d - 1, i - d>> \in ms
  BY <1>4, AliasesBehind DEF CnameNames
<1>6. ms \in SUBSET NameAt(s, 1) /\ \A m \in ms : Aliases(s, EndOf(1, m)) # {}
  BY DEF CnameNames
<1>7. 1 \in CnameStarts(s)
  BY <1>1, <1>5, LenProperties DEF CnameStarts
<1> HIDE DEF ms
<1>8. Best(ms, g) /\ g \in NameAt(s, 1) /\ g \in ms /\ e \in 1 + 1 .. Len(s)
  BY <1>1, <1>5, <1>6, MatchProperties DEF Best
<1> HIDE DEF g
<1>9. d - 1 < g[1] \/ (d - 1 = g[1] /\ i - d <= g[2])
  BY <1>5, <1>8 DEF Best
<1>10. e \in i .. Len(s)
  BY <1>1, <1>3, <1>8, <1>9, NoLess
\* The match ends with a letter and a blank follows it.
<1>11. s[e] \in Lower
  <2>1. PICK h \in Nat \ {0} : /\ e \in 1 + h + 1 .. Len(s)
                               /\ \A p \in 1 + h + 1 .. e : s[p] \in Lower
    BY <1>1, <1>8, MatchInLine
  <2> HIDE DEF e
  <2>2. e \in 1 + h + 1 .. e
    BY <2>1
  <2> QED
    BY <2>1, <2>2
<1>12. e + 1 \in 1 .. Len(s) /\ s[e + 1] = Blank
  <2>1. PICK j \in Aliases(s, e) : TRUE
    BY <1>6, <1>8
  <2>2. PICK h \in AfterGap(s, e + 1) : TRUE
    BY <2>1 DEF Aliases
  <2>3. h \in e + 1 + 1 .. Len(s) /\ \A p \in e + 1 .. h - 1 : s[p] = Blank
    BY <2>2, GapOfBlanks DEF AfterGap
  <2> HIDE DEF e
  <2>4. e + 1 \in e + 1 .. h - 1 /\ e + 1 \in 1 .. Len(s)
    BY <1>1, <1>10, <2>3
  <2> QED
    BY <2>3, <2>4
<1> HIDE DEF e
<1>13. PICK f : RuleAt(s, k, Len(s) - 1, f)
  BY <1>1, RuleInLine DEF Override
<1>14. \A p \in k .. Len(s) - 1 : s[p] # Blank
  BY <1>13 DEF RuleAt
<1>15. e = i
  <2>1. SUFFICES ASSUME e > i PROVE FALSE
    BY <1>1, <1>10
  <2>2. Blank \notin Lower /\ "C" \notin Lower /\ "." # Blank
    BY Characters
  <2>3. e >= k
    <3>1. SUFFICES ASSUME e < k PROVE FALSE
      BY <1>1, <1>10
    <3>2. e = i + 1 \/ e = i + 2 \/ e \in i + 3 .. k - 1
      BY <1>1, <1>10, <2>1, <3>1
    <3> QED
      BY <1>2, <1>11, <2>2, <3>2
  <2>4. e + 1 \in k .. Len(s) - 1 \/ e + 1 = Len(s)
    BY <1>1, <1>10, <1>12, <2>3
  <2>5. s[Len(s)] = "."
    BY DEF Override
  <2> QED
    BY <1>12, <1>14, <2>2, <2>4, <2>5
<1> QED
  BY <1>4, <1>7, <1>15 DEF e, g, ms

LEMMA CnameTaken ==
    ASSUME NEW s \in Seq(Char), NEW i, NEW k, Override(s, i, k)
    PROVE  parse_cname(s) = [domain |-> lowercase(Cut(s, 1, i)),
                             alias  |-> lowercase(Cut(s, k, Len(s) - 1))]
<1> DEFINE e == EndOf(1, Greedy(CnameNames(s, 1)))
<1>1. /\ Len(s) \in Nat /\ i \in Nat \ {0} /\ k \in Nat \ {0} /\ i + 4 <= k /\ k <= Len(s) - 1
      /\ i \in 1 .. Len(s) /\ 1 \in 1 .. Len(s) /\ Len(s) - 1 \in k .. Len(s) /\ k \in 1 .. Len(s)
      /\ 1 \in 1 .. Len(s) + 1 /\ i \in 1 - 1 .. Len(s)
      /\ k \in 1 .. Len(s) + 1 /\ Len(s) - 1 \in k - 1 .. Len(s)
  BY LenProperties DEF Override
<1>2. 1 \in CnameStarts(s) /\ e = i /\ s[1] # Blank
  BY NameTaken
<1>3. CnameStarts(s) # {} /\ Min(CnameStarts(s)) = 1
  <2>1. Min(CnameStarts(s)) <= 1 /\ Min(CnameStarts(s)) \in 1 .. Len(s)
    BY <1>2, CnameMatch
  <2> QED
    BY <1>1, <1>2, <2>1
<1>4. Max(Aliases(s, i)) = k
  <2> DEFINE m == Max(Aliases(s, i))
  <2>1. m \in Aliases(s, i) /\ \A j \in Aliases(s, i) : j <= m
    BY <1>2, <1>3, CnameMatch
  <2> HIDE DEF m
  <2>2. k <= m /\ m <= k /\ m \in Nat
    BY <2>1, AliasesBehind
  <2>3. m = k
    BY <1>1, <2>2
  <2> QED
    BY <2>3 DEF m
<1>5. parse_cname(s) = IF None \in {DomainOf(s, 1), AliasOf(s, k)} THEN None
                       ELSE [domain |-> DomainOf(s, 1), alias |-> AliasOf(s, k)]
  BY <1>2, <1>3, <1>4, CnameMatch
<1>6. DomainOf(s, 1) = lowercase(Cut(s, 1, i)) /\ DomainOf(s, 1) # None
  <2>1. Match(s, 1, CnameNames(s, 1)) = Cut(s, 1, i)
    BY <1>2 DEF Match
  <2>2. CnameNames(s, 1) # {} /\ CnameNames(s, 1) \in SUBSET NameAt(s, 1)
    BY <1>2 DEF CnameStarts, CnameNames
  <2>3. trim(Match(s, 1, CnameNames(s, 1))) = Cut(s, 1, i)
    BY <1>1, <1>2, <2>1, <2>2, MatchProperties
  <2>4. IsRule(Cut(s, 1, i)) /\ Cut(s, 1, i) \in Seq(Char)
    BY <1>1, CutProperties DEF Override
  <2> QED
    BY <2>3, <2>4, RuleTaken, LineAssumption DEF DomainOf
<1>7. AliasOf(s, k) = lowercase(Cut(s, k, Len(s) - 1)) /\ AliasOf(s, k) # None
  <2>1. /\ AliasAt(s, k) # {} /\ EndOf(k, Greedy(AliasAt(s, k))) = Len(s) - 1
        /\ s[k] # Blank /\ AliasAt(s, k) \in SUBSET NameAt(s, k)
    BY AliasTaken DEF AliasAt
  <2>2. Match(s, k, AliasAt(s, k)) = Cut(s, k, Len(s) - 1)
    BY <2>1 DEF Match
  <2>3. trim(Match(s, k, AliasAt(s, k))) = Cut(s, k, Len(s) - 1)
    BY <1>1, <2>1, <2>2, MatchProperties
  <2>4. IsRule(Cut(s, k, Len(s) - 1)) /\ Cut(s, k, Len(s) - 1) \in Seq(Char)
    BY <1>1, CutProperties DEF Override
  <2> QED
    BY <2>3, <2>4, RuleTaken, LineAssumption DEF AliasOf
<1> QED
  BY <1>5, <1>6, <1>7

\* The cname format takes an override whole: the name and the alias as they are
\* written, however the two could be cut differently.
THEOREM OverridesWhole == Spec => []OverrideWhole
<1>1. IInv => OverrideWhole
  <2> SUFFICES ASSUME IInv PROVE OverrideWhole
    OBVIOUS
  <2>1. line \in Seq(Char) /\ Len(line) \in Nat /\ rule.cname = parse_cname(line)
    BY LenProperties DEF IInv, parse
  <2>2. ASSUME NEW i \in DOMAIN line, NEW k \in DOMAIN line,
               FirstWord(1, i), line[Len(line)] = ".", i + 3 < k,
               Gap(line, i + 1, i + 2), line[i + 2] = "C", Gap(line, i + 3, k),
               IsRule(Cut(line, 1, i)), IsRule(Cut(line, k, Len(line) - 1))
        PROVE  rule.cname = [domain |-> lowercase(Cut(line, 1, i)),
                             alias  |-> lowercase(Cut(line, k, Len(line) - 1))]
    <3>1. i \in 1 .. Len(line) /\ k \in 1 .. Len(line)
      BY <2>1, <2>2, LenProperties
    <3>2. i + 1 \in i + 1 .. i + 2 - 1
      BY <3>1
    <3>3. line[i + 1] = Blank /\ \A p \in i + 3 .. k - 1 : line[p] = Blank
      BY <2>2, <3>2, GapOfBlanks
    <3>4. k # Len(line)
      <4>1. SUFFICES ASSUME k = Len(line) PROVE FALSE
        OBVIOUS
      <4>2. Cut(line, k, Len(line) - 1) = <<>>
        BY <2>1, <4>1, SubSeqEmpty DEF Cut
      <4> QED
        BY <2>2, <4>2 DEF IsRule
    <3>5. k \in i + 4 .. Len(line) - 1
      <4>1. i + 3 < k /\ Len(line) \in Nat
        BY <2>1, <2>2
      <4> QED
        BY <3>1, <3>4, <4>1
    <3>6. Override(line, i, k)
      BY <2>2, <3>1, <3>3, <3>5 DEF Override
    <3> QED
      BY <2>1, <3>6, CnameTaken
  <2> QED
    BY <2>2 DEF OverrideWhole
<1> QED
  BY <1>1, Invariant, PTL
=============================================================================
