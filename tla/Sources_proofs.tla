--------------------------- MODULE Sources_proofs ---------------------------
(***************************************************************************)
(* Theorems about what an update reads, for any locations, sources and      *)
(* configurations, any texts published at any moments, and any number of    *)
(* attempts, changes and updates.                                           *)
(***************************************************************************)
EXTENDS Sources, SequenceTheorems, TLAPS

\* The text t may have been read at l.
Honest(l, t) == t \in seen[l] \/ (t = ErrorPage /\ l \in Url /\ None \in seen[l])

\* During an update the history has what is published now, and each step finds
\* what those before it leave.
Recorded ==
    /\ \A l \in Location : published[l] \in Holds[l]
    /\ step # "asleep" => \A l \in Location : published[l] \in seen[l]
    /\ step \in {"asleep", "load"} => config = Nowhere
    /\ step \notin {"compile", "stored"} => db = <<>> /\ todo = <<>>
    /\ step = "stored" => todo = <<>>

\* What the current fetch is for, and has.
Fetching ==
    /\ fetching # "nothing" => step = "load" \/ (step = "compile" /\ todo # <<>>)
    /\ fetching \in {"response", "body"} => Here \in Url
    /\ fetching = "body" => Honest(Here, body)

\* Of the configuration t, config is what is resolved and raw what is left.
Left(t) ==
    /\ Readable(t)
    /\ \A l \in List :
          /\ Len(config[l]) + Len(raw[l]) = Len(RawConfig[t][l])
          /\ \A i \in 1 .. Len(config[l]) : config[l][i] = locate(RawConfig[t][l][i])
          /\ \A i \in 1 .. Len(raw[l]) : raw[l][i] = RawConfig[t][l][Len(config[l]) + i]

Resolvable == step = "resolve" => \E t \in seen[config_url] : Left(t)

\* What compile() goes through, the part it is done with and the rest: a fetch
\* moves a source from one to the other.
Total == Len(db) + Len(todo)
Items ==
    [i \in 1 .. Total |-> IF i <= Len(db) THEN <<db[i][1], db[i][2]>> ELSE todo[i - Len(db)]]

\* It is what the configuration t lists.
Listed(t) ==
    /\ Readable(t)
    /\ \A l \in List : \E k \in 0 .. Total :
          /\ {i \in 1 .. Total : Items[i][1] = l} = k + 1 .. k + Len(RawConfig[t][l])
          /\ \A i \in 1 .. Len(RawConfig[t][l]) : Items[k + i][2] = locate(RawConfig[t][l][i])

Compiling == step \in {"compile", "stored"} => \E t \in seen[config_url] : Listed(t)

\* Where Resolve has looked for a file there has been one.
Found ==
    config_url \in File =>
        /\ \A l \in List : \A i \in 1 .. Len(config[l]) :
              config[l][i] \in LookedAt => seen[config[l][i]] # {None}
        /\ \A i \in 1 .. Total : Items[i][2] \in LookedAt => seen[Items[i][2]] # {None}

\* A file is passed over only when it is not there or cannot be read.
Lost(l) == None \in seen[l] \/ Unreadable \in seen[l]

Missed == \A i \in 1 .. Len(db) : db[i][2] \in File /\ db[i][3] = None => Lost(db[i][2])

IInv ==
    /\ TypeOK /\ Recorded /\ Fetching /\ Resolvable /\ Compiling /\ Found /\ Missed
    /\ TextAsPublished /\ FailsLocally
-----------------------------------------------------------------------------
\* Nothing is compiled and nothing is going to be.
LEMMA EmptyItems ==
    Len(<<>>) = 0 /\ (db = <<>> /\ todo = <<>> => Total = 0 /\ 1 .. Total = {})
BY EmptySeq DEF Total

LEMMA EmptyItemsNext ==
    db' = <<>> /\ todo' = <<>> => Total' = 0 /\ 1 .. Total' = {} /\ 1 .. Len(db') = {}
BY EmptySeq DEF Total

LEMMA ItemsAreSources ==
    ASSUME TypeOK
    PROVE  Total \in Nat /\ \A i \in 1 .. Total : Items[i] \in List \X Location
<1>1. /\ Len(db) \in Nat /\ Len(todo) \in Nat
      /\ \A i \in 1 .. Len(db) : db[i] \in List \X Location \X (Text \cup {None})
      /\ \A i \in 1 .. Len(todo) : todo[i] \in List \X Location
  BY LenProperties, ElementOfSeq DEF TypeOK
<1> QED
  BY <1>1 DEF Total, Items

\* A configuration stays listed, and left to resolve, while the sources do.
LEMMA SameListed ==
    ASSUME config_url' = config_url, Total' = Total, Items' = Items, NEW t, Listed(t)
    PROVE  Listed(t)'
<1>1. \A p : locate(p)' = locate(p)
  BY DEF locate
<1> QED
  BY <1>1 DEF Listed, Readable

LEMMA SameLeft ==
    ASSUME config_url' = config_url, raw' = raw, config' = config, NEW t, Left(t)
    PROVE  Left(t)'
<1>1. \A p : locate(p)' = locate(p)
  BY DEF locate
<1> QED
  BY <1>1 DEF Left, Readable

LEMMA InitInv == Init => IInv
<1> SUFFICES ASSUME Init PROVE IInv
  OBVIOUS
<1>1. DOMAIN <<>> = {} /\ \A S : <<>> \in Seq(S)
  OBVIOUS
<1>2. TypeOK
  BY <1>1, LocationAssumption, BoundAssumption DEF Init, TypeOK, Nowhere
<1>3. Recorded /\ Fetching /\ Resolvable /\ Compiling /\ TextAsPublished /\ FailsLocally
  BY <1>1 DEF Init, Recorded, Fetching, Resolvable, Compiling, TextAsPublished, FailsLocally
<1>4. Found /\ Missed
  BY EmptyItems DEF Init, Found, Missed, Nowhere
<1> QED
  BY <1>2, <1>3, <1>4 DEF IInv

\* Where the current fetch reads is a location.
LEMMA HereIsLocation ==
    ASSUME TypeOK, Fetching, fetching # "nothing"
    PROVE  /\ Here \in Location
           /\ step = "load" \/ (step = "compile" /\ todo # <<>>)
           /\ step = "compile" => Head(todo) \in List \X Location /\ Here = Head(todo)[2]
<1>1. CASE step = "load"
  BY <1>1, LocationAssumption DEF TypeOK, Here, Location
<1>2. CASE step = "compile" /\ todo # <<>>
  <2>1. Head(todo) \in List \X Location
    BY <1>2, HeadTailProperties DEF TypeOK
  <2> QED
    BY <1>2, <2>1 DEF Here
<1> QED
  BY <1>1, <1>2 DEF Fetching

\* A fetch ends with a text of its location or with none: nothing wrong gets in.
LEMMA GotInv ==
    ASSUME IInv, fetching # "nothing", NEW text \in Text \cup {None}, Got(text), Fetched,
           text # None => Honest(Here, text),
           Here \in File /\ text = None => Lost(Here)
    PROVE  IInv'
<1> USE DEF IInv
<1>1. /\ Here \in Location
      /\ step = "load" \/ (step = "compile" /\ todo # <<>>)
      /\ step = "compile" => Head(todo) \in List \X Location /\ Here = Head(todo)[2]
  BY HereIsLocation
<1>2. UNCHANGED <<config, config_url, published, seen, changes>>
  BY DEF Got, world
<1>3. CASE step = "load"
  <2> DEFINE yaml == IF text = None THEN None ELSE RawConfig[text]
  <2>1. /\ step' = IF yaml = None THEN "failed" ELSE "resolve"
        /\ raw' = IF yaml = None THEN raw ELSE yaml
        /\ UNCHANGED <<todo, db>> /\ Here = config_url
    BY <1>3 DEF Got, Here
  <2>2. yaml # None => yaml \in [List -> Seq(Path)] /\ Readable(text) /\ text \in Text
    BY TextAssumption DEF Readable
  <2>3. yaml = None => ~Readable(text)
    BY TextAssumption DEF Readable
  <2>4. TypeOK'
    BY <1>2, <2>1, <2>2, BoundAssumption DEF TypeOK, Fetched
  <2>5. Recorded' /\ Fetching' /\ Compiling'
    BY <1>2, <1>3, <2>1 DEF Recorded, Fetching, Compiling, Fetched
  <2>6. Resolvable'
    <3>1. text # ErrorPage \/ yaml = None
      BY TextAssumption
    <3>2. yaml # None => text \in seen[config_url]
      BY <2>1, <3>1 DEF Honest
    <3>3. ASSUME yaml # None PROVE Left(text)'
      <4>1. raw' = RawConfig[text] /\ config' = Nowhere
        BY <1>2, <1>3, <2>1, <3>3 DEF Recorded
      <4>2. \A l \in List : Len(Nowhere[l]) = 0 /\ Len(RawConfig[text][l]) \in Nat
        BY <2>2, <3>3, EmptyItems, LenProperties DEF Nowhere, Readable
      <4>3. ASSUME NEW l \in List
            PROVE  /\ Len(config'[l]) + Len(raw'[l]) = Len(RawConfig[text][l])
                   /\ 1 .. Len(config'[l]) = {}
                   /\ \A i \in 1 .. Len(raw'[l]) :
                         raw'[l][i] = RawConfig[text][l][Len(config'[l]) + i]
        <5>1. Len(config'[l]) = 0 /\ raw'[l] = RawConfig[text][l]
          BY <4>1, <4>2
        <5>2. \A n : n \in 1 .. Len(raw'[l]) => 0 + n = n
          OBVIOUS
        <5> QED
          BY <4>2, <5>1, <5>2
      <4> QED
        BY <2>2, <3>3, <4>3 DEF Left, Readable
    <3> QED
      BY <1>2, <2>1, <3>2, <3>3 DEF Resolvable
  <2>7. TextAsPublished'
    BY <1>2, <2>1 DEF TextAsPublished
  <2>8. FailsLocally'
    <3>1. step' = "failed" => yaml = None
      BY <2>1
    <3>2. ASSUME yaml = None, config_url \in File
          PROVE  \E t \in seen[config_url] : ~Readable(t)
      <4>1. CASE text = None
        <5>1. Lost(config_url)
          BY <2>1, <3>2, <4>1
        <5> QED
          BY <5>1, TextAssumption DEF Lost, Readable
      <4>2. CASE text # None
        <5>1. text \in seen[config_url]
          BY <2>1, <3>2, <4>2, LocationAssumption DEF Honest
        <5> QED
          BY <2>3, <3>2, <5>1
      <4> QED
        BY <4>1, <4>2
    <3> QED
      BY <1>2, <3>1, <3>2 DEF FailsLocally
  <2>9. Found' /\ Missed'
    <3>1. Total' = Total /\ Items' = Items
      BY <2>1 DEF Total, Items
    <3>2. Found'
      BY <1>2, <2>1, <3>1 DEF Found, LookedAt
    <3>3. Missed'
      BY <1>2, <2>1 DEF Missed, Lost
    <3> QED
      BY <3>2, <3>3
  <2> QED
    BY <2>4, <2>5, <2>6, <2>7, <2>8, <2>9
<1>4. CASE step = "compile" /\ todo # <<>>
  <2>1. /\ db' = Append(db, <<Head(todo)[1], Head(todo)[2], text>>)
        /\ todo' = Tail(todo) /\ UNCHANGED <<step, raw>>
    BY <1>4 DEF Got
  <2>2. PICK l \in List, u \in Location : Head(todo) = <<l, u>> /\ Here = u
    BY <1>1, <1>4
  <2>3. <<Head(todo)[1], Head(todo)[2], text>> = <<l, u, text>>
    BY <2>2
  <2>4. Tail(todo) \in Seq(List \X Location)
    BY <1>4, HeadTailProperties DEF TypeOK
  <2>5. <<l, u, text>> \in List \X Location \X (Text \cup {None})
    OBVIOUS
  <2>6. /\ db' \in Seq(List \X Location \X (Text \cup {None}))
        /\ Len(db') = Len(db) + 1 /\ db'[Len(db) + 1] = <<l, u, text>>
        /\ \A i \in 1 .. Len(db) : db'[i] = db[i]
    BY <2>1, <2>3, <2>5, AppendProperties DEF TypeOK
  <2>7. TypeOK'
    <3>1. /\ fetching' = "nothing" /\ attempt' \in 0 .. Attempts /\ body' = None
      BY BoundAssumption DEF Fetched
    <3> QED
      BY <1>2, <2>1, <2>4, <2>6, <3>1 DEF TypeOK
  <2>8. Recorded' /\ Fetching' /\ Resolvable' /\ FailsLocally'
    BY <1>2, <1>4, <2>1 DEF Recorded, Fetching, Fetched, Resolvable, FailsLocally
  <2>9. Total' = Total /\ Items' = Items
    <3>1. /\ Len(db) \in Nat /\ Len(todo) \in Nat \ {0} /\ Len(Tail(todo)) = Len(todo) - 1
          /\ \A i \in 1 .. Len(todo) - 1 : Tail(todo)[i] = todo[i + 1]
          /\ todo[1] = <<l, u>>
      BY <1>4, <2>2, EmptySeq, LenProperties, HeadTailProperties DEF TypeOK
    <3>2. Total' = Total /\ Total \in Nat
      BY <2>1, <2>6, <3>1 DEF Total
    <3>3. ASSUME NEW i \in 1 .. Total
          PROVE  (IF i <= Len(db') THEN <<db'[i][1], db'[i][2]>> ELSE todo'[i - Len(db')])
                 = (IF i <= Len(db) THEN <<db[i][1], db[i][2]>> ELSE todo[i - Len(db)])
      <4>1. CASE i <= Len(db)
        BY <2>6, <3>1, <3>2, <4>1
      <4>2. CASE i = Len(db) + 1
        BY <2>6, <3>1, <3>2, <4>2
      <4>3. CASE i > Len(db) + 1
        <5>1. i - Len(db) - 1 \in 1 .. Len(todo) - 1
          BY <3>1, <4>3 DEF Total
        <5> QED
          BY <2>1, <2>6, <3>1, <3>2, <4>3, <5>1
      <4> QED
        BY <3>1, <3>2, <4>1, <4>2, <4>3
    <3> QED
      BY <3>2, <3>3 DEF Items
  <2>10. Compiling'
    BY <1>2, <1>4, <2>1, <2>9, SameListed DEF Compiling
  <2>11. Found'
    BY <1>2, <2>9 DEF Found, LookedAt
  <2>12. Missed'
    <3>1. u \in File /\ text = None => Lost(u)
      BY <2>2
    <3>2. ASSUME NEW i \in 1 .. Len(db) + 1, db'[i][2] \in File, db'[i][3] = None
          PROVE  Lost(db'[i][2])
      <4>1. Len(db) \in Nat
        BY LenProperties DEF TypeOK
      <4>2. CASE i \in 1 .. Len(db)
        BY <2>6, <3>2, <4>2 DEF Missed
      <4>3. CASE i = Len(db) + 1
        BY <2>6, <3>1, <3>2, <4>3
      <4> QED
        BY <4>1, <4>2, <4>3
    <3> QED
      BY <1>2, <2>6, <3>2 DEF Missed, Lost
  <2>13. TextAsPublished'
    <3>1. DOMAIN db' = 1 .. Len(db) + 1 /\ DOMAIN db = 1 .. Len(db) /\ Len(db) \in Nat
      BY <2>6, LenProperties DEF TypeOK
    <3>2. ASSUME NEW i \in DOMAIN db', db'[i][3] # None
          PROVE  Honest(db'[i][2], db'[i][3])
      <4>1. CASE i \in 1 .. Len(db)
        BY <2>6, <3>1, <3>2, <4>1 DEF TextAsPublished, Honest
      <4>2. CASE i = Len(db) + 1
        BY <2>2, <2>6, <3>2, <4>2
      <4> QED
        BY <3>1, <4>1, <4>2
    <3> QED
      BY <1>2, <3>2 DEF TextAsPublished, Honest
  <2> QED
    BY <2>7, <2>8, <2>13, <2>10, <2>11, <2>12
<1> QED
  BY <1>1, <1>3, <1>4

LEMMA WaitInv ==
    ASSUME IInv, UNCHANGED <<config_url, update, world>>, TypeOK', Fetching'
    PROVE  IInv'
<1> USE DEF IInv, update, world
<1>1. Recorded'
  BY DEF Recorded
<1>2. Resolvable'
  BY SameLeft DEF Resolvable
<1>3. TextAsPublished'
  BY DEF TextAsPublished
<1>4. FailsLocally'
  BY DEF FailsLocally, Readable, locate
<1>5. Total' = Total /\ Items' = Items
  BY DEF Total, Items
<1>6. Compiling'
  BY <1>5, SameListed DEF Compiling
<1>7. Found' /\ Missed'
  BY <1>5 DEF Found, Missed, Lost, LookedAt
<1> QED
  BY <1>1, <1>2, <1>3, <1>4, <1>6, <1>7

LEMMA FetchInv == ASSUME IInv, FetchStep PROVE IInv'
<1> USE DEF IInv
<1>file. Url \cap File = {}
  BY LocationAssumption
<1>1. CASE ReadFile
  <2>1. Here \in Location /\ step # "asleep"
    BY <1>1, HereIsLocation DEF ReadFile
  <2>2. published[Here] \in Content /\ published[Here] \in seen[Here]
    BY <2>1 DEF TypeOK, Recorded
  <2> DEFINE text == read_to_string(published[Here])
  <2>3. text \in Text \cup {None} /\ fetching # "nothing" /\ Got(text) /\ Fetched
    BY <1>1 DEF ReadFile, read_to_string
  <2>4. (text # None => Honest(Here, text)) /\ (text = None => Lost(Here))
    BY <2>2, TextAssumption DEF read_to_string, Honest, Lost, Content
  <2> HIDE DEF text
  <2> QED
    BY <2>3, <2>4, GotInv
<1>2. CASE SendFails
  <2>1. CASE attempt < Attempts
    <3>1. /\ attempt' = attempt + 1
          /\ UNCHANGED <<config_url, update, world, fetching, body>>
      BY <1>2, <2>1 DEF SendFails
    <3>2. TypeOK'
      BY <2>1, <3>1, BoundAssumption DEF TypeOK, update, world
    <3>3. Fetching'
      BY <3>1 DEF Fetching, Honest, Here, update, world
    <3> QED
      BY <3>1, <3>2, <3>3, WaitInv
  <2>2. CASE ~(attempt < Attempts)
    <3>1. fetching = "response" /\ Got(None) /\ Fetched
      BY <1>2, <2>2 DEF SendFails
    <3> QED
      BY <3>1, <1>file, GotInv DEF Fetching
  <2> QED
    BY <2>1, <2>2
<1>3. CASE Responds
  <2>1. /\ fetching = "response" /\ fetching' = "body"
        /\ body' = IF published[Here] = None THEN ErrorPage ELSE published[Here]
        /\ UNCHANGED <<config_url, update, world, attempt>>
    BY <1>3 DEF Responds
  <2>2. Here \in Location /\ Here \in Url /\ step # "asleep"
    BY <2>1, HereIsLocation DEF Fetching
  <2>3. published[Here] \in Text \cup {None} /\ published[Here] \in seen[Here]
    BY <2>2, TextAssumption DEF TypeOK, Recorded, Content
  <2>4. TypeOK'
    BY <2>1, <2>3, TextAssumption DEF TypeOK, update, world
  <2>5. Honest(Here, body')
    BY <2>1, <2>2, <2>3 DEF Honest
  <2>6. Fetching'
    BY <2>1, <2>2, <2>5 DEF Fetching, Honest, Here, update, world
  <2> QED
    BY <2>1, <2>4, <2>6, WaitInv
<1>4. CASE BodyArrives
  <2>1. body \in Text \cup {None} /\ Honest(Here, body) /\ Here \notin File
    BY <1>4, <1>file DEF BodyArrives, Fetching, TypeOK
  <2> QED
    BY <1>4, <2>1, GotInv DEF BodyArrives
<1>5. CASE BodyBreaks
  <2>1. Here \notin File
    BY <1>5, <1>file DEF BodyBreaks, Fetching
  <2> QED
    BY <1>5, <2>1, GotInv DEF BodyBreaks
<1> QED
  BY <1>1, <1>2, <1>3, <1>4, <1>5 DEF FetchStep
-----------------------------------------------------------------------------
LEMMA WakeInv == ASSUME IInv, Wake PROVE IInv'
<1> USE DEF IInv
<1>1. /\ step = "asleep" /\ step' = "load" /\ seen' = [l \in Location |-> {published[l]}]
      /\ UNCHANGED <<config_url, raw, config, todo, db, published, changes>>
      /\ fetching' \in {"response", "file"} /\ attempt' \in 0 .. Attempts /\ body' = None
      /\ fetching' = "response" => config_url \in Url
  BY BoundAssumption DEF Wake, to_fetch
<1>2. TypeOK'
  BY <1>1 DEF TypeOK
<1>3. Recorded' /\ Fetching' /\ Resolvable' /\ Compiling' /\ FailsLocally'
  BY <1>1 DEF Recorded, Fetching, Here, Resolvable, Compiling, FailsLocally
<1>4. TextAsPublished'
  <2>1. db = <<>>
    BY <1>1 DEF Recorded
  <2> QED
    BY <1>1, <2>1 DEF TextAsPublished
<1>5. Found' /\ Missed'
  <2>1. config' = Nowhere /\ db' = <<>> /\ todo' = <<>>
    BY <1>1 DEF Recorded
  <2> QED
    BY <2>1, EmptyItems, EmptyItemsNext DEF Found, Missed, Nowhere
<1> QED
  BY <1>2, <1>3, <1>4, <1>5

LEMMA ResolveInv == ASSUME IInv, Resolve PROVE IInv'
<1>1. /\ TypeOK /\ Recorded /\ Fetching /\ Resolvable /\ Compiling /\ Found /\ Missed
      /\ TextAsPublished /\ FailsLocally
  BY DEF IInv
<1> DEFINE l == Resolving
           p == Head(raw[l])
<1>2. /\ step = "resolve" /\ raw # Nowhere
      /\ UNCHANGED <<config_url, todo, db, fetch, world>>
      /\ \/ missing(p) /\ step' = "failed" /\ UNCHANGED <<raw, config>>
         \/ /\ ~missing(p) /\ step' = step
            /\ raw' = [raw EXCEPT ![l] = Tail(@)]
            /\ config' = [config EXCEPT ![l] = Append(@, locate(p))]
  BY DEF Resolve
<1>3. l \in List /\ raw[l] # <<>> /\ raw[l] \in Seq(Path)
  <2>1. raw \in [List -> Seq(Path)] /\ \E k \in List : raw[k] # <<>>
    BY <1>1, <1>2 DEF TypeOK, Nowhere
  <2> QED
    BY <2>1 DEF Resolving, List
<1> HIDE DEF l
<1>4. /\ p \in Path /\ Tail(raw[l]) \in Seq(Path) /\ p = raw[l][1]
      /\ Len(raw[l]) \in Nat \ {0} /\ Len(Tail(raw[l])) = Len(raw[l]) - 1
      /\ \A i \in 1 .. Len(raw[l]) - 1 : Tail(raw[l])[i] = raw[l][i + 1]
  BY <1>3, HeadTailProperties, LenProperties, EmptySeq
<1> HIDE DEF p
<1>5. locate(p) \in Location
  BY <1>1, <1>4, LocationAssumption DEF locate, TypeOK
<1>6. PICK t \in seen[config_url] : Left(t)
  BY <1>1, <1>2 DEF Resolvable
<1>7. CASE step' = "resolve"
  <2> DEFINE n == Len(config[l])
             m == Len(raw[l])
  <2>1. /\ ~missing(p)
        /\ raw' = [raw EXCEPT ![l] = Tail(@)]
        /\ config' = [config EXCEPT ![l] = Append(@, locate(p))]
    BY <1>2, <1>7
  <2>2. /\ raw'[l] = Tail(raw[l]) /\ config'[l] = Append(config[l], locate(p))
        /\ \A k \in List \ {l} : raw'[k] = raw[k] /\ config'[k] = config[k]
        /\ raw' \in [List -> Seq(Path)] /\ config' \in [List -> Seq(Location)]
    <3>1. Append(config[l], locate(p)) \in Seq(Location)
      BY <1>1, <1>3, <1>5, AppendProperties DEF TypeOK
    <3> QED
      BY <1>1, <1>3, <1>4, <2>1, <3>1 DEF TypeOK
  <2>3. /\ n \in Nat /\ Len(config'[l]) = n + 1 /\ config'[l][n + 1] = locate(p)
        /\ \A i \in 1 .. n : config'[l][i] = config[l][i]
    <3>1. config[l] \in Seq(Location)
      BY <1>1, <1>3 DEF TypeOK
    <3> QED
      BY <1>5, <2>2, <3>1, AppendProperties, LenProperties
  <2>4. /\ m \in Nat \ {0} /\ Len(raw'[l]) = m - 1 /\ p = raw[l][1]
        /\ \A i \in 1 .. m - 1 : raw'[l][i] = raw[l][i + 1]
    BY <1>4, <2>2
  <2> HIDE DEF n, m
  <2>5. TypeOK'
    BY <1>1, <1>2, <1>7, <2>2 DEF TypeOK, fetch, world
  <2>6. Left(t)'
    <3>1. \A q : locate(q)' = locate(q)
      BY <1>2 DEF locate
    <3>2. ASSUME NEW k \in List
          PROVE  /\ Len(config'[k]) + Len(raw'[k]) = Len(RawConfig[t][k])
                 /\ \A i \in 1 .. Len(config'[k]) : config'[k][i] = locate(RawConfig[t][k][i])
                 /\ \A i \in 1 .. Len(raw'[k]) :
                       raw'[k][i] = RawConfig[t][k][Len(config'[k]) + i]
      <4>1. CASE k # l
        <5>1. config'[k] = config[k] /\ raw'[k] = raw[k]
          BY <2>2, <4>1
        <5> QED
          BY <1>6, <5>1 DEF Left
      <4>2. CASE k = l
        <5>1. /\ n + m = Len(RawConfig[t][l])
              /\ \A i \in 1 .. n : config[l][i] = locate(RawConfig[t][l][i])
              /\ \A i \in 1 .. m : raw[l][i] = RawConfig[t][l][n + i]
          BY <1>3, <1>6 DEF Left, n, m
        <5>2. Len(config'[l]) + Len(raw'[l]) = Len(RawConfig[t][l])
          <6>1. n \in Nat /\ m \in Nat /\ n + m = Len(RawConfig[t][l])
            BY <2>3, <2>4, <5>1
          <6>2. Len(config'[l]) = n + 1 /\ Len(raw'[l]) = m - 1
            BY <2>3, <2>4
          <6> QED
            BY <6>1, <6>2
        <5>3. ASSUME NEW i \in 1 .. n + 1 PROVE config'[l][i] = locate(RawConfig[t][l][i])
          <6>1. p = RawConfig[t][l][n + 1]
            BY <2>4, <5>1
          <6> QED
            BY <2>3, <5>1, <6>1
        <5>4. ASSUME NEW i \in 1 .. m - 1
              PROVE  raw'[l][i] = RawConfig[t][l][n + 1 + i]
          <6>1. raw'[l][i] = raw[l][i + 1]
            BY <2>4
          <6>2. i + 1 \in 1 .. m /\ n + (i + 1) = n + 1 + i
            BY <2>3, <2>4
          <6>3. raw[l][i + 1] = RawConfig[t][l][n + (i + 1)]
            BY <5>1, <6>2
          <6> QED
            BY <6>1, <6>2, <6>3
        <5> QED
          BY <2>3, <2>4, <4>2, <5>2, <5>3, <5>4
      <4> QED
        BY <4>1, <4>2
    <3> QED
      BY <1>6, <3>1, <3>2 DEF Left, Readable
  <2>7. Recorded' /\ Fetching' /\ Resolvable' /\ Compiling' /\ TextAsPublished'
    BY <1>1, <1>2, <1>7, <2>6 DEF Recorded, Fetching, Resolvable, Compiling, TextAsPublished,
          fetch, world
  <2>8. Missed' /\ FailsLocally'
    BY <1>1, <1>2, <1>7 DEF Missed, Lost, FailsLocally, world
  <2>9. Found'
    <3>1. config_url \in File /\ locate(p) \in LookedAt => seen[locate(p)] # {None}
      <4>1. locate(p) \in LookedAt => p \in Beside
        BY <1>4 DEF locate, LookedAt
      <4> QED
        BY <1>1, <1>2, <1>5, <2>1, <4>1 DEF missing, Recorded
    <3>2. Total' = Total /\ Items' = Items
      BY <1>2 DEF Total, Items
    <3>3. ASSUME config_url \in File, NEW k \in List, NEW i \in 1 .. Len(config'[k]),
                 config'[k][i] \in LookedAt
          PROVE  seen[config'[k][i]] # {None}
      <4>1. CASE k # l
        <5>1. config'[k] = config[k]
          BY <2>2, <4>1
        <5> QED
          BY <1>1, <3>3, <5>1 DEF Found
      <4>2. CASE k = l
        <5>1. CASE i \in 1 .. n
          BY <1>1, <1>3, <2>3, <3>3, <4>2, <5>1 DEF Found, n
        <5>2. CASE i = n + 1
          BY <2>3, <3>1, <3>3, <4>2, <5>2
        <5> QED
          BY <2>3, <4>2, <5>1, <5>2
      <4> QED
        BY <4>1, <4>2
    <3> QED
      BY <1>1, <1>2, <3>2, <3>3 DEF Found, LookedAt, world
  <2> QED
    BY <2>5, <2>6, <2>7, <2>8, <2>9 DEF IInv
<1>8. CASE step' = "failed"
  <2>1. missing(p) /\ UNCHANGED <<raw, config>>
    BY <1>2, <1>8
  <2>2. PICK j \in DOMAIN RawConfig[t][l] : p = RawConfig[t][l][j]
    <3>1. /\ RawConfig[t] \in [List -> Seq(Path)]
      <4>1. t \in Text /\ RawConfig[t] # None
        BY <1>1, <1>6, LocationAssumption DEF Left, Readable, TypeOK
      <4> QED
        BY <4>1, TextAssumption
    <3>2. config[l] \in Seq(Location) /\ RawConfig[t][l] \in Seq(Path)
      BY <1>1, <1>3, <3>1 DEF TypeOK
    <3>3. /\ Len(config[l]) \in Nat /\ Len(RawConfig[t][l]) \in Nat
          /\ DOMAIN RawConfig[t][l] = 1 .. Len(RawConfig[t][l])
      BY <3>2, LenProperties
    <3>4. /\ Len(config[l]) + Len(raw[l]) = Len(RawConfig[t][l])
          /\ \A i \in 1 .. Len(raw[l]) : raw[l][i] = RawConfig[t][l][Len(config[l]) + i]
      BY <1>3, <1>6 DEF Left
    <3>5. Len(raw[l]) \in Nat \ {0}
      BY <1>4
    <3>6. 1 \in 1 .. Len(raw[l]) /\ Len(config[l]) + 1 \in 1 .. Len(RawConfig[t][l])
      <4>1. \A x, z \in Nat : \A y \in Nat \ {0} : x + y = z => 1 \in 1 .. y /\ x + 1 \in 1 .. z
        OBVIOUS
      <4> QED
        BY <3>3, <3>4, <3>5, <4>1
    <3> QED
      BY <1>4, <3>3, <3>4, <3>6
  <2>3. p \in Beside /\ None \in seen[locate(p)]
    BY <1>1, <1>2, <1>5, <2>1 DEF missing, Recorded
  <2>4. FailsLocally'
    BY <1>2, <1>3, <1>6, <2>2, <2>3 DEF FailsLocally, locate, world
  <2>5. Recorded' /\ Fetching' /\ Resolvable' /\ Compiling' /\ TextAsPublished'
    BY <1>1, <1>2, <1>8 DEF Recorded, Fetching, Resolvable, Compiling, TextAsPublished, fetch, world
  <2>6. Found' /\ Missed'
    <3>1. Total' = Total /\ Items' = Items
      BY <1>2 DEF Total, Items
    <3> QED
      BY <1>1, <1>2, <2>1, <3>1 DEF Found, Missed, Lost, LookedAt, world
  <2>7. TypeOK'
    BY <1>1, <1>2, <1>8, <2>1 DEF TypeOK, fetch, world
  <2> QED
    BY <2>4, <2>5, <2>6, <2>7 DEF IInv
<1> QED
  BY <1>2, <1>7, <1>8

\* compile() goes through the whitelist, the blacklist and the overrides.
LEMMA InOrder ==
    ASSUME NEW c \in [List -> Seq(Location)]
    PROVE  LET w == Len(c["whitelist"])   b == Len(c["blacklist"])   o == Len(c["overrides"]) IN
           /\ w \in Nat /\ b \in Nat /\ o \in Nat
           /\ in_order(c) \in Seq(List \X Location) /\ Len(in_order(c)) = w + b + o
           /\ \A i \in 1 .. w : in_order(c)[i] = <<"whitelist", c["whitelist"][i]>>
           /\ \A i \in 1 .. b : in_order(c)[w + i] = <<"blacklist", c["blacklist"][i]>>
           /\ \A i \in 1 .. o : in_order(c)[w + b + i] = <<"overrides", c["overrides"][i]>>
<1> DEFINE w == Len(c["whitelist"])
           b == Len(c["blacklist"])
           o == Len(c["overrides"])
           Sources == List \X Location
<1>1. ASSUME NEW l \in List
      PROVE  /\ Len(c[l]) \in Nat /\ Of(l, c) \in Seq(Sources) /\ Len(Of(l, c)) = Len(c[l])
             /\ \A i \in 1 .. Len(c[l]) : Of(l, c)[i] = <<l, c[l][i]>>
  <2>1. DOMAIN c[l] = 1 .. Len(c[l]) /\ Len(c[l]) \in Nat
    BY LenProperties
  <2>2. \A i \in 1 .. Len(c[l]) : <<l, c[l][i]>> \in Sources
    BY <2>1, ElementOfSeq
  <2>3. Of(l, c) = [i \in 1 .. Len(c[l]) |-> <<l, c[l][i]>>]
    BY <2>1 DEF Of
  <2>4. Of(l, c) \in Seq(Sources)
    BY <2>1, <2>2, <2>3, IsASeq
  <2>5. Len(Of(l, c)) = Len(c[l])
    BY <2>1, <2>3, <2>4, LenProperties
  <2> QED
    BY <2>1, <2>3, <2>4, <2>5
<1>2. "whitelist" \in List /\ "blacklist" \in List /\ "overrides" \in List
  BY DEF List
<1> DEFINE W == Of("whitelist", c)
           B == Of("blacklist", c)
           O == Of("overrides", c)
<1>3. /\ w \in Nat /\ b \in Nat /\ o \in Nat
      /\ W \in Seq(Sources) /\ B \in Seq(Sources) /\ O \in Seq(Sources)
      /\ Len(W) = w /\ Len(B) = b /\ Len(O) = o
      /\ \A i \in 1 .. w : W[i] = <<"whitelist", c["whitelist"][i]>>
      /\ \A i \in 1 .. b : B[i] = <<"blacklist", c["blacklist"][i]>>
      /\ \A i \in 1 .. o : O[i] = <<"overrides", c["overrides"][i]>>
  BY <1>1, <1>2
<1> DEFINE WB == W \o B
<1> HIDE DEF W, B, O, WB, w, b, o, Sources
<1>4. /\ WB \in Seq(Sources) /\ Len(WB) = w + b
      /\ \A i \in 1 .. w + b : WB[i] = IF i <= w THEN W[i] ELSE B[i - w]
  <2>1. /\ WB \in Seq(Sources) /\ Len(WB) = Len(W) + Len(B)
        /\ \A i \in 1 .. Len(W) + Len(B) : WB[i] = IF i <= Len(W) THEN W[i] ELSE B[i - Len(W)]
    BY <1>3, ConcatProperties DEF WB
  <2> QED
    BY <1>3, <2>1
<1>5. /\ WB \o O \in Seq(Sources) /\ Len(WB \o O) = w + b + o
      /\ \A i \in 1 .. w + b + o :
            (WB \o O)[i] = IF i <= w + b THEN WB[i] ELSE O[i - (w + b)]
  <2>1. /\ WB \o O \in Seq(Sources) /\ Len(WB \o O) = Len(WB) + Len(O)
        /\ \A i \in 1 .. Len(WB) + Len(O) :
              (WB \o O)[i] = IF i <= Len(WB) THEN WB[i] ELSE O[i - Len(WB)]
    <3>1. WB \in Seq(Sources) /\ O \in Seq(Sources)
      BY <1>3, <1>4
    <3> QED
      BY <3>1, ConcatProperties
  <2>2. Len(WB) = w + b /\ Len(O) = o
    BY <1>3, <1>4
  <2> QED
    BY <2>1, <2>2
<1>6. in_order(c) = WB \o O
  BY DEF in_order, W, B, O, WB
<1>7. ASSUME NEW i \in 1 .. w PROVE in_order(c)[i] = <<"whitelist", c["whitelist"][i]>>
  BY <1>3, <1>4, <1>5, <1>6
<1>8. ASSUME NEW i \in 1 .. b PROVE in_order(c)[w + i] = <<"blacklist", c["blacklist"][i]>>
  <2>1. /\ w + i \in 1 .. w + b + o /\ w + i \in 1 .. w + b
        /\ ~(w + i <= w) /\ (w + i) - w = i
    BY <1>3
  <2>2. in_order(c)[w + i] = WB[w + i]
    BY <1>5, <1>6, <2>1
  <2>3. WB[w + i] = B[(w + i) - w]
    BY <1>4, <2>1
  <2> QED
    BY <1>3, <2>1, <2>2, <2>3
<1>9. ASSUME NEW i \in 1 .. o PROVE in_order(c)[w + b + i] = <<"overrides", c["overrides"][i]>>
  <2>1. w + b + i \in 1 .. w + b + o /\ ~(w + b + i <= w + b) /\ (w + b + i) - (w + b) = i
    BY <1>3
  <2>2. in_order(c)[w + b + i] = O[(w + b + i) - (w + b)]
    BY <1>5, <1>6, <2>1
  <2> QED
    BY <1>3, <2>1, <2>2
<1> QED
  BY <1>3, <1>5, <1>6, <1>7, <1>8, <1>9 DEF w, b, o, Sources

LEMMA ResolvedInv == ASSUME IInv, Resolved PROVE IInv'
<1> USE DEF IInv
<1>1. /\ step = "resolve" /\ step' = "compile" /\ todo' = in_order(config)
      /\ UNCHANGED <<config_url, raw, config, db, fetch, world>>
  BY DEF Resolved
<1>2. in_order(config) \in Seq(List \X Location)
  BY InOrder DEF TypeOK
<1>3. TypeOK'
  BY <1>1, <1>2 DEF TypeOK, fetch, world
<1>4. Recorded' /\ Fetching' /\ Resolvable' /\ TextAsPublished' /\ FailsLocally' /\ Missed'
  BY <1>1 DEF Recorded, Fetching, Resolvable, TextAsPublished, FailsLocally, Missed, fetch, world
<1> DEFINE w == Len(config["whitelist"])
           b == Len(config["blacklist"])
           o == Len(config["overrides"])
<1>5. /\ w \in Nat /\ b \in Nat /\ o \in Nat /\ Len(in_order(config)) = w + b + o
      /\ \A i \in 1 .. w : in_order(config)[i] = <<"whitelist", config["whitelist"][i]>>
      /\ \A i \in 1 .. b : in_order(config)[w + i] = <<"blacklist", config["blacklist"][i]>>
      /\ \A i \in 1 .. o : in_order(config)[w + b + i] = <<"overrides", config["overrides"][i]>>
  BY InOrder DEF TypeOK
<1> HIDE DEF w, b, o
<1>6. /\ Total' = w + b + o
      /\ \A i \in 1 .. w : Items'[i] = <<"whitelist", config["whitelist"][i]>>
      /\ \A i \in 1 .. b : Items'[w + i] = <<"blacklist", config["blacklist"][i]>>
      /\ \A i \in 1 .. o : Items'[w + b + i] = <<"overrides", config["overrides"][i]>>
  <2>1. db' = <<>> /\ Len(db') = 0
    BY <1>1, EmptyItems DEF Recorded
  <2>2. Total' = w + b + o
    BY <1>1, <1>5, <2>1 DEF Total
  <2>3. \A i \in 1 .. w + b + o : Items'[i] = in_order(config)[i]
    BY <1>1, <1>5, <2>1, <2>2 DEF Items
  <2>4. /\ \A i \in 1 .. w : i \in 1 .. w + b + o
        /\ \A i \in 1 .. b : w + i \in 1 .. w + b + o
        /\ \A i \in 1 .. o : w + b + i \in 1 .. w + b + o
    BY <1>5
  <2> QED
    BY <1>5, <2>2, <2>3, <2>4
<1>7. Compiling'
  <2>1. PICK t \in seen[config_url] : Left(t)
    BY <1>1 DEF Resolvable
  <2>2. \A q : locate(q)' = locate(q)
    BY <1>1 DEF locate
  <2>3. \A l \in List : /\ Len(config[l]) = Len(RawConfig[t][l])
                        /\ \A i \in 1 .. Len(RawConfig[t][l]) :
                              config[l][i] = locate(RawConfig[t][l][i])
    <3>1. \A l \in List : Len(raw[l]) = 0
      BY <1>1, EmptyItems DEF Resolved, Nowhere
    <3>2. \A l \in List : Len(config[l]) \in Nat
      BY LenProperties DEF TypeOK
    <3>3. ASSUME NEW l \in List
          PROVE  /\ Len(config[l]) = Len(RawConfig[t][l])
                 /\ \A i \in 1 .. Len(config[l]) : config[l][i] = locate(RawConfig[t][l][i])
      <4>1. /\ Len(config[l]) + Len(raw[l]) = Len(RawConfig[t][l])
            /\ \A i \in 1 .. Len(config[l]) : config[l][i] = locate(RawConfig[t][l][i])
        BY <2>1 DEF Left
      <4>2. Len(raw[l]) = 0 /\ Len(config[l]) \in Nat
        BY <3>1, <3>2
      <4> QED
        BY <4>1, <4>2
    <3> QED
      BY <3>3
  <2>4. ASSUME NEW l \in List
        PROVE  \E k \in 0 .. Total' :
                  /\ {i \in 1 .. Total' : Items'[i][1] = l} = k + 1 .. k + Len(config[l])
                  /\ \A i \in 1 .. Len(config[l]) : Items'[k + i][2] = config[l][i]
    <3>1. \A i \in 1 .. Total' :
             \/ i \in 1 .. w /\ Items'[i][1] = "whitelist"
             \/ i \in w + 1 .. w + b /\ Items'[i][1] = "blacklist"
             \/ i \in w + b + 1 .. w + b + o /\ Items'[i][1] = "overrides"
      <4>1. SUFFICES ASSUME NEW i \in 1 .. w + b + o
                     PROVE  \/ i \in 1 .. w /\ Items'[i][1] = "whitelist"
                            \/ i \in w + 1 .. w + b /\ Items'[i][1] = "blacklist"
                            \/ i \in w + b + 1 .. w + b + o /\ Items'[i][1] = "overrides"
        BY <1>6
      <4>2. CASE i \in 1 .. w
        BY <1>6, <4>2
      <4>3. CASE i \in w + 1 .. w + b
        <5>1. i - w \in 1 .. b /\ w + (i - w) = i
          BY <1>5, <4>3
        <5>2. Items'[w + (i - w)] = <<"blacklist", config["blacklist"][i - w]>>
          BY <1>6, <5>1
        <5> QED
          BY <4>3, <5>1, <5>2
      <4>4. CASE i \in w + b + 1 .. w + b + o
        <5>1. i - (w + b) \in 1 .. o /\ w + b + (i - (w + b)) = i
          BY <1>5, <4>4
        <5>2. Items'[w + b + (i - (w + b))] = <<"overrides", config["overrides"][i - (w + b)]>>
          BY <1>6, <5>1
        <5> QED
          BY <4>4, <5>1, <5>2
      <4> QED
        BY <1>5, <4>2, <4>3, <4>4
    <3>2. CASE l = "whitelist"
      <4>1. {i \in 1 .. Total' : Items'[i][1] = l} = 0 + 1 .. 0 + w
        BY <1>5, <1>6, <3>1, <3>2
      <4>2. \A i \in 1 .. w : Items'[0 + i][2] = config[l][i]
        BY <1>5, <1>6, <3>2
      <4>3. 0 \in 0 .. Total' /\ Len(config[l]) = w
        BY <1>5, <1>6, <3>2 DEF w
      <4> QED
        BY <4>1, <4>2, <4>3
    <3>3. CASE l = "blacklist"
      <4>1. {i \in 1 .. Total' : Items'[i][1] = l} = w + 1 .. w + b
        BY <1>5, <1>6, <3>1, <3>3
      <4>2. \A i \in 1 .. b : Items'[w + i][2] = config[l][i]
        BY <1>5, <1>6, <3>3
      <4>3. w \in 0 .. Total' /\ Len(config[l]) = b
        BY <1>5, <1>6, <3>3 DEF b
      <4> QED
        BY <4>1, <4>2, <4>3
    <3>4. CASE l = "overrides"
      <4>1. {i \in 1 .. Total' : Items'[i][1] = l} = (w + b) + 1 .. (w + b) + o
        BY <1>5, <1>6, <3>1, <3>4
      <4>2. \A i \in 1 .. o : Items'[(w + b) + i][2] = config[l][i]
        BY <1>5, <1>6, <3>4
      <4>3. w + b \in 0 .. Total' /\ Len(config[l]) = o
        BY <1>5, <1>6, <3>4 DEF o
      <4> QED
        BY <4>1, <4>2, <4>3
    <3> QED
      BY <3>2, <3>3, <3>4 DEF List
  <2>5. Listed(t)'
    <3>1. ASSUME NEW l \in List
          PROVE  \E k \in 0 .. Total' :
                    /\ {i \in 1 .. Total' : Items'[i][1] = l} = k + 1 .. k + Len(RawConfig[t][l])
                    /\ \A i \in 1 .. Len(RawConfig[t][l]) :
                          Items'[k + i][2] = locate(RawConfig[t][l][i])
      <4>1. PICK k \in 0 .. Total' :
                    /\ {i \in 1 .. Total' : Items'[i][1] = l} = k + 1 .. k + Len(config[l])
                    /\ \A i \in 1 .. Len(config[l]) : Items'[k + i][2] = config[l][i]
        BY <2>4
      <4> QED
        BY <2>3, <4>1
    <3> QED
      BY <2>1, <2>2, <3>1 DEF Left, Listed, Readable
  <2> QED
    BY <1>1, <2>1, <2>5 DEF Compiling, world
<1>8. Found'
  <2>1. ASSUME config_url \in File, NEW i \in 1 .. Total', Items'[i][2] \in LookedAt
        PROVE  seen[Items'[i][2]] # {None}
    <3>1. CASE i \in 1 .. w
      <4>1. Items'[i][2] = config["whitelist"][i]
        BY <1>6, <3>1
      <4> QED
        BY <2>1, <3>1, <4>1 DEF Found, List, w
    <3>2. CASE i \in w + 1 .. w + b
      <4>1. i - w \in 1 .. b /\ w + (i - w) = i
        BY <1>5, <3>2
      <4>2. Items'[w + (i - w)][2] = config["blacklist"][i - w]
        BY <1>6, <4>1
      <4> QED
        BY <2>1, <4>1, <4>2 DEF Found, List, b
    <3>3. CASE i \in w + b + 1 .. w + b + o
      <4>1. i - (w + b) \in 1 .. o /\ w + b + (i - (w + b)) = i
        BY <1>5, <3>3
      <4>2. Items'[w + b + (i - (w + b))][2] = config["overrides"][i - (w + b)]
        BY <1>6, <4>1
      <4> QED
        BY <2>1, <4>1, <4>2 DEF Found, List, o
    <3> QED
      BY <1>5, <1>6, <3>1, <3>2, <3>3
  <2> QED
    BY <1>1, <2>1 DEF Found, LookedAt, world
<1> QED
  BY <1>3, <1>4, <1>7, <1>8

LEMMA LoadNextInv == ASSUME IInv, LoadNext PROVE IInv'
<1>1. /\ step = "compile" /\ todo # <<>> /\ UNCHANGED <<config_url, update, world>>
      /\ fetching' = IF Here \in Url THEN "response" ELSE "file"
      /\ attempt' = IF Here \in Url THEN 1 ELSE 0
      /\ body' = None
  BY DEF LoadNext, to_fetch
<1>2. TypeOK'
  BY <1>1, BoundAssumption DEF IInv, TypeOK, update, world
<1>3. Fetching'
  BY <1>1 DEF Fetching, Here, update
<1> QED
  BY <1>1, <1>2, <1>3, WaitInv

LEMMA LeaveInv == ASSUME IInv, Compiled \/ Sleep PROVE IInv'
<1> USE DEF IInv
<1>1. DOMAIN <<>> = {} /\ \A S : <<>> \in Seq(S)
  OBVIOUS
<1>2. CASE Compiled
  <2>1. /\ step = "compile" /\ todo = <<>> /\ step' = "stored"
        /\ UNCHANGED <<config_url, raw, config, todo, db, fetch, world>>
    BY <1>2 DEF Compiled
  <2>2. TypeOK'
    BY <2>1 DEF TypeOK, fetch, world
  <2>3. Total' = Total /\ Items' = Items
    BY <2>1 DEF Total, Items
  <2>4. Compiling'
    BY <2>1, <2>3, SameListed DEF Compiling, world
  <2>5. Found' /\ Missed'
    BY <2>1, <2>3 DEF Found, Missed, Lost, LookedAt, world
  <2>6. Recorded' /\ Fetching' /\ Resolvable' /\ TextAsPublished' /\ FailsLocally'
    BY <2>1 DEF Recorded, Fetching, Resolvable, TextAsPublished, FailsLocally, fetch, world
  <2> QED
    BY <2>2, <2>4, <2>5, <2>6
<1>3. CASE Sleep
  <2>1. /\ step' = "asleep" /\ raw' = Nowhere /\ config' = Nowhere /\ todo' = <<>> /\ db' = <<>>
        /\ seen' = [l \in Location |-> {}] /\ changes' = 0 /\ step \in {"stored", "failed"}
        /\ UNCHANGED <<config_url, published, fetch>>
    BY <1>3 DEF Sleep
  <2>2. TypeOK'
    BY <1>1, <2>1, BoundAssumption DEF TypeOK, Nowhere, fetch
  <2>3. Found' /\ Missed'
    BY <2>1, EmptyItems, EmptyItemsNext DEF Found, Missed, Nowhere
  <2>4. Recorded' /\ Fetching' /\ Resolvable' /\ Compiling' /\ TextAsPublished' /\ FailsLocally'
    BY <1>1, <2>1 DEF Recorded, Fetching, Resolvable, Compiling, TextAsPublished, FailsLocally,
          fetch
  <2> QED
    BY <2>2, <2>3, <2>4
<1> QED
  BY <1>2, <1>3

\* What has been seen stays seen, whatever is published next.
LEMMA PublishInv ==
    ASSUME IInv, NEW l \in Location, NEW t \in Holds[l], Publish(l, t) PROVE IInv'
<1> USE DEF IInv
<1>1. /\ published' = [published EXCEPT ![l] = t]
      /\ UNCHANGED <<config_url, update, fetch>>
      /\ \/ step = "asleep" /\ UNCHANGED <<seen, changes>>
         \/ /\ step # "asleep" /\ changes < MaxChanges /\ changes' = changes + 1
            /\ seen' = [seen EXCEPT ![l] = @ \cup {t}]
  BY DEF Publish
<1>2. t \in Content
  BY TextAssumption
<1>3. \A k \in Location : seen[k] \subseteq seen'[k] /\ published'[k] \in {t, published[k]}
  BY <1>1 DEF TypeOK
<1>4. TypeOK'
  <2>1. published' \in [Location -> Content]
    BY <1>1, <1>2 DEF TypeOK
  <2>2. seen' \in [Location -> SUBSET Content]
    <3>1. seen \in [Location -> SUBSET Content]
      BY DEF TypeOK
    <3> QED
      BY <1>1, <1>2, <3>1
  <2>3. changes' \in 0 .. MaxChanges
    BY <1>1, BoundAssumption DEF TypeOK
  <2> QED
    BY <1>1, <2>1, <2>2, <2>3 DEF TypeOK, update, fetch
<1>5. Recorded'
  BY <1>1, <1>3 DEF Recorded, TypeOK, update
<1>6. Fetching'
  <2>1. UNCHANGED <<step, todo, db, config_url, fetching, attempt, body>>
    BY <1>1 DEF update, fetch
  <2>2. fetching = "body" => Honest(Here, body)'
    BY <2>1, <1>3, HereIsLocation DEF Fetching, Honest, Here
  <2> QED
    BY <2>1, <2>2 DEF Fetching, Here
<1>7. Resolvable'
  <2>1. config_url' = config_url /\ raw' = raw /\ step' = step /\ config_url \in Location
    BY <1>1, LocationAssumption DEF TypeOK, update
  <2>2. config' = config
    BY <1>1 DEF update
  <2> QED
    BY <2>1, <2>2, <1>3, SameLeft DEF Resolvable
<1>8. TextAsPublished'
  <2>1. db' = db
    BY <1>1 DEF update
  <2>2. ASSUME NEW i \in DOMAIN db PROVE db[i][2] \in Location
    BY <2>2, ElementOfSeq, LenProperties DEF TypeOK
  <2> QED
    BY <1>3, <2>1, <2>2 DEF TextAsPublished
<1>9. FailsLocally'
  <2>1. config_url' = config_url /\ step' = step /\ config_url \in Location
    BY <1>1, LocationAssumption DEF TypeOK, update
  <2>2. \A p \in Beside : locate(p) \in Location /\ locate(p)' = locate(p)
    BY <2>1, LocationAssumption DEF locate, TypeOK
  <2> QED
    BY <1>3, <2>1, <2>2 DEF FailsLocally, Readable
<1>10. Total' = Total /\ Items' = Items /\ UNCHANGED <<config_url, step, config, db>>
  BY <1>1 DEF Total, Items, update
<1>11. Compiling'
  <2>1. config_url \in Location
    BY LocationAssumption DEF TypeOK
  <2> QED
    BY <1>3, <1>10, <2>1, SameListed DEF Compiling
<1>12. ASSUME NEW k \in Location, seen[k] # {None} \/ step = "asleep" PROVE seen'[k] # {None} \/ step = "asleep"
  <2>1. step # "asleep" => \E u \in seen[k] : u # None
    BY <1>12 DEF Recorded
  <2> QED
    BY <1>3, <2>1
<1>13. Found'
  <2>1. /\ \A k \in List : \A i \in 1 .. Len(config[k]) : config[k][i] \in Location
        /\ \A i \in 1 .. Total : Items[i][2] \in Location
    BY ItemsAreSources, ElementOfSeq DEF TypeOK
  <2>2. CASE step = "asleep"
    BY <1>10, <2>2, EmptyItems DEF Found, Recorded, Nowhere
  <2>3. CASE step # "asleep"
    BY <1>10, <1>12, <2>1, <2>3 DEF Found, LookedAt
  <2> QED
    BY <2>2, <2>3
<1>14. Missed'
  <2>1. \A i \in 1 .. Len(db) : db[i][2] \in Location
    BY ElementOfSeq DEF TypeOK
  <2> QED
    BY <1>3, <1>10, <2>1 DEF Missed, Lost
<1> QED
  BY <1>4, <1>5, <1>6, <1>7, <1>8, <1>9, <1>11, <1>13, <1>14
-----------------------------------------------------------------------------
LEMMA StepInv == IInv /\ [Next]_vars => IInv'
<1> SUFFICES ASSUME IInv, [Next]_vars PROVE IInv'
  OBVIOUS
<1>1. CASE UpdateStep
  BY <1>1, WakeInv, FetchInv, ResolveInv, ResolvedInv, LoadNextInv, LeaveInv DEF UpdateStep
<1>2. CASE UNCHANGED vars
  <2>1. UNCHANGED <<config_url, update, world, fetching, attempt, body>>
    BY <1>2 DEF vars, fetch
  <2>2. TypeOK' /\ Fetching'
    BY <2>1 DEF IInv, TypeOK, Fetching, Honest, Here, update, world
  <2> QED
    BY <2>1, <2>2, WaitInv
<1> QED
  BY <1>1, <1>2, PublishInv DEF Next

LEMMA Invariance == Spec => []IInv
  BY InitInv, StepInv, PTL DEF Spec

\* Type correctness, for any number of locations, texts and attempts.
THEOREM TypeCorrect == Spec => []TypeOK
<1>1. IInv => TypeOK
  BY DEF IInv
<1> QED
  BY <1>1, Invariance, PTL

\* Whatever is published when, and whichever requests fail in whatever way, an
\* update compiles no text but those its sources had while it ran.
THEOREM NothingMadeUp == Spec => []TextAsPublished
<1>1. IInv => TextAsPublished
  BY DEF IInv
<1> QED
  BY <1>1, Invariance, PTL

\* However often the configuration is replaced while it is being read and worked
\* off, what is stored is all of one version of it.
THEOREM OneVersion == Spec => []OneConfiguration
<1>1. IInv => OneConfiguration
  <2>1. SUFFICES ASSUME IInv, step = "stored"
                 PROVE  \E t \in seen[config_url] : Readable(t) /\ \A l \in List :
                           \E k \in 0 .. Len(db) :
                              /\ {i \in DOMAIN db : db[i][1] = l}
                                    = k + 1 .. k + Len(RawConfig[t][l])
                              /\ \A i \in DOMAIN RawConfig[t][l] :
                                    db[k + i][2] = locate(RawConfig[t][l][i])
    BY DEF OneConfiguration
  <2>2. PICK t \in seen[config_url] : Listed(t)
    BY <2>1 DEF IInv, Compiling
  <2>3. /\ Len(db) \in Nat /\ DOMAIN db = 1 .. Len(db) /\ Total = Len(db)
        /\ \A i \in 1 .. Len(db) : Items[i] = <<db[i][1], db[i][2]>>
    <3>1. todo = <<>> /\ Len(db) \in Nat /\ DOMAIN db = 1 .. Len(db)
      BY <2>1, LenProperties DEF IInv, Recorded, TypeOK
    <3>2. Total = Len(db)
      BY <3>1, EmptyItems DEF Total
    <3> QED
      BY <3>1, <3>2 DEF Items
  <2>4. t \in Text
    BY <2>1, <2>2, LocationAssumption DEF IInv, TypeOK, Listed, Readable
  <2>5. ASSUME NEW l \in List
        PROVE  \E k \in 0 .. Len(db) :
                  /\ {i \in DOMAIN db : db[i][1] = l} = k + 1 .. k + Len(RawConfig[t][l])
                  /\ \A i \in DOMAIN RawConfig[t][l] :
                        db[k + i][2] = locate(RawConfig[t][l][i])
    <3>1. PICK k \in 0 .. Len(db) :
                  /\ {i \in 1 .. Len(db) : Items[i][1] = l} = k + 1 .. k + Len(RawConfig[t][l])
                  /\ \A i \in 1 .. Len(RawConfig[t][l]) :
                        Items[k + i][2] = locate(RawConfig[t][l][i])
      BY <2>2, <2>3 DEF Listed
    <3>2. RawConfig[t][l] \in Seq(Path)
      BY <2>2, <2>4, TextAssumption DEF Listed, Readable
    <3>3. DOMAIN RawConfig[t][l] = 1 .. Len(RawConfig[t][l]) /\ Len(RawConfig[t][l]) \in Nat
      BY <3>2, LenProperties
    <3>4. {i \in DOMAIN db : db[i][1] = l} = {i \in 1 .. Len(db) : Items[i][1] = l}
      BY <2>3
    <3>5. ASSUME NEW i \in 1 .. Len(RawConfig[t][l]) PROVE k + i \in 1 .. Len(db)
      <4>1. k + i \in k + 1 .. k + Len(RawConfig[t][l])
        BY <3>3
      <4> QED
        BY <3>1, <4>1
    <3>6. \A i \in DOMAIN RawConfig[t][l] : db[k + i][2] = locate(RawConfig[t][l][i])
      BY <2>3, <3>1, <3>3, <3>5
    <3> QED
      BY <3>1, <3>4, <3>6
  <2> QED
    BY <2>2, <2>5 DEF Listed
<1> QED
  BY <1>1, Invariance, PTL

\* With a local configuration an update that passes over a file beside it has
\* seen it there or could not read it, and one that cannot load the
\* configuration has met something in a local file.
THEOREM LocalFiles == Spec => []LocalFilesDecide
<1>1. IInv => SkippedForAReason
  <2>1. SUFFICES ASSUME IInv, NEW i \in DOMAIN db, config_url \in File, db[i][3] = None,
                        db[i][2] \in LookedAt
                 PROVE  \/ None \in seen[db[i][2]] /\ seen[db[i][2]] # {None}
                        \/ Unreadable \in seen[db[i][2]]
    BY DEF SkippedForAReason
  <2>2. i \in 1 .. Len(db) /\ Len(db) \in Nat /\ Len(todo) \in Nat
    BY <2>1, LenProperties DEF IInv, TypeOK
  <2>3. db[i][2] \in File
    BY <2>1, LocationAssumption DEF IInv, TypeOK, LookedAt
  <2>4. Lost(db[i][2])
    BY <2>1, <2>2, <2>3 DEF IInv, Missed
  <2>5. i \in 1 .. Total /\ Items[i][2] = db[i][2]
    BY <2>2 DEF Total, Items
  <2>6. seen[db[i][2]] # {None}
    BY <2>1, <2>5 DEF IInv, Found
  <2> QED
    BY <2>4, <2>6 DEF Lost
<1>2. IInv => LocalFilesDecide
  BY <1>1 DEF IInv, LocalFilesDecide
<1> QED
  BY <1>2, Invariance, PTL

\* With a local configuration no server, and no number of failing downloads,
\* can keep it from being loaded.
THEOREM ServersCannotFail == Spec => []FailsLocally
<1>1. IInv => FailsLocally
  BY DEF IInv
<1> QED
  BY <1>1, Invariance, PTL
=============================================================================
