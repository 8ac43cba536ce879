------------------------ MODULE AdblockEngine_proofs ------------------------
(***************************************************************************)
(* Theorems about AdblockEngine for any number of queries and databases and *)
(* any configurations and sources.                                          *)
(***************************************************************************)
EXTENDS AdblockEngine, SequenceTheorems, FiniteSetTheorems, WellFoundedInduction, TLAPS

\* Every set of natural numbers but the empty one has a least element.
LEMMA LeastNat ==
    ASSUME NEW T \in SUBSET Nat, T # {}
    PROVE  Min(T) \in T /\ \A y \in T : Min(T) <= y
<1> DEFINE less == {ss \in Nat \X Nat : ss[1] < ss[2]}
<1>1. IsWellFoundedOn(less, Nat)
  BY NatLessThanWellFounded DEF OpToRel
<1>2. PICK x \in T : \A y \in T : <<y, x>> \notin less
  <2> HIDE DEF less
  <2> QED
    BY <1>1, WFMin
<1>3. ASSUME NEW y \in T PROVE x <= y
  <2>1. y < x => <<y, x>> \in less
    OBVIOUS
  <2> QED
    BY <1>2, <2>1
<1> QED
  BY <1>3 DEF Min

\* Every set of natural numbers with an upper bound but the empty one has a
\* greatest element.
LEMMA GreatestUpTo ==
    ASSUME NEW n \in Nat, NEW T \in SUBSET (0 .. n), T # {}
    PROVE  Max(T) \in T /\ \A y \in T : y <= Max(T)
<1> DEFINE above == {m \in 0 .. n : \A y \in T : y <= m}
<1>1. n \in above /\ above \in SUBSET Nat
  OBVIOUS
<1>2. Min(above) \in above /\ \A m \in above : Min(above) <= m
  BY <1>1, LeastNat
<1>3. PICK m \in above : \A o \in above : m <= o
  BY <1>2
<1>4. m \in T
  <2>1. ASSUME m \notin T PROVE m - 1 \in above
    <3>1. \A y \in T : y \in Int /\ 0 <= y /\ y <= m /\ y # m
      BY <2>1, <1>3
    <3>2. m \in Nat /\ m <= n
      BY <1>3
    <3>3. PICK y \in T : TRUE
      OBVIOUS
    <3>4. m - 1 \in 0 .. n
      BY <3>1, <3>2, <3>3
    <3> QED
      BY <3>1, <3>2, <3>4
  <2> QED
    BY <2>1, <1>3
<1>5. \A y \in T : y <= m
  BY <1>3
<1> QED
  BY <1>4, <1>5 DEF Max

\* Normalization yields a name with the final dot.
LEMMA Normalized ==
    ASSUME NEW n \in DomainName
    PROVE  normalize_name(n) \in DomainName /\ normalize_name(n).dot
BY DEF normalize_name, DomainName

\* Which of the references exist follows from where their holders are.
Phases ==
    /\ building # None <=> upc \in {"load_definition", "compile"}
    /\ retiring # None <=> upc = "store"
    /\ \A r \in Reader : guard[r] # None <=> pc[r] \in Holding
-----------------------------------------------------------------------------
(***************************************************************************)
(* Type correctness.                                                        *)
(***************************************************************************)
LEMMA SourceLines ==
    ASSUME TypeOK, NEW l \in List, Turn(l)
    PROVE  Lines(l) \in Seq(Line)
<1>1. todo[l] \in Seq(Source) /\ todo[l] # <<>>
  BY DEF TypeOK, Turn
<1>2. Head(todo[l]) \in Source
  BY <1>1, HeadTailProperties
<1>3. rev[Head(todo[l])] \in Revision
  BY <1>2 DEF TypeOK
<1> QED
  BY <1>2, <1>3, ParsedAssumption DEF Lines

\* The puts of a source leave a well-formed store, whichever of them arrive.
LEMMA PutEachOK ==
    ASSUME NEW kv, StoreOK(kv), NEW lines \in Seq(Line),
           NEW ok \in SUBSET DOMAIN lines
    PROVE  StoreOK(put_each(kv, lines, ok))
<1>1. \A i \in ok : lines[i] \in Line
  BY ElementOfSeq, LenProperties
<1>2. \A i \in ok : /\ normalize_name(lines[i].domain) \in DomainName
                    /\ normalize_name(lines[i].domain).dot
  BY <1>1, Normalized DEF Line
<1> QED
  BY <1>2 DEF StoreOK, put_each

LEMMA PutAliasEachOK ==
    ASSUME NEW kv, StoreOK(kv), NEW lines \in Seq(Line),
           NEW ok \in SUBSET DOMAIN lines
    PROVE  StoreOK(put_alias_each(kv, lines, ok))
<1> DEFINE key(i) == normalize_name(lines[i].domain)
           latest(n) == Max({i \in ok : key(i) = n})
           new == put_alias_each(kv, lines, ok)
<1>1. \A i \in ok : lines[i] \in Line
  BY ElementOfSeq, LenProperties
<1>2. \A i \in ok : /\ key(i) \in DomainName /\ key(i).dot
                    /\ normalize_name(lines[i].alias) \in DomainName
  BY <1>1, Normalized DEF Line
<1>3. ASSUME NEW n, \E i \in ok : key(i) = n
      PROVE  latest(n) \in ok
  <2>1. {i \in ok : key(i) = n} \in SUBSET (0 .. Len(lines)) /\ Len(lines) \in Nat
    BY LenProperties
  <2> QED
    BY <2>1, <1>3, GreatestUpTo
<1>4. DOMAIN new = DOMAIN kv \cup {key(i) : i \in ok}
  BY DEF put_alias_each
<1>5. \A n \in DOMAIN new :
        new[n] = IF \E i \in ok : key(i) = n
                 THEN normalize_name(lines[latest(n)].alias) ELSE kv[n]
  BY DEF put_alias_each
<1>6. StoreOK(new)
  <2> HIDE DEF new, latest, key
  <2> QED
    BY <1>2, <1>3, <1>4, <1>5 DEF StoreOK
<1> QED
  BY <1>6

LEMMA TypeInit == Init => TypeOK /\ Phases
  BY ValueAssumption, ConfigAssumption
     DEF Init, TypeOK, Phases, EmptyDb, EmptyStore, NothingToDo, List, StoreOK,
         ReaderStates, Holding

ContentOK ==
    /\ DOMAIN content = Db
    /\ \A d \in Db : DOMAIN content[d] = List /\ \A l \in List : StoreOK(content[d][l])

LEMMA EmptyDbOK ==
    DOMAIN EmptyDb = List /\ \A l \in List : StoreOK(EmptyDb[l])
  BY DEF EmptyDb, EmptyStore, List, StoreOK

LEMMA DropOK ==
    ASSUME TypeOK, NEW d, Drop(d)
    PROVE  open' \subseteq Db /\ ContentOK'
<1>1. \A e \in Db : content'[e] = IF e = d THEN EmptyDb ELSE content[e]
  BY DEF Drop, TypeOK
<1>2. DOMAIN content' = Db /\ open' \subseteq Db
  BY DEF Drop, TypeOK
<1> QED
  BY <1>1, <1>2, EmptyDbOK DEF TypeOK, ContentOK

LEMMA ReleaseOK ==
    ASSUME TypeOK, NEW d, Release(d)
    PROVE  open' \subseteq Db /\ ContentOK'
<1>1. CASE Drop(d)
  BY <1>1, DropOK
<1>2. CASE UNCHANGED <<open, content>>
  BY <1>2 DEF TypeOK, ContentOK
<1> QED
  BY <1>1, <1>2 DEF Release

\* The step that compiles a source keeps every store well formed.
LEMMA CompileOK ==
    ASSUME TypeOK, NEW l \in List, Turn(l), NEW store, StoreOK(store),
           content' = [content EXCEPT ![building] = [@ EXCEPT ![l] = store]]
    PROVE  ContentOK'
<1>1. DOMAIN content' = Db
  BY DEF TypeOK
<1>2. ASSUME NEW d \in Db
      PROVE  DOMAIN content'[d] = List /\ \A k \in List : StoreOK(content'[d][k])
  <2>1. CASE d # building
    BY <2>1 DEF TypeOK
  <2>2. CASE d = building
    <3>1. content'[d] = [content[d] EXCEPT ![l] = store]
      BY <2>2 DEF TypeOK
    <3>2. DOMAIN content[d] = List /\ \A k \in List : StoreOK(content[d][k])
      BY DEF TypeOK
    <3>3. DOMAIN content'[d] = List
      BY <3>1, <3>2
    <3>4. \A k \in List : content'[d][k] = IF k = l THEN store ELSE content[d][k]
      BY <3>1, <3>2
    <3> QED
      BY <3>2, <3>3, <3>4
  <2> QED
    BY <2>1, <2>2
<1> QED
  BY <1>1, <1>2 DEF ContentOK

LEMMA TodoOK ==
    ASSUME TypeOK, NEW l \in List, Turn(l), todo' = [todo EXCEPT ![l] = Tail(@)]
    PROVE  todo' \in [List -> Seq(Source)]
<1>1. todo[l] \in Seq(Source) /\ todo[l] # <<>>
  BY DEF TypeOK, Turn
<1>2. Tail(todo[l]) \in Seq(Source)
  BY <1>1, HeadTailProperties
<1> QED
  BY <1>2 DEF TypeOK

\* Every step keeps the types, and the references with their holders.
LEMMA TypeStep == TypeOK /\ Phases /\ [Next]_vars => (TypeOK /\ Phases)'
<1> SUFFICES ASSUME TypeOK, Phases, [Next]_vars PROVE TypeOK' /\ Phases'
  OBVIOUS
<1> USE DEF Holding
<1>1. CASE Updater
  <2>1. ASSUME Wake PROVE TypeOK' /\ Phases'
    BY <2>1, ValueAssumption
       DEF TypeOK, Phases, ContentOK, engine, update, upstream, query, Wake
  <2>2. ASSUME NEW d \in Db, Create(d) PROVE TypeOK' /\ Phases'
    BY <2>2, ValueAssumption, EmptyDbOK
       DEF TypeOK, Phases, ContentOK, engine, update, upstream, query, Create
  <2>3. ASSUME CreateFails PROVE TypeOK' /\ Phases'
    BY <2>3, ValueAssumption
       DEF TypeOK, Phases, ContentOK, engine, update, upstream, query, CreateFails
  <2>4. ASSUME LoadConfig PROVE TypeOK' /\ Phases'
    BY <2>4, ValueAssumption, ConfigAssumption
       DEF TypeOK, Phases, ContentOK, engine, update, upstream, query, LoadConfig
  <2>5. ASSUME LoadConfigFails PROVE TypeOK' /\ Phases'
    <3>1. open' \subseteq Db /\ ContentOK'
      BY <2>5, ReleaseOK DEF LoadConfigFails
    <3> QED
      BY <2>5, <3>1, ValueAssumption
         DEF TypeOK, Phases, ContentOK, engine, update, upstream, query, LoadConfigFails
  <2>6. ASSUME NEW ok \in SUBSET DOMAIN Lines("whitelist"), CompileWhitelist(ok)
        PROVE  TypeOK' /\ Phases'
    <3>1. building \in Db /\ "whitelist" \in List /\ Turn("whitelist")
      BY <2>6, ValueAssumption DEF TypeOK, Phases, CompileWhitelist, Turn, List
    <3>2. StoreOK(put_each(content[building]["whitelist"], Lines("whitelist"), ok))
      BY <3>1, SourceLines, PutEachOK DEF TypeOK
    <3>3. content' = [content EXCEPT ![building] = [@ EXCEPT !["whitelist"] =
                        put_each(content[building]["whitelist"], Lines("whitelist"), ok)]]
      BY <2>6, <3>1 DEF CompileWhitelist, TypeOK
    <3>4. ContentOK'
      BY <3>1, <3>2, <3>3, CompileOK
    <3>5. todo' \in [List -> Seq(Source)]
      BY <2>6, <3>1, TodoOK DEF CompileWhitelist
    <3> QED
      BY <2>6, <3>4, <3>5
         DEF TypeOK, Phases, ContentOK, engine, update, upstream, query, CompileWhitelist
  <2>7. ASSUME NEW ok \in SUBSET DOMAIN Lines("blacklist"), CompileBlacklist(ok)
        PROVE  TypeOK' /\ Phases'
    <3>1. building \in Db /\ "blacklist" \in List /\ Turn("blacklist")
      BY <2>7, ValueAssumption DEF TypeOK, Phases, CompileBlacklist, Turn, List
    <3>2. StoreOK(put_each(content[building]["blacklist"], Lines("blacklist"), ok))
      BY <3>1, SourceLines, PutEachOK DEF TypeOK
    <3>3. content' = [content EXCEPT ![building] = [@ EXCEPT !["blacklist"] =
                        put_each(content[building]["blacklist"], Lines("blacklist"), ok)]]
      BY <2>7, <3>1 DEF CompileBlacklist, TypeOK
    <3>4. ContentOK'
      BY <3>1, <3>2, <3>3, CompileOK
    <3>5. todo' \in [List -> Seq(Source)]
      BY <2>7, <3>1, TodoOK DEF CompileBlacklist
    <3> QED
      BY <2>7, <3>4, <3>5
         DEF TypeOK, Phases, ContentOK, engine, update, upstream, query, CompileBlacklist
  <2>8. ASSUME NEW ok \in SUBSET DOMAIN Lines("rewrites"), CompileRewrites(ok)
        PROVE  TypeOK' /\ Phases'
    <3>1. building \in Db /\ "rewrites" \in List /\ Turn("rewrites")
      BY <2>8, ValueAssumption DEF TypeOK, Phases, CompileRewrites, Turn, List
    <3>2. StoreOK(put_alias_each(content[building]["rewrites"], Lines("rewrites"), ok))
      BY <3>1, SourceLines, PutAliasEachOK DEF TypeOK
    <3>3. content' = [content EXCEPT ![building] = [@ EXCEPT !["rewrites"] =
                        put_alias_each(content[building]["rewrites"], Lines("rewrites"), ok)]]
      BY <2>8, <3>1 DEF CompileRewrites, TypeOK
    <3>4. ContentOK'
      BY <3>1, <3>2, <3>3, CompileOK
    <3>5. todo' \in [List -> Seq(Source)]
      BY <2>8, <3>1, TodoOK DEF CompileRewrites
    <3> QED
      BY <2>8, <3>4, <3>5
         DEF TypeOK, Phases, ContentOK, engine, update, upstream, query, CompileRewrites
  <2>9. ASSUME NEW l \in List, SkipSource(l) PROVE TypeOK' /\ Phases'
    <3>1. todo' \in [List -> Seq(Source)]
      BY <2>9, TodoOK DEF SkipSource
    <3> QED
      BY <2>9, <3>1 DEF TypeOK, Phases, engine, update, upstream, query, SkipSource
  <2>10. ASSUME Store PROVE TypeOK' /\ Phases'
    <3>1. building \in Db
      BY <2>10, ValueAssumption DEF TypeOK, Phases, Store
    <3> QED
      BY <2>10, <3>1, ValueAssumption
         DEF TypeOK, Phases, engine, update, upstream, query, Store
  <2>11. ASSUME DropOld PROVE TypeOK' /\ Phases'
    <3>1. open' \subseteq Db /\ ContentOK'
      BY <2>11, ReleaseOK DEF DropOld
    <3> QED
      BY <2>11, <3>1, ValueAssumption
         DEF TypeOK, Phases, ContentOK, engine, update, upstream, query, DropOld
  <2> QED
    BY <1>1, <2>1, <2>2, <2>3, <2>4, <2>5, <2>6, <2>7, <2>8, <2>9, <2>10, <2>11
       DEF Updater, Compile
<1>2. CASE \E r \in Reader : QueryStep(r) \/ Finish(r) \/ \E n \in Query : Ask(r, n)
  <2> PICK r \in Reader : QueryStep(r) \/ Finish(r) \/ \E n \in Query : Ask(r, n)
    BY <1>2
  <2>1. ASSUME NEW from \in ReaderStates \ Holding, NEW to \in Holding,
               Load(r, from, to)
        PROVE  TypeOK' /\ Phases'
    BY <2>1, ValueAssumption
       DEF TypeOK, Phases, engine, update, upstream, query, Load, ReaderStates
  <2>2. ASSUME NEW to \in ReaderStates \ Holding, NEW al,
               NEW ans \in {"none", "rewritten", "allowed", "blocked", "error"},
               Return(r, to, al, ans)
        PROVE  TypeOK' /\ Phases'
    <3>1. open' \subseteq Db /\ ContentOK'
      BY <2>2, ReleaseOK DEF Return
    <3> QED
      BY <2>2, <3>1, ValueAssumption
         DEF TypeOK, Phases, ContentOK, engine, update, upstream, query, Return,
             ReaderStates
  <2>3. CASE RedirectLoad(r) \/ BlockedLoad(r)
    BY <2>3, <2>1 DEF RedirectLoad, BlockedLoad, ReaderStates
  <2>4. CASE RewritesGet(r)
    <3>1. \E al : \/ Return(r, "is_blocked", al, "none")
                  \/ Return(r, "done", al, "rewritten")
      BY <2>4 DEF RewritesGet
    <3> QED
      BY <3>1, <2>2 DEF ReaderStates
  <2>5. CASE WhitelistContains(r)
    BY <2>5, <2>2 DEF WhitelistContains, ReaderStates
  <2>6. CASE NotWhitelisted(r)
    BY <2>6 DEF TypeOK, Phases, engine, update, upstream, query, NotWhitelisted,
                ReaderStates
  <2>7. CASE BlacklistContains(r)
    BY <2>7, <2>2 DEF BlacklistContains, ReaderStates
  <2>8. CASE GetFails(r)
    BY <2>8, <2>2 DEF GetFails, ReaderStates
  <2>9. CASE Finish(r)
    BY <2>9 DEF TypeOK, Phases, engine, update, upstream, query, Finish, ReaderStates
  <2>10. CASE \E n \in Query : Ask(r, n)
    BY <2>10 DEF TypeOK, Phases, engine, update, upstream, query, Ask, ReaderStates
  <2> QED
    BY <2>3, <2>4, <2>5, <2>6, <2>7, <2>8, <2>9, <2>10 DEF QueryStep
<1>3. CASE Environment
  <2>1. CASE PublishConfig
    BY <2>1 DEF TypeOK, Phases, engine, update, upstream, query, PublishConfig
  <2>2. ASSUME NEW s \in Source, PublishSource(s) PROVE TypeOK' /\ Phases'
    BY <2>2 DEF TypeOK, Phases, engine, update, upstream, query, PublishSource
  <2> QED
    BY <1>3, <2>1, <2>2 DEF Environment
<1>4. CASE UNCHANGED vars
  BY <1>4 DEF TypeOK, Phases, vars, engine, update, upstream, query
<1> QED
  BY <1>1, <1>2, <1>3, <1>4 DEF Next

\* All of the engine's state is well formed: in particular every key of every
\* store carries the final dot that lookups rely on.
THEOREM TypeCorrect == Spec => []TypeOK
<1>1. Spec => [](TypeOK /\ Phases)
  BY TypeInit, TypeStep, PTL DEF Spec
<1> QED
  BY <1>1, PTL
-----------------------------------------------------------------------------
(***************************************************************************)
(* Ownership: who holds a database, and which databases exist.  That a      *)
(* database exists exactly as long as it is held is inductive only together *)
(* with the fact that run_update owns the new database alone: store() would *)
(* otherwise retire a database that stays current.                          *)
(***************************************************************************)
Ownership ==
    /\ OpenExactlyHeld
    /\ BuildInvisible
    /\ retiring # current

IInv == TypeOK /\ Phases /\ Ownership

LEMMA OwnershipInit == Init => Ownership
  BY ValueAssumption
     DEF Init, Ownership, OpenExactlyHeld, HeldBy, BuildInvisible

\* Letting go of one reference keeps existence and references in step.
LEMMA ReleaseHeld ==
    ASSUME IInv, NEW d \in Db, d \in open, Release(d),
           \A e \in Db \ {d} : HeldBy(e, current', building', retiring', guard')
                                <=> HeldBy(e, current, building, retiring, guard)
    PROVE  OpenExactlyHeld'
<1>1. \A e \in Db \ {d} : e \in open' <=> e \in open
  BY DEF Release, Drop
<1>2. d \in open' <=> HeldBy(d, current', building', retiring', guard')
  BY DEF Release, Drop
<1>3. \A e \in Db : e \in open <=> HeldBy(e, current, building, retiring, guard)
  BY DEF IInv, Ownership, OpenExactlyHeld
<1> HIDE DEF HeldBy
<1> QED
  BY <1>1, <1>2, <1>3 DEF OpenExactlyHeld

\* Steps that change neither a reference nor the set of databases.
LEMMA NoReference ==
    ASSUME IInv, UNCHANGED <<current, open, building, retiring, guard>>
    PROVE  Ownership'
BY DEF IInv, Ownership, OpenExactlyHeld, HeldBy, BuildInvisible

LEMMA OwnershipStep == IInv /\ [Next]_vars => Ownership'
<1> SUFFICES ASSUME IInv, [Next]_vars PROVE Ownership'
  OBVIOUS
<1> USE DEF engine, update, upstream, query
<1>1. CASE Updater
  <2>1. CASE Wake \/ CreateFails \/ LoadConfig \/ Compile
    <3>1. UNCHANGED <<current, open, building, retiring, guard>>
      BY <2>1 DEF Wake, CreateFails, LoadConfig, Compile, CompileWhitelist,
                  CompileBlacklist, CompileRewrites, SkipSource
    <3> QED
      BY <3>1, NoReference
  <2>2. ASSUME NEW d \in Db, Create(d) PROVE Ownership'
    <3>1. building = None /\ retiring = None
      BY <2>2 DEF Create, IInv, Phases
    <3>2. ~HeldBy(d, current, building, retiring, guard)
      BY <2>2 DEF Create, IInv, Ownership, OpenExactlyHeld
    <3>3. /\ open' = open \cup {d} /\ building' = d
          /\ UNCHANGED <<current, retiring, guard>>
      BY <2>2 DEF Create
    <3>4. OpenExactlyHeld'
      BY <3>1, <3>3, ValueAssumption DEF IInv, Ownership, OpenExactlyHeld, HeldBy
    <3> QED
      BY <3>1, <3>2, <3>3, <3>4 DEF IInv, Ownership, BuildInvisible, HeldBy
  <2>3. CASE LoadConfigFails
    <3>1. building \in Db /\ building \in open
      BY <2>3, ValueAssumption
         DEF LoadConfigFails, IInv, TypeOK, Phases, Ownership, OpenExactlyHeld, HeldBy
    <3>2. building' = None /\ UNCHANGED <<current, retiring, guard>>
      BY <2>3 DEF LoadConfigFails
    <3>3. \A e \in Db \ {building} :
            HeldBy(e, current', building', retiring', guard')
                <=> HeldBy(e, current, building, retiring, guard)
      BY <3>1, <3>2, ValueAssumption DEF HeldBy
    <3>4. OpenExactlyHeld'
      BY <2>3, <3>1, <3>3, ReleaseHeld DEF LoadConfigFails
    <3> QED
      BY <3>2, <3>4 DEF IInv, Ownership, BuildInvisible
  <2>4. CASE Store
    <3>1. building \in Db /\ retiring = None
      BY <2>4, ValueAssumption DEF Store, IInv, TypeOK, Phases
    <3>2. /\ current' = building /\ retiring' = current /\ building' = None
          /\ UNCHANGED <<open, guard>>
      BY <2>4 DEF Store
    <3>3. OpenExactlyHeld'
      BY <3>1, <3>2, ValueAssumption DEF IInv, Ownership, OpenExactlyHeld, HeldBy
    <3> QED
      BY <3>1, <3>2, <3>3, ValueAssumption DEF IInv, Ownership, BuildInvisible
  <2>5. CASE DropOld
    <3>1. retiring \in Db /\ retiring \in open /\ current \in Db
      BY <2>5, ValueAssumption
         DEF DropOld, IInv, TypeOK, Phases, Ownership, OpenExactlyHeld, HeldBy
    <3>2. retiring' = None /\ UNCHANGED <<current, building, guard>>
      BY <2>5 DEF DropOld
    <3>3. \A e \in Db \ {retiring} :
            HeldBy(e, current', building', retiring', guard')
                <=> HeldBy(e, current, building, retiring, guard)
      BY <3>1, <3>2, ValueAssumption DEF HeldBy
    <3>4. OpenExactlyHeld'
      BY <2>5, <3>1, <3>3, ReleaseHeld DEF DropOld
    <3> QED
      BY <3>1, <3>2, <3>4, ValueAssumption DEF IInv, Ownership, BuildInvisible
  <2> QED
    BY <1>1, <2>1, <2>2, <2>3, <2>4, <2>5 DEF Updater
<1>2. ASSUME NEW r \in Reader,
             QueryStep(r) \/ Finish(r) \/ \E n \in Query : Ask(r, n)
      PROVE  Ownership'
  <2>1. ASSUME NEW from, from \notin Holding, NEW to, Load(r, from, to)
        PROVE  Ownership'
    <3>1. /\ UNCHANGED <<current, open, building, retiring>>
          /\ guard \in [Reader -> Db \cup {None}]
          /\ guard' = [guard EXCEPT ![r] = current]
      BY <2>1 DEF Load, IInv, TypeOK
    <3>2. guard[r] = None
      BY <2>1 DEF Load, IInv, Phases
    <3>3. \A e \in Db : HeldBy(e, current', building', retiring', guard')
                            <=> HeldBy(e, current, building, retiring, guard)
      BY <3>1, <3>2, ValueAssumption DEF HeldBy
    <3>4. OpenExactlyHeld'
      BY <3>1, <3>3 DEF IInv, Ownership, OpenExactlyHeld
    <3> QED
      BY <3>1, <3>4 DEF IInv, Ownership, BuildInvisible
  <2>2. ASSUME NEW to, NEW al, NEW ans, pc[r] \in Holding, Return(r, to, al, ans)
        PROVE  Ownership'
    <3>1. guard[r] \in Db /\ guard[r] \in open
      BY <2>2, ValueAssumption
         DEF IInv, TypeOK, Phases, Ownership, OpenExactlyHeld, HeldBy
    <3>2. /\ UNCHANGED <<current, building, retiring>>
          /\ guard \in [Reader -> Db \cup {None}]
          /\ guard' = [guard EXCEPT ![r] = None]
      BY <2>2 DEF Return, IInv, TypeOK
    <3>3. \A e \in Db \ {guard[r]} :
            HeldBy(e, current', building', retiring', guard')
                <=> HeldBy(e, current, building, retiring, guard)
      BY <3>1, <3>2, ValueAssumption DEF HeldBy
    <3>4. OpenExactlyHeld'
      BY <2>2, <3>1, <3>3, ReleaseHeld DEF Return
    <3> QED
      BY <3>2, <3>4, ValueAssumption DEF IInv, Ownership, BuildInvisible
  <2>3. CASE RedirectLoad(r) \/ BlockedLoad(r)
    BY <2>3, <2>1 DEF RedirectLoad, BlockedLoad, Holding
  <2>4. CASE \/ RewritesGet(r) \/ WhitelistContains(r)
             \/ BlacklistContains(r) \/ GetFails(r)
    <3>1. pc[r] \in Holding /\ \E to, al, ans : Return(r, to, al, ans)
      BY <2>4 DEF RewritesGet, WhitelistContains, BlacklistContains, GetFails, Holding
    <3> QED
      BY <3>1, <2>2
  <2>5. CASE NotWhitelisted(r) \/ Finish(r) \/ \E n \in Query : Ask(r, n)
    <3>1. UNCHANGED <<current, open, building, retiring, guard>>
      BY <2>5 DEF NotWhitelisted, Finish, Ask
    <3> QED
      BY <3>1, NoReference
  <2> QED
    BY <1>2, <2>3, <2>4, <2>5 DEF QueryStep
<1>3. CASE Environment \/ UNCHANGED vars
  <2>1. UNCHANGED <<current, open, building, retiring, guard>>
    BY <1>3 DEF Environment, PublishConfig, PublishSource, vars
  <2> QED
    BY <2>1, NoReference
<1> QED
  BY <1>1, <1>2, <1>3 DEF Next

LEMMA Invariance == Spec => []IInv
<1>1. Init => IInv
  BY TypeInit, OwnershipInit DEF IInv
<1>2. IInv /\ [Next]_vars => IInv'
  BY TypeStep, OwnershipStep DEF IInv
<1> QED
  BY <1>1, <1>2, PTL DEF Spec

\* No database is destroyed while somebody refers to it, and none survives its
\* last reference: OpenExactlyHeld for any number of queries and databases.
THEOREM NoUseAfterDestroy == Spec => []OpenExactlyHeld
<1>1. IInv => OpenExactlyHeld
  BY DEF IInv, Ownership
<1> QED
  BY <1>1, Invariance, PTL

\* A database that is being compiled is never the current one and is never
\* read: run_update fills it in private.
THEOREM CompiledInPrivate == Spec => []BuildInvisible
<1>1. IInv => BuildInvisible
  BY DEF IInv, Ownership
<1> QED
  BY <1>1, Invariance, PTL

\* A set grows by one element at most when one is added.
LEMMA OneMore ==
    ASSUME NEW S, NEW e, IsFiniteSet(S)
    PROVE  /\ IsFiniteSet(S \cup {e})
           /\ Cardinality(S \cup {e}) <= Cardinality(S) + 1
<1>1. Cardinality(S) \in Nat
  BY FS_CardinalityType
<1> QED
  BY <1>1, FS_AddElement

\* The number of databases on disk is bounded by the number of readers.
LEMMA FewDatabases == IInv => OpenBound
<1> SUFFICES ASSUME IInv PROVE OpenBound
  OBVIOUS
<1> DEFINE guarded == {guard[r] : r \in Reading}
           other == IF building = None THEN retiring ELSE building
           bound == (guarded \cup {current}) \cup {other}
<1>1. IsFiniteSet(Reading)
  BY ReaderAssumption, FS_Subset DEF Reading
<1>2. IsFiniteSet(guarded) /\ Cardinality(guarded) <= Cardinality(Reading)
  <2>1. [r \in Reading |-> guard[r]] \in Surjection(Reading, guarded)
    BY DEF Surjection
  <2> HIDE DEF guarded
  <2> QED
    BY <1>1, <2>1, FS_Surjection
<1>3. IsFiniteSet(bound) /\ Cardinality(bound) <= Cardinality(Reading) + 2
  <2> DEFINE read == guarded \cup {current}
  <2> HIDE DEF guarded, other
  <2>1. IsFiniteSet(read) /\ Cardinality(read) <= Cardinality(guarded) + 1
    BY <1>2, OneMore
  <2>2. IsFiniteSet(bound) /\ Cardinality(bound) <= Cardinality(read) + 1
    BY <2>1, OneMore
  <2>3. /\ Cardinality(guarded) \in Nat /\ Cardinality(Reading) \in Nat
        /\ Cardinality(read) \in Nat /\ Cardinality(bound) \in Nat
    BY <1>1, <1>2, <2>1, <2>2, FS_CardinalityType
  <2> HIDE DEF read, bound
  <2> QED
    BY <1>2, <2>1, <2>2, <2>3
<1>4. open \subseteq bound
  <2>1. building = None \/ retiring = None
    BY DEF IInv, Phases
  <2>2. open \subseteq Db
    BY DEF IInv, TypeOK
  <2>3. \A d \in open : HeldBy(d, current, building, retiring, guard)
    BY <2>2 DEF IInv, Ownership, OpenExactlyHeld
  <2> QED
    BY <2>1, <2>2, <2>3, ValueAssumption DEF HeldBy, Reading
<1>5. Cardinality(open) <= Cardinality(bound)
  <2> HIDE DEF bound
  <2> QED
    BY <1>3, <1>4, FS_Subset
<1>6. Cardinality(open) \in Nat /\ Cardinality(bound) \in Nat /\ Cardinality(Reading) \in Nat
  <2> HIDE DEF bound
  <2> QED
    BY <1>1, <1>3, <1>4, FS_Subset, FS_CardinalityType
<1> QED
  BY <1>3, <1>5, <1>6 DEF OpenBound

\* However many queries there may be, databases pile up on disk only behind
\* those that are reading.
THEOREM DiskBounded == Spec => []OpenBound
  BY FewDatabases, Invariance, PTL
-----------------------------------------------------------------------------
(***************************************************************************)
(* Published databases do not change.                                       *)
(***************************************************************************)
Immutable == \A d \in (open \ {building}) \cap open' : content'[d] = content[d]

LEMMA ReleaseImmutable ==
    ASSUME IInv, NEW d, Release(d)
    PROVE  Immutable
BY DEF Release, Drop, Immutable, IInv, TypeOK

LEMMA ImmutableStep == IInv /\ [Next]_vars => Immutable
<1> SUFFICES ASSUME IInv, [Next]_vars PROVE Immutable
  OBVIOUS
<1> USE DEF engine, update, upstream, query
<1>1. ASSUME UNCHANGED content PROVE Immutable
  BY <1>1 DEF Immutable
<1>2. CASE Updater
  <2>1. CASE Wake \/ CreateFails \/ LoadConfig \/ Store \/ \E l \in List : SkipSource(l)
    BY <2>1, <1>1 DEF Wake, CreateFails, LoadConfig, Store, SkipSource
  <2>2. CASE \E d \in Db : Create(d)
    BY <2>2 DEF Create, Immutable, IInv, TypeOK
  <2>3. CASE LoadConfigFails
    BY <2>3, ReleaseImmutable DEF LoadConfigFails
  <2>4. CASE DropOld
    BY <2>4, ReleaseImmutable DEF DropOld
  <2>5. ASSUME NEW ok, CompileWhitelist(ok) \/ CompileBlacklist(ok) \/ CompileRewrites(ok)
        PROVE  Immutable
    BY <2>5 DEF CompileWhitelist, CompileBlacklist, CompileRewrites, Immutable,
                IInv, TypeOK
  <2> QED
    BY <1>2, <2>1, <2>2, <2>3, <2>4, <2>5 DEF Updater, Compile
<1>3. ASSUME NEW r \in Reader,
             QueryStep(r) \/ Finish(r) \/ \E n \in Query : Ask(r, n)
      PROVE  Immutable
  <2>1. CASE \/ RedirectLoad(r) \/ BlockedLoad(r) \/ NotWhitelisted(r)
             \/ Finish(r) \/ \E n \in Query : Ask(r, n)
    BY <2>1, <1>1 DEF RedirectLoad, BlockedLoad, Load, NotWhitelisted, Finish, Ask
  <2>2. CASE \/ RewritesGet(r) \/ WhitelistContains(r)
             \/ BlacklistContains(r) \/ GetFails(r)
    BY <2>2, ReleaseImmutable
       DEF RewritesGet, WhitelistContains, BlacklistContains, GetFails, Return
  <2> QED
    BY <1>3, <2>1, <2>2 DEF QueryStep
<1>4. CASE Environment \/ UNCHANGED vars
  BY <1>4, <1>1 DEF Environment, PublishConfig, PublishSource, vars
<1> QED
  BY <1>2, <1>3, <1>4 DEF Next

\* A database that queries can see stays as it is until it is destroyed.
THEOREM SnapshotsImmutable == Spec => PublishedImmutable
<1>1. IInv /\ [Next]_vars => [Immutable]_vars
  BY ImmutableStep
<1> QED
  BY <1>1, Invariance, PTL DEF Spec, PublishedImmutable, Immutable
-----------------------------------------------------------------------------
(***************************************************************************)
(* The engine implements the policy service: what the run engine_guards     *)
(* checks on a small instance, for any number of queries and databases.     *)
(*                                                                          *)
(* The two facts about references that make it true are proved above: a     *)
(* database that is held exists, and one that exists and is not being       *)
(* compiled does not change.                                                *)
(***************************************************************************)
\* What a query knows before it is decided: neither call has returned anything
\* yet, and the blacklist is consulted only for names off the whitelist.
UndecidedAt(r) ==
    /\ pc[r] # "done" => alias[r] = None /\ answer[r] = "none"
    /\ pc[r] = "blacklist_contains" =>
            ~contains(content[guard[r]].whitelist, name[r])

Undecided == \A r \in Reader : UndecidedAt(r)

RInv == IInv /\ Undecided
-----------------------------------------------------------------------------
(***************************************************************************)
(* The two specifications mean the same by a lookup.                        *)
(***************************************************************************)
LEMMA SameLookup ==
    \A kv, n : Service!get(kv, n) = get(kv, n)
<1>1. \A n : Service!keys(n) = keys(n)
  BY DEF keys, star_key, Qualified, Service!keys, Service!star_key, Service!Qualified
<1>2. \A kv, n : Service!Hits(kv, n) = Hits(kv, n)
  BY <1>1 DEF Hits, Service!Hits
<1>3. \A S : Service!Min(S) = Min(S)
  BY DEF Min, Service!Min
<1> QED
  BY <1>1, <1>2, <1>3 DEF get, Service!get

LEMMA SameVerdict ==
    \A p, n : Service!Verdict(p, n) =
        IF contains(p.whitelist, n) THEN "allowed"
        ELSE IF contains(p.blacklist, n) THEN "blocked" ELSE "allowed"
BY SameLookup DEF Service!Verdict, Service!contains, contains
-----------------------------------------------------------------------------
(***************************************************************************)
(* A held database does not change under its holder.                        *)
(***************************************************************************)
LEMMA GuardedStays ==
    ASSUME IInv, [Next]_vars, NEW r \in Reader, pc[r] \in Holding,
           guard'[r] = guard[r]
    PROVE  content'[guard[r]] = content[guard[r]]
<1>1. guard[r] \in Db
  BY DEF IInv, TypeOK, Phases
<1>2. guard[r] \in open \ {building}
  BY <1>1, ValueAssumption
     DEF IInv, Phases, Ownership, OpenExactlyHeld, HeldBy, BuildInvisible
<1>3. OpenExactlyHeld'
  BY OwnershipStep DEF Ownership
<1>4. guard[r] \in open'
  BY <1>1, <1>3 DEF OpenExactlyHeld, HeldBy
<1> QED
  BY <1>2, <1>4, ImmutableStep DEF Immutable

\* The policy changes by Store only.
LEMMA PolicyStays ==
    ASSUME IInv, [Next]_vars, current' = current
    PROVE  content'[current'] = content[current]
<1>1. current \in Db /\ current \in open \ {building}
  BY ValueAssumption
     DEF IInv, TypeOK, Ownership, OpenExactlyHeld, HeldBy, BuildInvisible
<1>2. OpenExactlyHeld'
  BY OwnershipStep DEF Ownership
<1>3. current \in open'
  BY <1>1, <1>2 DEF OpenExactlyHeld, HeldBy
<1> QED
  BY <1>1, <1>3, ImmutableStep DEF Immutable
-----------------------------------------------------------------------------
(***************************************************************************)
(* The queries that do not move look the same through the mapping.          *)
(***************************************************************************)
Still(r) ==
    /\ pc'[r] = pc[r] /\ name'[r] = name[r] /\ guard'[r] = guard[r]
    /\ alias'[r] = alias[r] /\ answer'[r] = answer[r]

Moves(r) == QueryStep(r) \/ Finish(r) \/ \E n \in Query : Ask(r, n)

LEMMA StillLooksTheSame ==
    ASSUME IInv, [Next]_vars, NEW r \in Reader, Still(r)
    PROVE  /\ PhaseOf(r)' = PhaseOf(r)
           /\ AliasOf(r)' = AliasOf(r)
           /\ AnswerOf(r)' = AnswerOf(r)
           /\ UndecidedAt(r) => UndecidedAt(r)'
<1>1. PhaseOf(r)' = PhaseOf(r)
  BY DEF Still, PhaseOf
<1>2. CASE pc[r] \in Holding
  <2>1. content'[guard'[r]] = content[guard[r]]
    BY <1>2, GuardedStays DEF Still
  <2> QED
    BY <1>1, <2>1 DEF Still, AliasOf, AnswerOf, UndecidedAt
<1>3. CASE pc[r] \notin Holding
  <2>1. PhaseOf(r) # "decided" /\ pc[r] # "rewrites_get" /\ pc[r] # "blacklist_contains"
    BY <1>3 DEF IInv, TypeOK, ReaderStates, Holding, PhaseOf
  <2> QED
    BY <1>1, <2>1 DEF Still, AliasOf, AnswerOf, UndecidedAt
<1> QED
  BY <1>2, <1>3

LEMMA OthersStill ==
    ASSUME IInv, NEW r \in Reader, Moves(r), NEW q \in Reader \ {r}
    PROVE  Still(q)
<1>1. /\ pc \in [Reader -> ReaderStates] /\ name \in [Reader -> Query]
      /\ guard \in [Reader -> Db \cup {None}] /\ DOMAIN alias = Reader
      /\ answer \in [Reader -> {"none", "rewritten", "allowed", "blocked", "error"}]
  BY DEF IInv, TypeOK
<1>2. ASSUME NEW to, NEW al, NEW ans, Return(r, to, al, ans) PROVE Still(q)
  BY <1>1, <1>2 DEF Return, Still
<1>3. CASE RedirectLoad(r) \/ BlockedLoad(r)
  BY <1>1, <1>3 DEF RedirectLoad, BlockedLoad, Load, Still
<1>4. CASE NotWhitelisted(r) \/ Finish(r) \/ \E n \in Query : Ask(r, n)
  BY <1>1, <1>4 DEF NotWhitelisted, Finish, Ask, Still
<1>5. CASE \/ RewritesGet(r) \/ WhitelistContains(r)
           \/ BlacklistContains(r) \/ GetFails(r)
  BY <1>2, <1>5 DEF RewritesGet, WhitelistContains, BlacklistContains, GetFails
<1> QED
  BY <1>3, <1>4, <1>5 DEF Moves, QueryStep

LEMMA NobodyMoves ==
    ASSUME Updater \/ Environment \/ UNCHANGED vars, NEW r \in Reader
    PROVE  Still(r)
<1>1. UNCHANGED query
  BY DEF Updater, Environment, Wake, Create, CreateFails, LoadConfig, LoadConfigFails,
         Compile, CompileWhitelist, CompileBlacklist, CompileRewrites, SkipSource,
         Store, DropOld, PublishConfig, PublishSource, vars
<1> QED
  BY <1>1 DEF query, Still
-----------------------------------------------------------------------------
(***************************************************************************)
(* The steps of a query.                                                    *)
(***************************************************************************)

\* What the mapping makes of query r, by where it is.
Looks(r) ==
    /\ pc[r] = "rewrites_get" =>
          /\ PhaseOf(r) = "redirected"
          /\ AliasOf(r) = get(content[guard[r]].rewrites, name[r])
          /\ AnswerOf(r) = answer[r]
    /\ pc[r] \in {"whitelist_contains", "blacklist_contains"} =>
          /\ PhaseOf(r) = "decided"
          /\ AliasOf(r) = alias[r]
          /\ AnswerOf(r) = Service!Verdict(content[guard[r]], name[r])
    /\ pc[r] \in ReaderStates \ Holding =>
          PhaseOf(r) = pc[r] /\ AliasOf(r) = alias[r] /\ AnswerOf(r) = answer[r]

LEMMA LooksNow == ASSUME NEW r PROVE Looks(r)
<1>1. CASE pc[r] = "rewrites_get"
  BY <1>1 DEF Looks, PhaseOf, AliasOf, AnswerOf, ReaderStates, Holding
<1>2. CASE pc[r] \in {"whitelist_contains", "blacklist_contains"}
  <2>1. PhaseOf(r) = "decided" /\ pc[r] # "rewrites_get"
    BY <1>2 DEF PhaseOf
  <2> QED
    BY <1>2, <2>1, SameVerdict DEF Looks, AliasOf, AnswerOf, Holding
<1>3. CASE pc[r] \in ReaderStates \ Holding
  <2>1. PhaseOf(r) = pc[r] /\ pc[r] # "rewrites_get" /\ pc[r] # "decided"
    BY <1>3 DEF PhaseOf, ReaderStates, Holding
  <2> QED
    BY <1>3, <2>1 DEF Looks, AliasOf, AnswerOf, Holding
<1> QED
  BY <1>1, <1>2, <1>3 DEF Looks

LEMMA LooksNext == ASSUME NEW r PROVE Looks(r)'
<1>1. CASE pc'[r] = "rewrites_get"
  BY <1>1 DEF Looks, PhaseOf, AliasOf, AnswerOf, ReaderStates, Holding
<1>2. CASE pc'[r] \in {"whitelist_contains", "blacklist_contains"}
  <2>1. PhaseOf(r)' = "decided" /\ pc'[r] # "rewrites_get"
    BY <1>2 DEF PhaseOf
  <2> QED
    BY <1>2, <2>1, SameVerdict DEF Looks, AliasOf, AnswerOf, Holding
<1>3. CASE pc'[r] \in ReaderStates \ Holding
  <2>1. PhaseOf(r)' = pc'[r] /\ pc'[r] # "rewrites_get" /\ pc'[r] # "decided"
    BY <1>3 DEF PhaseOf, ReaderStates, Holding
  <2> QED
    BY <1>3, <2>1 DEF Looks, AliasOf, AnswerOf, Holding
<1> QED
  BY <1>1, <1>2, <1>3 DEF Looks

\* The variables of the service, as the mapping defines them.
AbsPhase  == [r \in Reader |-> PhaseOf(r)]
AbsAlias  == [r \in Reader |-> AliasOf(r)]
AbsAnswer == [r \in Reader |-> AnswerOf(r)]

\* One query moves, and only its entries of the mapped variables do.
LEMMA OneMoves ==
    ASSUME IInv, [Next]_vars, NEW r \in Reader, Moves(r)
    PROVE  /\ content'[current'] = content[current]
           /\ AbsPhase'  = [AbsPhase EXCEPT ![r] = PhaseOf(r)']
           /\ AbsAlias'  = [AbsAlias EXCEPT ![r] = AliasOf(r)']
           /\ AbsAnswer' = [AbsAnswer EXCEPT ![r] = AnswerOf(r)']
           /\ name' = [name EXCEPT ![r] = name'[r]]
           /\ \A q \in Reader \ {r} : UndecidedAt(q) => UndecidedAt(q)'
<1>1. current' = current
  BY DEF Moves, QueryStep, RedirectLoad, BlockedLoad, Load, RewritesGet,
         WhitelistContains, NotWhitelisted, BlacklistContains, GetFails, Return,
         Finish, Ask, engine
<1>2. \A q \in Reader \ {r} :
        /\ PhaseOf(q)' = PhaseOf(q) /\ AliasOf(q)' = AliasOf(q)
        /\ AnswerOf(q)' = AnswerOf(q) /\ name'[q] = name[q]
        /\ UndecidedAt(q) => UndecidedAt(q)'
  BY OthersStill, StillLooksTheSame DEF Still
<1>3. name \in [Reader -> Query] /\ name' \in [Reader -> Query]
  BY TypeStep DEF IInv, TypeOK
<1> QED
  BY <1>1, <1>2, <1>3, PolicyStays DEF AbsPhase, AbsAlias, AbsAnswer

\* Every step of a query is a step of the service or shows none of it.
LEMMA QueryRefines ==
    ASSUME RInv, [Next]_vars, NEW r \in Reader, Moves(r)
    PROVE  /\ Undecided'
           /\ Service!Next \/ UNCHANGED Service!vars
<1> USE DEF AbsPhase, AbsAlias, AbsAnswer
<1>1. /\ content'[current'] = content[current]
      /\ AbsPhase'  = [AbsPhase EXCEPT ![r] = PhaseOf(r)']
      /\ AbsAlias'  = [AbsAlias EXCEPT ![r] = AliasOf(r)']
      /\ AbsAnswer' = [AbsAnswer EXCEPT ![r] = AnswerOf(r)']
      /\ name' = [name EXCEPT ![r] = name'[r]]
      /\ \A q \in Reader \ {r} : UndecidedAt(q) => UndecidedAt(q)'
  BY OneMoves DEF RInv
<1>2. /\ AbsPhase[r] = PhaseOf(r) /\ AbsAlias[r] = AliasOf(r)
      /\ AbsAnswer[r] = AnswerOf(r)
      /\ name \in [Reader -> Query]
  BY DEF RInv, IInv, TypeOK
<1>3. UndecidedAt(r)
  BY DEF RInv, Undecided
<1>4. Looks(r) /\ Looks(r)'
  BY LooksNow, LooksNext
<1>5. /\ pc \in [Reader -> ReaderStates] /\ guard \in [Reader -> Db \cup {None}]
      /\ DOMAIN alias = Reader
      /\ answer \in [Reader -> {"none", "rewritten", "allowed", "blocked", "error"}]
  BY DEF RInv, IInv, TypeOK
<1>6. SUFFICES UndecidedAt(r)' /\ (Service!Next \/ UNCHANGED Service!vars)
  BY <1>1 DEF RInv, Undecided
<1>same. /\ AliasOf(r)' = AliasOf(r) => AbsAlias' = AbsAlias
         /\ AnswerOf(r)' = AnswerOf(r) => AbsAnswer' = AbsAnswer
  BY <1>1, <1>2
<1> HIDE DEF AbsPhase, AbsAlias, AbsAnswer
\* What is left to show in each case is what becomes of the entries of r.
<1>7. ASSUME UndecidedAt(r)',
             \/ Service!Redirect(r) \/ Service!Redirected(r) \/ Service!Decide(r)
             \/ Service!Decided(r) \/ Service!Fail(r) \/ Service!Finish(r)
      PROVE  UndecidedAt(r)' /\ (Service!Next \/ UNCHANGED Service!vars)
  BY <1>7 DEF Service!Next
<1>8. CASE \E n \in Query : Ask(r, n)
  <2>1. PICK n \in Query : Ask(r, n)
    BY <1>8
  <2>2. /\ pc[r] = "idle" /\ pc'[r] = "get_redirect" /\ name'[r] = n
        /\ UNCHANGED <<alias, answer>>
    BY <1>2, <1>5, <2>1 DEF Ask
  <2>3. /\ PhaseOf(r) = "idle" /\ PhaseOf(r)' = "get_redirect"
        /\ AliasOf(r)' = AliasOf(r) /\ AnswerOf(r)' = AnswerOf(r)
    BY <1>4, <2>2 DEF Looks, ReaderStates, Holding
  <2>abs. /\ AbsPhase[r] = "idle"
          /\ AbsPhase' = [AbsPhase EXCEPT ![r] = "get_redirect"]
          /\ name' = [name EXCEPT ![r] = n]
          /\ content'[current'] = content[current] /\ AbsAlias' = AbsAlias
          /\ AbsAnswer' = AbsAnswer
    BY <1>1, <1>2, <1>same, <2>2, <2>3
  <2>4. Service!Ask(r, n)
    BY <2>abs DEF Service!Ask, AbsPhase, AbsAlias, AbsAnswer
  <2>5. UndecidedAt(r)'
    BY <1>3, <2>2 DEF UndecidedAt
  <2> QED
    BY <2>4, <2>5 DEF Service!Next
<1>9. CASE RedirectLoad(r)
  <2>1. /\ pc[r] = "get_redirect" /\ pc'[r] = "rewrites_get" /\ guard'[r] = current
        /\ UNCHANGED <<current, content, name, alias, answer>>
    BY <1>5, <1>9 DEF RedirectLoad, Load, engine
  <2>2. /\ PhaseOf(r) = "get_redirect" /\ PhaseOf(r)' = "redirected"
        /\ AliasOf(r)' = get(content[current].rewrites, name[r])
        /\ AnswerOf(r)' = AnswerOf(r)
    BY <1>4, <2>1 DEF Looks, ReaderStates, Holding
  <2>abs. /\ AbsPhase[r] = "get_redirect"
          /\ AbsPhase' = [AbsPhase EXCEPT ![r] = "redirected"]
          /\ AbsAlias' = [AbsAlias EXCEPT ![r] =
                              Service!get(content[current].rewrites, name[r])]
          /\ content'[current'] = content[current] /\ name' = name
          /\ AbsAnswer' = AbsAnswer
    BY <1>1, <1>2, <1>same, <2>1, <2>2, SameLookup
  <2>3. Service!Redirect(r)
    BY <2>abs DEF Service!Redirect, AbsPhase, AbsAlias, AbsAnswer
  <2>4. UndecidedAt(r)'
    BY <1>3, <2>1 DEF UndecidedAt
  <2> QED
    BY <1>7, <2>3, <2>4
<1>10. CASE BlockedLoad(r)
  <2>1. /\ pc[r] = "is_blocked" /\ pc'[r] = "whitelist_contains" /\ guard'[r] = current
        /\ UNCHANGED <<current, content, name, alias, answer>>
    BY <1>5, <1>10 DEF BlockedLoad, Load, engine
  <2>2. /\ PhaseOf(r) = "is_blocked" /\ PhaseOf(r)' = "decided"
        /\ AliasOf(r)' = AliasOf(r)
        /\ AnswerOf(r)' = Service!Verdict(content[current], name[r])
    BY <1>4, <2>1 DEF Looks, ReaderStates, Holding
  <2>abs. /\ AbsPhase[r] = "is_blocked"
          /\ AbsPhase'  = [AbsPhase  EXCEPT ![r] = "decided"]
          /\ AbsAnswer' = [AbsAnswer EXCEPT ![r] =
                              Service!Verdict(content[current], name[r])]
          /\ content'[current'] = content[current] /\ name' = name
          /\ AbsAlias' = AbsAlias
    BY <1>1, <1>2, <1>same, <2>1, <2>2
  <2>3. Service!Decide(r)
    BY <2>abs DEF Service!Decide, AbsPhase, AbsAlias, AbsAnswer
  <2>4. UndecidedAt(r)'
    BY <1>3, <2>1 DEF UndecidedAt
  <2> QED
    BY <1>7, <2>3, <2>4
<1>11. ASSUME NEW to \in ReaderStates \ Holding, NEW al, NEW ans, Return(r, to, al, ans)
       PROVE  /\ pc'[r] = to /\ alias'[r] = al /\ answer'[r] = ans /\ name' = name
              /\ PhaseOf(r)' = to /\ AliasOf(r)' = al /\ AnswerOf(r)' = ans
  <2>1. pc'[r] = to /\ alias'[r] = al /\ answer'[r] = ans /\ name' = name
    BY <1>5, <1>11 DEF Return
  <2> QED
    BY <1>4, <2>1 DEF Looks
<1>12. CASE RewritesGet(r)
  <2> DEFINE al == get(content[guard[r]].rewrites, name[r])
  <2>1. /\ pc[r] = "rewrites_get" /\ PhaseOf(r) = "redirected"
        /\ AliasOf(r) = al /\ AnswerOf(r) = "none"
    BY <1>3, <1>4, <1>12 DEF RewritesGet, Looks, UndecidedAt
  <2>2. CASE al = None
    <3>1. Return(r, "is_blocked", None, "none")
      BY <1>12, <2>2 DEF RewritesGet
    <3>2. /\ pc'[r] = "is_blocked" /\ alias'[r] = None /\ answer'[r] = "none" /\ name' = name
          /\ PhaseOf(r)' = "is_blocked" /\ AliasOf(r)' = None /\ AnswerOf(r)' = "none"
      BY <1>11, <3>1 DEF ReaderStates, Holding
    <3> HIDE DEF al
    <3>abs. /\ AbsPhase[r] = "redirected" /\ AbsAlias[r] = None
            /\ AbsPhase' = [AbsPhase EXCEPT ![r] = "is_blocked"]
            /\ content'[current'] = content[current] /\ name' = name
            /\ AbsAlias' = AbsAlias /\ AbsAnswer' = AbsAnswer
      BY <1>1, <1>2, <1>same, <2>1, <2>2, <3>2
    <3>3. Service!Redirected(r)
      BY <3>abs DEF Service!Redirected, AbsPhase, AbsAlias, AbsAnswer
    <3>4. UndecidedAt(r)'
      BY <3>2 DEF UndecidedAt
    <3> QED
      BY <1>7, <3>3, <3>4
  <2>3. CASE al # None
    <3>1. Return(r, "done", al, "rewritten")
      BY <1>12, <2>3 DEF RewritesGet
    <3> HIDE DEF al
    <3>2. /\ pc'[r] = "done" /\ name' = name
          /\ PhaseOf(r)' = "done" /\ AliasOf(r)' = al /\ AnswerOf(r)' = "rewritten"
      BY <1>11, <3>1 DEF ReaderStates, Holding
    <3>abs. /\ AbsPhase[r] = "redirected" /\ AbsAlias[r] # None
            /\ AbsPhase'  = [AbsPhase  EXCEPT ![r] = "done"]
            /\ AbsAnswer' = [AbsAnswer EXCEPT ![r] = "rewritten"]
            /\ content'[current'] = content[current] /\ name' = name
            /\ AbsAlias' = AbsAlias
      BY <1>1, <1>2, <1>same, <2>1, <2>3, <3>2
    <3>3. Service!Redirected(r)
      BY <3>abs DEF Service!Redirected, AbsPhase, AbsAlias, AbsAnswer
    <3>4. UndecidedAt(r)'
      BY <3>2 DEF UndecidedAt
    <3> QED
      BY <1>7, <3>3, <3>4
  <2> QED
    BY <2>2, <2>3
<1>13. ASSUME NEW ans, Return(r, "done", None, ans),
              pc[r] \in {"whitelist_contains", "blacklist_contains"},
              Service!Verdict(content[guard[r]], name[r]) = ans
       PROVE  UndecidedAt(r)' /\ (Service!Next \/ UNCHANGED Service!vars)
  <2>1. PhaseOf(r) = "decided" /\ AliasOf(r) = None /\ AnswerOf(r) = ans
    BY <1>3, <1>4, <1>13 DEF Looks, UndecidedAt
  <2>2. /\ pc'[r] = "done" /\ name' = name
        /\ PhaseOf(r)' = "done" /\ AliasOf(r)' = None /\ AnswerOf(r)' = ans
    BY <1>11, <1>13 DEF ReaderStates, Holding
  <2>abs. /\ AbsPhase[r] = "decided"
          /\ AbsPhase' = [AbsPhase EXCEPT ![r] = "done"]
          /\ content'[current'] = content[current] /\ name' = name
          /\ AbsAlias' = AbsAlias /\ AbsAnswer' = AbsAnswer
    BY <1>1, <1>2, <1>same, <2>1, <2>2
  <2>3. Service!Decided(r)
    BY <2>abs DEF Service!Decided, AbsPhase, AbsAlias, AbsAnswer
  <2>4. UndecidedAt(r)'
    BY <2>2 DEF UndecidedAt
  <2> QED
    BY <1>7, <2>3, <2>4
<1>14. CASE WhitelistContains(r)
  <2>1. Service!Verdict(content[guard[r]], name[r]) = "allowed"
    BY <1>14, SameVerdict DEF WhitelistContains
  <2> QED
    BY <1>13, <1>14, <2>1 DEF WhitelistContains
<1>15. CASE NotWhitelisted(r)
  <2>1. /\ pc[r] = "whitelist_contains" /\ pc'[r] = "blacklist_contains"
        /\ ~contains(content[guard[r]].whitelist, name[r])
        /\ UNCHANGED <<current, content, name, guard, alias, answer>>
    BY <1>5, <1>15 DEF NotWhitelisted, engine
  <2>2. /\ PhaseOf(r)' = PhaseOf(r) /\ AliasOf(r)' = AliasOf(r)
        /\ AnswerOf(r)' = AnswerOf(r)
    BY <1>4, <2>1 DEF Looks
  <2>3. UNCHANGED Service!vars
    BY <1>1, <1>2, <2>1, <2>2 DEF Service!vars, AbsPhase, AbsAlias, AbsAnswer
  <2>4. UndecidedAt(r)'
    BY <1>3, <2>1 DEF UndecidedAt
  <2> QED
    BY <2>3, <2>4
<1>16. CASE BlacklistContains(r)
  <2>1. /\ pc[r] = "blacklist_contains"
        /\ Return(r, "done", None,
                  IF contains(content[guard[r]].blacklist, name[r])
                  THEN "blocked" ELSE "allowed")
    BY <1>16 DEF BlacklistContains
  <2>2. Service!Verdict(content[guard[r]], name[r]) =
            IF contains(content[guard[r]].blacklist, name[r])
            THEN "blocked" ELSE "allowed"
    BY <1>3, <2>1, SameVerdict DEF UndecidedAt
  <2> QED
    BY <1>13, <2>1, <2>2
<1>17. CASE GetFails(r)
  <2>1. PhaseOf(r) \in {"redirected", "decided"}
    BY <1>4, <1>17 DEF GetFails, Looks, Holding
  <2>2. /\ pc'[r] = "done" /\ name' = name
        /\ PhaseOf(r)' = "done" /\ AliasOf(r)' = None /\ AnswerOf(r)' = "error"
    BY <1>11, <1>17 DEF GetFails, ReaderStates, Holding
  <2>abs. /\ AbsPhase[r] \in {"redirected", "decided"}
          /\ AbsPhase'  = [AbsPhase  EXCEPT ![r] = "done"]
          /\ AbsAlias'  = [AbsAlias  EXCEPT ![r] = None]
          /\ AbsAnswer' = [AbsAnswer EXCEPT ![r] = "error"]
          /\ content'[current'] = content[current] /\ name' = name
    BY <1>1, <1>2, <1>same, <2>1, <2>2
  <2>3. Service!Fail(r)
    BY <2>abs DEF Service!Fail, AbsPhase, AbsAlias, AbsAnswer
  <2>4. UndecidedAt(r)'
    BY <2>2 DEF UndecidedAt
  <2> QED
    BY <1>7, <2>3, <2>4
<1>18. CASE Finish(r)
  <2>1. /\ pc[r] = "done" /\ pc'[r] = "idle" /\ alias'[r] = None
        /\ answer'[r] = "none" /\ name' = name
    BY <1>5, <1>18 DEF Finish
  <2>2. /\ PhaseOf(r) = "done" /\ PhaseOf(r)' = "idle" /\ AliasOf(r)' = None
        /\ AnswerOf(r)' = "none"
    BY <1>4, <2>1 DEF Looks, ReaderStates, Holding
  <2>abs. /\ AbsPhase[r] = "done"
          /\ AbsPhase'  = [AbsPhase  EXCEPT ![r] = "idle"]
          /\ AbsAlias'  = [AbsAlias  EXCEPT ![r] = None]
          /\ AbsAnswer' = [AbsAnswer EXCEPT ![r] = "none"]
          /\ content'[current'] = content[current] /\ name' = name
    BY <1>1, <1>2, <1>same, <2>1, <2>2
  <2>3. Service!Finish(r)
    BY <2>abs DEF Service!Finish, AbsPhase, AbsAlias, AbsAnswer
  <2>4. UndecidedAt(r)'
    BY <2>1 DEF UndecidedAt
  <2> QED
    BY <1>7, <2>3, <2>4
<1> QED
  BY <1>8, <1>9, <1>10, <1>12, <1>14, <1>15, <1>16, <1>17, <1>18 DEF Moves, QueryStep

\* Every other step leaves the queries alone: it shows as a new policy, or not
\* at all.
LEMMA OthersRefine ==
    ASSUME RInv, [Next]_vars, Updater \/ Environment \/ UNCHANGED vars
    PROVE  Undecided' /\ Service!Next
<1>1. /\ \A r \in Reader : /\ PhaseOf(r)' = PhaseOf(r) /\ AliasOf(r)' = AliasOf(r)
                            /\ AnswerOf(r)' = AnswerOf(r)
      /\ Undecided'
  BY NobodyMoves, StillLooksTheSame DEF RInv, Undecided
<1>2. name' = name
  BY DEF Updater, Environment, Wake, Create, CreateFails, LoadConfig, LoadConfigFails,
         Compile, CompileWhitelist, CompileBlacklist, CompileRewrites, SkipSource,
         Store, DropOld, PublishConfig, PublishSource, vars, query
<1>3. Service!Publish
  BY <1>1, <1>2 DEF Service!Publish
<1> QED
  BY <1>1, <1>3 DEF Service!Next

LEMMA InitRefines == Init => RInv /\ Service!Init
<1> SUFFICES ASSUME Init PROVE RInv /\ Service!Init
  OBVIOUS
<1>1. RInv
  BY TypeInit, OwnershipInit DEF RInv, IInv, Init, Undecided, UndecidedAt
<1>2. \A r \in Reader :
        PhaseOf(r) = "idle" /\ AliasOf(r) = None /\ AnswerOf(r) = "none"
  <2>1. ASSUME NEW r \in Reader
        PROVE  pc[r] = "idle" /\ alias[r] = None /\ answer[r] = "none"
    BY DEF Init
  <2> QED
    BY <2>1, LooksNow DEF Looks, ReaderStates, Holding
<1>3. content[current] = Service!EmptyPolicy
  BY DEF Init, EmptyDb, EmptyStore, Service!EmptyPolicy, Service!EmptyStore
<1>4. name \in [Reader -> Query]
  BY DEF Init
<1>5. Service!Init
  BY <1>2, <1>3, <1>4 DEF Service!Init
<1> QED
  BY <1>1, <1>5

LEMMA StepRefines == RInv /\ [Next]_vars => RInv' /\ [Service!Next]_Service!vars
<1> SUFFICES ASSUME RInv, [Next]_vars PROVE RInv' /\ [Service!Next]_Service!vars
  OBVIOUS
<1>1. IInv'
  BY TypeStep, OwnershipStep DEF RInv, IInv
<1>2. CASE \E r \in Reader : Moves(r)
  BY <1>1, <1>2, QueryRefines DEF RInv
<1>3. CASE Updater \/ Environment \/ UNCHANGED vars
  BY <1>1, <1>3, OthersRefine DEF RInv
<1> QED
  BY <1>2, <1>3 DEF Next, Moves

\* However many queries run while the lists are updated however often, each
\* call is answered as the policy of one instant between the call and its
\* return says: ArcSwap::load takes one database for the whole of a call, and
\* that database stays as it is until the call lets go of it.
THEOREM Atomicity == Spec => ImplementsPolicyService
<1>1. Spec => Service!Init /\ [][Service!Next]_Service!vars
  BY InitRefines, StepRefines, PTL DEF Spec
<1> QED
  BY <1>1 DEF ImplementsPolicyService, Service!Spec
=============================================================================
