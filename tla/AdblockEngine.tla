--------------------------- MODULE AdblockEngine ---------------------------
(***************************************************************************)
(* AdblockEngine (src/src/engine.rs) with the databases it holds (db.rs),   *)
(* the update loop that drives run_update (main.rs) and the compiler that   *)
(* fills a new database (compiler/), against the queries that read the      *)
(* current one on other threads (handler.rs).                               *)
(*                                                                          *)
(* A database is referred to by Arcs: the ArcSwap holds one, run_update     *)
(* holds the new database and, inside store(), the old one, and a query     *)
(* holds the guard of load() for the time of one call.  Whoever lets go of  *)
(* a database last drops it, and Drop destroys its three directories.       *)
(*                                                                          *)
(* The outside world is the configuration file and the sources it lists:    *)
(* they may change at any time, between any two steps of a compilation.     *)
(***************************************************************************)
EXTENDS Lookup, FiniteSets

CONSTANTS
    Reader,     \* the tasks that handle a DNS query
    Db,         \* identities of databases: the random directory names
    Query,      \* the names queries ask about
    Source,     \* the files and URLs a configuration may list
    Revision,   \* the states a source goes through
    Parsed,     \* Parsed[s][v]: what the parsers make of revision v of s
    Config      \* the configurations that may be published

\* The parsed lines of a source: a name and, for an override, its alias; the
\* blacklist and the whitelist do not look at the alias.
Line == [domain: DomainName, alias: DomainName]

\* The lists of a configuration, in the order compile() goes through them.
List == {"whitelist", "blacklist", "rewrites"}

ASSUME ReaderAssumption == IsFiniteSet(Reader)
ASSUME ParsedAssumption ==
    \A s \in Source, v \in Revision :
        Parsed[s][v] \in Seq(Line)
ASSUME ConfigAssumption ==
    Config \subseteq [List -> Seq(Source)]
ASSUME QueryAssumption == Query \subseteq DomainName
ASSUME ValueAssumption ==
    /\ None \notin Db
    /\ True \notin DomainName
    /\ None \notin DomainName \cup {True}

VARIABLES
    current,    \* the database the ArcSwap refers to
    open,       \* the databases whose directories exist
    content,    \* what is stored in each of them
    upc,        \* where the update loop is
    building,   \* new_db of run_update, or None
    retiring,   \* the database store() has replaced and not yet let go of
    todo,       \* the sources of each list that compile() has still to load
    config,     \* the configuration as published
    rev,        \* the revision of each source as published
    pc,         \* where each query is
    name,       \* the name each query asks about
    guard,      \* the guard of load() each query holds, or None
    alias,      \* the alias get_redirect has returned to each query
    answer      \* what the engine made of each query
engine   == <<current, open, content>>
update   == <<upc, building, retiring, todo>>
upstream == <<config, rev>>
query    == <<pc, name, guard, alias, answer>>
vars     == <<engine, update, upstream, query>>

EmptyDb ==
    [whitelist |-> EmptyStore, blacklist |-> EmptyStore, rewrites |-> EmptyStore]
NothingToDo == [l \in List |-> <<>>]

ReaderStates ==
    {"idle", "get_redirect", "rewrites_get", "is_blocked",
     "whitelist_contains", "blacklist_contains", "done"}
Holding == {"rewrites_get", "whitelist_contains", "blacklist_contains"}
-----------------------------------------------------------------------------
\* AdblockEngine::new: an empty database, and the update loop about to run.
Init ==
    /\ current \in Db
    /\ open = {current}
    /\ content = [d \in Db |-> EmptyDb]
    /\ upc = "awake"
    /\ building = None
    /\ retiring = None
    /\ todo = NothingToDo
    /\ config \in Config
    /\ rev \in [Source -> Revision]
    /\ pc = [r \in Reader |-> "idle"]
    /\ name \in [Reader -> Query]
    /\ guard = [r \in Reader |-> None]
    /\ alias = [r \in Reader |-> None]
    /\ answer = [r \in Reader |-> "none"]

\* Who refers to database d when the guards and the updater are as given.
HeldBy(d, cur, bld, ret, grd) ==
    d \in {cur, bld, ret} \/ \E r \in Reader : grd[r] = d

\* The last Arc is gone: Drop takes the three stores down and destroys them.
\* The directory name is free for a later database.
Drop(d) ==
    /\ open' = open \ {d}
    /\ content' = [content EXCEPT ![d] = EmptyDb]

\* Faulty variants of Release: the directories are destroyed although others
\* still refer to them; they are never destroyed.
Release_eager(d) == Drop(d)
Release_leaking(d) == UNCHANGED <<open, content>>

\* A holder of d lets go of it; the primed variables say who is left.
Release(d) ==
    IF HeldBy(d, current', building', retiring', guard')
    THEN UNCHANGED <<open, content>>
    ELSE Drop(d)
-----------------------------------------------------------------------------
(***************************************************************************)
(* The update loop and run_update.                                          *)
(***************************************************************************)

\* The sleep of the loop is over.
Wake ==
    /\ upc = "sleeping"
    /\ upc' = "awake"
    /\ UNCHANGED <<engine, building, retiring, todo, upstream, query>>

\* AdblockDB::create() under fresh directory names.
Create(d) ==
    /\ upc = "awake"
    /\ d \notin open
    /\ building' = d
    /\ open' = open \cup {d}
    /\ content' = [content EXCEPT ![d] = EmptyDb]
    /\ upc' = "load_definition"
    /\ UNCHANGED <<current, retiring, todo, upstream, query>>

\* One of the three stores cannot be opened: those opened so far are dropped
\* again, and the loop goes to sleep with the database it has.
CreateFails ==
    /\ upc = "awake"
    /\ upc' = "sleeping"
    /\ UNCHANGED <<engine, building, retiring, todo, upstream, query>>

\* Config::load succeeds with the configuration that is published now.
LoadConfig ==
    /\ upc = "load_definition"
    /\ todo' = config
    /\ upc' = "compile"
    /\ UNCHANGED <<engine, building, retiring, upstream, query>>

\* Config::load fails: the ? of run_update drops new_db.
LoadConfigFails ==
    /\ upc = "load_definition"
    /\ building' = None
    /\ upc' = "sleeping"
    /\ UNCHANGED <<current, retiring, todo, upstream, query>>
    /\ Release(building)

\* compile() works on list l: the lists before it are finished.
Turn(l) ==
    /\ upc = "compile"
    /\ todo[l] # <<>>
    /\ l \in {"blacklist", "rewrites"} => todo["whitelist"] = <<>>
    /\ l = "rewrites" => todo["blacklist"] = <<>>

Lines(l) == Parsed[Head(todo[l])][rev[Head(todo[l])]]

\* Faulty variant of put_each: the keys are not normalised.
put_each_raw(kv, lines, ok) ==
    [n \in DOMAIN kv \cup {lines[i].domain : i \in ok} |->
        IF \E i \in ok : lines[i].domain = n THEN True ELSE kv[n]]

\* The store after the put calls of a source of which those in ok succeeded.
put_each(kv, lines, ok) ==
    LET key(i) == normalize_name(lines[i].domain) IN
    [n \in DOMAIN kv \cup {key(i) : i \in ok} |->
        IF \E i \in ok : key(i) = n THEN True ELSE kv[n]]

\* Faulty variant of put_alias_each: the first line for a name stays.
put_alias_each_first(kv, lines, ok) ==
    LET key(i) == normalize_name(lines[i].domain)
        First(n) == Min({i \in ok : key(i) = n})
    IN [n \in DOMAIN kv \cup {key(i) : i \in ok} |->
            IF \E i \in ok : key(i) = n
            THEN normalize_name(lines[First(n)].alias) ELSE kv[n]]

\* The same for put_alias: of several lines for one name the last one stays.
put_alias_each(kv, lines, ok) ==
    LET key(i) == normalize_name(lines[i].domain)
        Last(n) == Max({i \in ok : key(i) = n})
    IN [n \in DOMAIN kv \cup {key(i) : i \in ok} |->
            IF \E i \in ok : key(i) = n
            THEN normalize_name(lines[Last(n)].alias) ELSE kv[n]]

\* A source is fetched, parsed and put into the new database line by line;
\* a put that fails is ignored, so any subset ok of the lines may arrive.
CompileWhitelist(ok) ==
    /\ Turn("whitelist")
    /\ ok \subseteq DOMAIN Lines("whitelist")
    /\ content' = [content EXCEPT ![building].whitelist =
                                        put_each(@, Lines("whitelist"), ok)]
    /\ todo' = [todo EXCEPT !["whitelist"] = Tail(@)]
    /\ UNCHANGED <<current, open, upc, building, retiring, upstream, query>>

\* Faulty variant of CompileBlacklist: the live database is updated in place.
CompileBlacklist_in_place(ok) ==
    /\ Turn("blacklist")
    /\ ok \subseteq DOMAIN Lines("blacklist")
    /\ content' = [content EXCEPT ![current].blacklist =
                                        put_each(@, Lines("blacklist"), ok)]
    /\ todo' = [todo EXCEPT !["blacklist"] = Tail(@)]
    /\ UNCHANGED <<current, open, upc, building, retiring, upstream, query>>

CompileBlacklist(ok) ==
    /\ Turn("blacklist")
    /\ ok \subseteq DOMAIN Lines("blacklist")
    /\ content' = [content EXCEPT ![building].blacklist =
                                        put_each(@, Lines("blacklist"), ok)]
    /\ todo' = [todo EXCEPT !["blacklist"] = Tail(@)]
    /\ UNCHANGED <<current, open, upc, building, retiring, upstream, query>>

CompileRewrites(ok) ==
    /\ Turn("rewrites")
    /\ ok \subseteq DOMAIN Lines("rewrites")
    /\ content' = [content EXCEPT ![building].rewrites =
                                        put_alias_each(@, Lines("rewrites"), ok)]
    /\ todo' = [todo EXCEPT !["rewrites"] = Tail(@)]
    /\ UNCHANGED <<current, open, upc, building, retiring, upstream, query>>

\* A source that cannot be fetched or parsed is skipped, and the compilation
\* goes on: load_* prints the error and returns an empty list.
SkipSource(l) ==
    /\ Turn(l)
    /\ todo' = [todo EXCEPT ![l] = Tail(@)]
    /\ UNCHANGED <<engine, upc, building, retiring, upstream, query>>

\* Faulty variant of Store: the new database is published before its lists are
\* compiled, so that queries read it while it is filled.
Store_early ==
    /\ upc = "compile"
    /\ current' = building
    /\ retiring' = current
    /\ UNCHANGED <<open, content, upc, building, todo, upstream, query>>

\* ArcSwap::store swaps the pointer ...
Store ==
    /\ upc = "compile"
    /\ todo = NothingToDo
    /\ current' = building
    /\ retiring' = current
    /\ building' = None
    /\ upc' = "store"
    /\ UNCHANGED <<open, content, todo, upstream, query>>

\* Faulty variant of DropOld: the loop goes to sleep with the old Arc in hand.
DropOld_kept ==
    /\ upc = "store"
    /\ upc' = "sleeping"
    /\ UNCHANGED <<engine, building, retiring, todo, upstream, query>>

\* ... and then lets go of the old database.
DropOld ==
    /\ upc = "store"
    /\ retiring' = None
    /\ upc' = "sleeping"
    /\ UNCHANGED <<current, building, todo, upstream, query>>
    /\ Release(retiring)
-----------------------------------------------------------------------------
(***************************************************************************)
(* A query: get_redirect and, when there is no alias, is_blocked.           *)
(***************************************************************************)

Ask(r, n) ==
    /\ pc[r] = "idle"
    /\ pc' = [pc EXCEPT ![r] = "get_redirect"]
    /\ name' = [name EXCEPT ![r] = n]
    /\ UNCHANGED <<engine, update, upstream, guard, alias, answer>>

\* self.db.load() at the head of get_redirect and of is_blocked.
Load(r, from, to) ==
    /\ pc[r] = from
    /\ guard' = [guard EXCEPT ![r] = current]
    /\ pc' = [pc EXCEPT ![r] = to]
    /\ UNCHANGED <<engine, update, upstream, name, alias, answer>>

RedirectLoad(r) == Load(r, "get_redirect", "rewrites_get")
BlockedLoad(r)  == Load(r, "is_blocked", "whitelist_contains")

\* A call returns: the guard goes out of scope.
Return(r, to, al, ans) ==
    /\ guard' = [guard EXCEPT ![r] = None]
    /\ pc' = [pc EXCEPT ![r] = to]
    /\ alias' = [alias EXCEPT ![r] = al]
    /\ answer' = [answer EXCEPT ![r] = ans]
    /\ UNCHANGED <<current, update, upstream, name>>
    /\ Release(guard[r])

\* Faulty variant of RewritesGet: a query that notices an update starts again.
RewritesGet_restarting(r) ==
    /\ pc[r] = "rewrites_get"
    /\ LET al == get(content[guard[r]].rewrites, name[r]) IN
       IF current # guard[r] THEN Return(r, "get_redirect", None, "none")
       ELSE IF al = None THEN Return(r, "is_blocked", None, "none")
                         ELSE Return(r, "done", al, "rewritten")

RewritesGet(r) ==
    /\ pc[r] = "rewrites_get"
    /\ LET al == get(content[guard[r]].rewrites, name[r]) IN
       IF al = None THEN Return(r, "is_blocked", None, "none")
                    ELSE Return(r, "done", al, "rewritten")

WhitelistContains(r) ==
    /\ pc[r] = "whitelist_contains"
    /\ contains(content[guard[r]].whitelist, name[r])
    /\ Return(r, "done", None, "allowed")

NotWhitelisted(r) ==
    /\ pc[r] = "whitelist_contains"
    /\ ~contains(content[guard[r]].whitelist, name[r])
    /\ pc' = [pc EXCEPT ![r] = "blacklist_contains"]
    /\ UNCHANGED <<engine, update, upstream, name, guard, alias, answer>>

\* Faulty variant of BlacklistContains: the ArcSwap is loaded a second time for
\* the blacklist.
BlacklistContains_reloading(r) ==
    /\ pc[r] = "blacklist_contains"
    /\ Return(r, "done", None,
              IF contains(content[current].blacklist, name[r])
              THEN "blocked" ELSE "allowed")

BlacklistContains(r) ==
    /\ pc[r] = "blacklist_contains"
    /\ Return(r, "done", None,
              IF contains(content[guard[r]].blacklist, name[r])
              THEN "blocked" ELSE "allowed")

\* RocksDB fails to read: the ? of get_redirect or is_blocked.
GetFails(r) ==
    /\ pc[r] \in Holding
    /\ Return(r, "done", None, "error")

\* The query is over and what it has been told is forgotten.
Finish(r) ==
    /\ pc[r] = "done"
    /\ pc' = [pc EXCEPT ![r] = "idle"]
    /\ alias' = [alias EXCEPT ![r] = None]
    /\ answer' = [answer EXCEPT ![r] = "none"]
    /\ UNCHANGED <<engine, update, upstream, name, guard>>
-----------------------------------------------------------------------------
(***************************************************************************)
(* The world upstream.                                                      *)
(***************************************************************************)

PublishConfig ==
    /\ config' \in Config \ {config}
    /\ UNCHANGED <<engine, update, rev, query>>

PublishSource(s) ==
    /\ \E v \in Revision \ {rev[s]} : rev' = [rev EXCEPT ![s] = v]
    /\ UNCHANGED <<engine, update, config, query>>
-----------------------------------------------------------------------------
Compile ==
    \/ Turn("whitelist") /\ \E ok \in SUBSET DOMAIN Lines("whitelist") :
                                CompileWhitelist(ok)
    \/ Turn("blacklist") /\ \E ok \in SUBSET DOMAIN Lines("blacklist") :
                                CompileBlacklist(ok)
    \/ Turn("rewrites")  /\ \E ok \in SUBSET DOMAIN Lines("rewrites") :
                                CompileRewrites(ok)
    \/ \E l \in List : SkipSource(l)

Updater ==
    \/ Wake
    \/ \E d \in Db : Create(d)
    \/ CreateFails
    \/ LoadConfig \/ LoadConfigFails
    \/ Compile
    \/ Store \/ DropOld

QueryStep(r) ==
    \/ RedirectLoad(r) \/ RewritesGet(r)
    \/ BlockedLoad(r) \/ WhitelistContains(r) \/ NotWhitelisted(r)
    \/ BlacklistContains(r) \/ GetFails(r)

Environment ==
    \/ PublishConfig
    \/ \E s \in Source : PublishSource(s)

Next ==
    \/ Updater
    \/ \E r \in Reader : QueryStep(r) \/ Finish(r) \/ \E n \in Query : Ask(r, n)
    \/ Environment

Spec == Init /\ [][Next]_vars

\* tokio polls a task that can make progress: the update loop comes back from
\* its sleep and from each step of run_update, and a query that has been
\* received is carried to its end.  Nothing obliges clients to ask, or the
\* operators of the sources to publish.
Fairness ==
    /\ WF_vars(Updater)
    /\ \A r \in Reader : WF_vars(QueryStep(r))

FairSpec == Spec /\ Fairness
-----------------------------------------------------------------------------
(***************************************************************************)
(* Properties.                                                              *)
(***************************************************************************)
StoreOK(kv) ==
    \A n \in DOMAIN kv : /\ n \in DomainName /\ n.dot
                         /\ kv[n] \in DomainName \cup {True}

TypeOK ==
    /\ current \in Db
    /\ open \subseteq Db
    /\ DOMAIN content = Db
    /\ \A d \in Db : DOMAIN content[d] = List /\ \A l \in List : StoreOK(content[d][l])
    /\ upc \in {"awake", "load_definition", "compile", "store", "sleeping"}
    /\ building \in Db \cup {None}
    /\ retiring \in Db \cup {None}
    /\ todo \in [List -> Seq(Source)]
    /\ config \in Config
    /\ rev \in [Source -> Revision]
    /\ pc \in [Reader -> ReaderStates]
    /\ name \in [Reader -> Query]
    /\ guard \in [Reader -> Db \cup {None}]
    /\ DOMAIN alias = Reader
    /\ answer \in [Reader -> {"none", "rewritten", "allowed", "blocked", "error"}]

\* A database exists exactly as long as somebody refers to it: the directories
\* are never destroyed under a query that is reading them, and none is left
\* behind by an update, successful or not.
OpenExactlyHeld ==
    \A d \in Db : d \in open <=> HeldBy(d, current, building, retiring, guard)

\* No query can be reading a database that is still being compiled, over many
\* awaits, and none can come to it.
BuildInvisible ==
    building # None => /\ building \notin {current, retiring}
                       /\ \A r \in Reader : guard[r] # building

\* From the moment it can be seen by a query until it is destroyed, a database
\* does not change.
PublishedImmutable ==
    [][\A d \in (open \ {building}) \cap open' : content'[d] = content[d]]_vars

\* However often it is updated, the engine never has more databases on disk
\* than the current one, the one being compiled or retired, and one for each
\* query that is reading at this moment.
Reading == {r \in Reader : guard[r] # None}
OpenBound == Cardinality(open) <= Cardinality(Reading) + 2

(***************************************************************************)
(* The engine implements the policy service.  A call takes effect when it   *)
(* loads the ArcSwap; what it answers follows from the database it holds.   *)
(***************************************************************************)
PhaseOf(r) ==
    CASE pc[r] = "rewrites_get" -> "redirected"
      [] pc[r] \in {"whitelist_contains", "blacklist_contains"} -> "decided"
      [] OTHER -> pc[r]

AliasOf(r) ==
    IF pc[r] = "rewrites_get" THEN get(content[guard[r]].rewrites, name[r])
    ELSE alias[r]

AnswerOf(r) ==
    IF PhaseOf(r) = "decided"
    THEN IF contains(content[guard[r]].whitelist, name[r]) THEN "allowed"
         ELSE IF contains(content[guard[r]].blacklist, name[r]) THEN "blocked"
         ELSE "allowed"
    ELSE answer[r]

Service == INSTANCE PolicyService WITH
    policy <- content[current],
    phase  <- [r \in Reader |-> PhaseOf(r)],
    alias  <- [r \in Reader |-> AliasOf(r)],
    answer <- [r \in Reader |-> AnswerOf(r)]

\* Each call of a query is answered as the policy of one instant between the
\* call and its return says, although it reads two stores in two steps and
\* the database may be replaced meanwhile.
ImplementsPolicyService == Service!Spec

(***************************************************************************)
(* Liveness.                                                                *)
(***************************************************************************)

\* The lines of list l as published now: p[2]-th line of the p[1]-th source.
Positions(l) ==
    UNION {{<<j, i>> : i \in DOMAIN Parsed[config[l][j]][rev[config[l][j]]]} :
                j \in DOMAIN config[l]}
LineAt(l, p) == Parsed[config[l][p[1]]][rev[config[l][p[1]]]][p[2]]
KeyAt(l, p)  == normalize_name(LineAt(l, p).domain)
Later(p, q)  == p[1] > q[1] \/ (p[1] = q[1] /\ p[2] > q[2])

\* The list is what the published configuration and sources say: the rules of
\* all its sources, and for a name with several overrides the last of them.
UpToDate(l) ==
    LET kv == content[current][l] IN
    /\ DOMAIN kv = {KeyAt(l, p) : p \in Positions(l)}
    /\ \A p \in Positions(l) :
          \/ \E q \in Positions(l) : Later(q, p) /\ KeyAt(l, q) = KeyAt(l, p)
          \/ kv[KeyAt(l, p)] = IF l = "rewrites"
                               THEN normalize_name(LineAt(l, p).alias) ELSE True

\* A step of an update goes wrong, or the world changes under it.
PutFails == upc = "compile" /\ Compile /\ \A l \in List :
    Turn(l) => content' # [content EXCEPT ![building][l] =
        IF l = "rewrites" THEN put_alias_each(@, Lines(l), DOMAIN Lines(l))
                          ELSE put_each(@, Lines(l), DOMAIN Lines(l))]

Disturbance ==
    \/ CreateFails \/ LoadConfigFails \/ PutFails
    \/ Environment

\* When nothing fails any more and the lists stop changing, the engine ends up
\* answering from exactly the lists that are published, whatever updates went
\* wrong before.
EventuallyUpToDate ==
    []<><<Disturbance>>_vars \/ <>[](\A l \in List : UpToDate(l))

\* A database that has been replaced is destroyed in the end.
EventuallyDestroyed ==
    \A d \in Db : (d \in open /\ d \notin {current, building})
                        ~> (d \notin open \/ d \in {current, building})

\* A query that has been received is decided in the end, however often the
\* database is replaced under it.
QueryAnswered == \A r \in Reader : (pc[r] = "get_redirect") ~> (pc[r] = "done")
=============================================================================
