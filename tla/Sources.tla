------------------------------ MODULE Sources ------------------------------
(***************************************************************************)
(* What an update reads from the outside world: Config::load                *)
(* (src/src/config/) and the fetches of compile() (src/src/fetch/), against *)
(* files and servers whose content changes at any time.  AdblockEngine has  *)
(* the same update with each fetch in one step; here a fetch is made of the *)
(* attempts, timeouts and broken answers it consists of.  An update begins  *)
(* here when its empty database has been made: that this may fail, and with *)
(* it the update, is AdblockEngine's CreateFails.                           *)
(***************************************************************************)
EXTENDS Integers, Sequences

CONSTANTS
    Url, File,      \* locations, by the two variants of FileOrUrl
    ConfigUrl,      \* those the configuration may be at
    Path,           \* sources as configurations write them
    Beside,         \* the paths that begin with "./"
    Joined,         \* Joined[c][p]: where p is when the configuration is at c
    Parsed,         \* Parsed[p]: the location any other path names
    Text,           \* what can be published
    Holds,          \* Holds[l]: what can be published at l
    RawConfig,      \* RawConfig[t]: t as YAML, or None
    ErrorPage,      \* the body of a response with an error status
    None,           \* no such file or page; no text
    Unreadable,     \* a file that is there but cannot be read: not UTF-8, no
                    \* permission, a directory
    Attempts,       \* how often a request is sent: 5
    MaxChanges      \* bound: changes of the world during one update

Location == Url \cup File
List == {"whitelist", "blacklist", "overrides"}
Content == Text \cup {None, Unreadable}

ASSUME LocationAssumption ==
    /\ Url \cap File = {} /\ ConfigUrl \subseteq Location /\ Beside \subseteq Path
    /\ Joined \in [ConfigUrl -> [Beside -> Location]]
    /\ \A c \in ConfigUrl : \A p \in Beside : Joined[c][p] \in File <=> c \in File
    /\ Parsed \in [Path \ Beside -> Location]
ASSUME TextAssumption ==
    /\ ErrorPage \in Text /\ None \notin Text /\ Unreadable \notin Text \cup {None}
    /\ Holds \in [Location -> SUBSET Content] /\ \A l \in Url : Unreadable \notin Holds[l]
    /\ RawConfig \in [Text -> [List -> Seq(Path)] \cup {None}]
    /\ RawConfig[ErrorPage] = None
ASSUME BoundAssumption == Attempts \in Nat \ {0} /\ MaxChanges \in Nat

VARIABLES
    config_url, \* the argument of the program
    published,  \* what is at each location now
    step,       \* where run_update is
    raw,        \* the paths of the configuration that are not resolved yet
    config,     \* its sources resolved so far
    todo,       \* the sources compile() has still to load
    db,         \* those it has loaded: list, location and text, or None
    fetching,   \* what the current fetch waits for
    attempt,    \* the attempt it is at
    body,       \* the text of the response that is arriving
    seen,       \* history: what has been at each location during the update
    changes     \* how often the world has changed during the update
update == <<step, raw, config, todo, db>>
fetch  == <<fetching, attempt, body>>
world  == <<published, seen, changes>>
vars   == <<config_url, update, fetch, world>>

Nowhere == [l \in List |-> <<>>]

Init ==
    /\ config_url \in ConfigUrl
    /\ published \in [Location -> Content]
    /\ \A l \in Location : published[l] \in Holds[l]
    /\ step = "asleep" /\ raw = Nowhere /\ config = Nowhere /\ todo = <<>> /\ db = <<>>
    /\ fetching = "nothing" /\ attempt = 0 /\ body = None
    /\ seen = [l \in Location |-> {}] /\ changes = 0
-----------------------------------------------------------------------------
(***************************************************************************)
(* Fetch::fetch.                                                            *)
(***************************************************************************)

\* FileOrUrl::to_fetch
to_fetch(l) ==
    /\ fetching' = IF l \in Url THEN "response" ELSE "file"
    /\ attempt' = IF l \in Url THEN 1 ELSE 0
    /\ body' = None

Fetched == fetching' = "nothing" /\ attempt' = 0 /\ body' = None

Here == IF step = "load" THEN config_url ELSE Head(todo)[2]

\* Config::load goes on with the text or gives up; compile() goes on with the
\* next source in either case.
Got(text) ==
    /\ IF step = "load"
       THEN LET yaml == IF text = None THEN None ELSE RawConfig[text] IN
            /\ step' = IF yaml = None THEN "failed" ELSE "resolve"
            /\ raw' = IF yaml = None THEN raw ELSE yaml
            /\ UNCHANGED <<todo, db>>
       ELSE /\ db' = Append(db, <<Head(todo)[1], Head(todo)[2], text>>)
            /\ todo' = Tail(todo)
            /\ UNCHANGED <<step, raw>>
    /\ UNCHANGED <<config, config_url, world>>

\* It also fails for a file that is there.
read_to_string(content) == IF content \in Text THEN content ELSE None

ReadFile ==
    /\ fetching = "file"
    /\ Got(read_to_string(published[Here]))
    /\ Fetched

\* Faulty variants of SendFails: after the last attempt it begins again; one
\* attempt too many.
SendFails_forever ==
    /\ fetching = "response"
    /\ attempt' = IF attempt < Attempts THEN attempt + 1 ELSE 1
    /\ UNCHANGED <<config_url, update, world, fetching, body>>

SendFails_once_more ==
    /\ fetching = "response"
    /\ IF attempt <= Attempts
       THEN attempt' = attempt + 1
            /\ UNCHANGED <<config_url, update, world, fetching, body>>
       ELSE Got(None) /\ Fetched

\* No connection, or no response in time.
SendFails ==
    /\ fetching = "response"
    /\ IF attempt < Attempts
       THEN attempt' = attempt + 1
            /\ UNCHANGED <<config_url, update, world, fetching, body>>
       ELSE Got(None) /\ Fetched

\* A response, of whatever status: there is a text in any case.
Responds ==
    /\ fetching = "response"
    /\ fetching' = "body"
    /\ body' = IF published[Here] = None THEN ErrorPage ELSE published[Here]
    /\ UNCHANGED <<config_url, update, world, attempt>>

\* Faulty variant of BodyBreaks: the failure is taken for a text without rules.
BodyBreaks_unnoticed == fetching = "body" /\ Got(ErrorPage) /\ Fetched

BodyArrives == fetching = "body" /\ Got(body) /\ Fetched

\* The response breaks off or takes too long: the ? of fetch, no new attempt.
BodyBreaks == fetching = "body" /\ Got(None) /\ Fetched

FetchStep == ReadFile \/ SendFails \/ Responds \/ BodyArrives \/ BodyBreaks
-----------------------------------------------------------------------------
(***************************************************************************)
(* run_update: Config::load and compile().                                  *)
(***************************************************************************)
Wake ==
    /\ step = "asleep"
    /\ step' = "load"
    /\ to_fetch(config_url)
    /\ seen' = [l \in Location |-> {published[l]}]
    /\ UNCHANGED <<config_url, raw, config, todo, db, published, changes>>

\* The list whose next path is resolved.
Resolving ==
    IF raw["blacklist"] # <<>> THEN "blacklist"
    ELSE IF raw["whitelist"] # <<>> THEN "whitelist" ELSE "overrides"

\* Source::try_from_raw_source: where the path leads.
locate(p) == IF p \in Beside THEN Joined[config_url][p] ELSE Parsed[p]

\* Faulty variant of missing: the file is not looked for.
missing_never(p) == FALSE

\* path.exists(), for paths beside a configuration that is a file: whether the
\* file can be read shows later.
missing(p) ==
    p \in Beside /\ config_url \in File /\ published[locate(p)] = None

\* Faulty variant of Resolve: a file that is missing is left out.
Resolve_leaving_out ==
    /\ step = "resolve" /\ raw # Nowhere
    /\ LET l == Resolving   p == Head(raw[l]) IN
          /\ raw' = [raw EXCEPT ![l] = Tail(@)]
          /\ config' = IF missing(p) THEN config
                       ELSE [config EXCEPT ![l] = Append(@, locate(p))]
    /\ UNCHANGED <<config_url, step, todo, db, fetch, world>>

\* A file that is missing fails the whole configuration.
Resolve ==
    /\ step = "resolve" /\ raw # Nowhere
    /\ LET l == Resolving   p == Head(raw[l]) IN
       IF missing(p) THEN step' = "failed" /\ UNCHANGED <<raw, config>>
       ELSE /\ raw' = [raw EXCEPT ![l] = Tail(@)]
            /\ config' = [config EXCEPT ![l] = Append(@, locate(p))]
            /\ UNCHANGED step
    /\ UNCHANGED <<config_url, todo, db, fetch, world>>

Of(l, c) == [i \in DOMAIN c[l] |-> <<l, c[l][i]>>]

\* The sources of a configuration in the order compile() goes through them.
in_order(c) == Of("whitelist", c) \o Of("blacklist", c) \o Of("overrides", c)

Resolved ==
    /\ step = "resolve" /\ raw = Nowhere
    /\ step' = "compile"
    /\ todo' = in_order(config)
    /\ UNCHANGED <<config_url, raw, config, db, fetch, world>>

LoadNext ==
    /\ step = "compile" /\ fetching = "nothing" /\ todo # <<>>
    /\ to_fetch(Here)
    /\ UNCHANGED <<config_url, update, world>>

Compiled ==
    /\ step = "compile" /\ todo = <<>>
    /\ step' = "stored"
    /\ UNCHANGED <<config_url, raw, config, todo, db, fetch, world>>

\* The database is stored or the error logged; the loop sleeps.
Sleep ==
    /\ step \in {"stored", "failed"}
    /\ step' = "asleep" /\ raw' = Nowhere /\ config' = Nowhere /\ todo' = <<>> /\ db' = <<>>
    /\ seen' = [l \in Location |-> {}] /\ changes' = 0
    /\ UNCHANGED <<config_url, published, fetch>>

\* Somebody publishes a text at a location or takes what is there away.
Publish(l, t) ==
    /\ t # published[l]
    /\ published' = [published EXCEPT ![l] = t]
    /\ IF step = "asleep" THEN UNCHANGED <<seen, changes>>
       ELSE /\ changes < MaxChanges /\ changes' = changes + 1
            /\ seen' = [seen EXCEPT ![l] = @ \cup {t}]
    /\ UNCHANGED <<config_url, update, fetch>>
-----------------------------------------------------------------------------
UpdateStep == Wake \/ FetchStep \/ Resolve \/ Resolved \/ LoadNext \/ Compiled \/ Sleep

Next == UpdateStep \/ \E l \in Location : \E t \in Holds[l] : Publish(l, t)

Spec == Init /\ [][Next]_vars

\* The timers of the loop (the sleep) and of the HTTP client (5 seconds for a
\* connection, 60 for a response and its body) expire whatever servers do.
FairSpec == Spec /\ WF_vars(UpdateStep)
-----------------------------------------------------------------------------
(***************************************************************************)
(* Properties.                                                              *)
(***************************************************************************)
TypeOK ==
    /\ config_url \in ConfigUrl
    /\ published \in [Location -> Content]
    /\ step \in {"asleep", "load", "resolve", "compile", "stored", "failed"}
    /\ raw \in [List -> Seq(Path)] /\ config \in [List -> Seq(Location)]
    /\ todo \in Seq(List \X Location)
    /\ db \in Seq(List \X Location \X (Text \cup {None}))
    /\ fetching \in {"nothing", "file", "response", "body"}
    /\ attempt \in 0 .. Attempts /\ body \in Text \cup {None}
    /\ seen \in [Location -> SUBSET Content] /\ changes \in 0 .. MaxChanges

\* A configuration that can be loaded.
Readable(t) == t \in Text /\ RawConfig[t] # None

\* What is stored comes from one configuration that was published during the
\* update: all the sources it lists and no others, those of a list in the order
\* it has them in (which overrides depend on), however often it was replaced.
OneConfiguration ==
    step = "stored" =>
        \E t \in seen[config_url] : Readable(t) /\ \A l \in List : \E k \in 0 .. Len(db) :
            /\ {i \in DOMAIN db : db[i][1] = l} = k + 1 .. k + Len(RawConfig[t][l])
            /\ \A i \in DOMAIN RawConfig[t][l] : db[k + i][2] = locate(RawConfig[t][l][i])

\* Every text compiled was at its location at some time during the update, or
\* is the page a server has for what it does not have: no text is made up, cut
\* short or mistaken for that of another source when a fetch fails.
TextAsPublished ==
    \A i \in DOMAIN db : db[i][3] # None =>
        \/ db[i][3] \in seen[db[i][2]]
        \/ db[i][3] = ErrorPage /\ db[i][2] \in Url /\ None \in seen[db[i][2]]

\* The locations that only paths with a "./" lead to: Resolve has looked there.
LookedAt == {Joined[config_url][p] : p \in Beside} \ {Parsed[p] : p \in Path \ Beside}

\* Once the configuration is loaded, a file beside it is passed over only if it
\* was taken away during the update (one that was missing all the time fails the
\* update instead) or if it was there and could not be read.
SkippedForAReason ==
    \A i \in DOMAIN db :
        config_url \in File /\ db[i][3] = None /\ db[i][2] \in LookedAt
        => \/ None \in seen[db[i][2]] /\ seen[db[i][2]] # {None}
           \/ Unreadable \in seen[db[i][2]]

\* Loading a local configuration fails only for what is, or is not, in local
\* files: that no server answers does not keep the database from being replaced.
FailsLocally ==
    step = "failed" /\ config_url \in File =>
        \E t \in seen[config_url] :
            \/ ~Readable(t)
            \/ \E l \in List : \E i \in DOMAIN RawConfig[t][l] :
                  RawConfig[t][l][i] \in Beside /\ None \in seen[locate(RawConfig[t][l][i])]

\* With a local configuration local files decide what becomes of it: a file that
\* is missing beside it fails the update, unless it was there when it was looked
\* for; one that cannot be read does not, and neither does any server.
LocalFilesDecide == SkippedForAReason /\ FailsLocally

\* An update comes to an end whatever the servers do, also when none of them
\* answers: Lifecycle relies on it, since a shutdown waits for the update.
UpdateEnds == (step = "load") ~> (step = "asleep")
=============================================================================
