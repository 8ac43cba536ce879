# Bancuh DNS in TLA+

A model of the ad-blocking DNS server in `src/`: TLA+ modules translated from
its Rust source, TLC runs that check them on small instances, and theorems
about them that TLAPS checks for every instance. Source paths are relative to
the directory above this one: the crate is `src/`, its modules `src/src/*.rs`.

## 1. The system

| component | source | state | operations | interacts with |
|---|---|---|---|---|
| key-value store | `db.rs` | three RocksDB directories per database | `create`, `put`, `put_alias`, `get`, `contains`, `Drop` | filled by the compiler, read by the engine |
| engine | `engine.rs` | an `ArcSwap` of a database | `new`, `run_update`, `get_redirect`, `is_blocked` | called by the update loop and by every request |
| update loop | `main.rs` 187-209 | asleep or updating | wake, update, be cancelled | engine, CancellationToken |
| compiler | `compiler/` | none of its own | `compile`, `load_*` | configuration, fetching, parsers; writes the new database |
| line parsers | `compiler/parser/` | none | `parse` | called for every line of a source |
| configuration, fetching | `config/`, `fetch/` | none | `Config::load`, `fetch` | files and HTTP servers |
| request handler | `handler.rs` | one task per request | `handle_request` | rate limiter, engine, resolver, client, query log |
| forward resolver | `resolver.rs` | hickory's | `lookup` | BIND child or forwarders |
| query log | `query_log.rs` | a deque per address behind one mutex | `insert`, `get_logs`, `active_ips` | written by requests, read by the admin pages |
| rate limiter | `rate_limiter.rs` | a bucket per address prefix | `mask_ip`, `check_key` | asked by every request |
| process | `main.rs`, `bind.rs` | tracked tasks, token, BIND child, DNS server | start, signals, shutdown | everything |
| admin server | `admin.rs` | an HTTP unit of two listeners, an HTTPS unit with a watcher of the token | serve, shut down | query log, token, HTTP clients |
| TLS and ACME | `tls.rs` | ACME loop, challenge server | serve, cancel | token |
| sockets | `net.rs` | none | `bind_tcp`, `bind_udp` | |

Requests run as tasks on several threads, beside the one update loop. What they
share is the `ArcSwap` (lock free; a database is dropped by whoever lets go of
it last), the query log (one mutex per operation), governor's map and, at the
end of the process, the token.

What is hard: the lifetimes of databases under readers; two loads of the
`ArcSwap` in one query; an update that fails half way, line by line, source by
source or as a whole, or whose configuration and sources change while it reads
them; greedy expressions over whatever stands on a line; log entries stamped
before the lock is taken, and a page made of two looks at the log; the fall-back
from a failed response to an error response; a shutdown in which every future
must end without being told when, a future that nobody awaits among them, and
which waits for HTTP clients without a time limit; futures dropped in any order
when `main` has returned; a process that is killed and started again.
`PROJECT.json` lists these hazards at their lines, with the properties that watch
them.

What makes each component correct:
- store: a query is answered by the most specific rule that covers it;
- engine: each call is answered from one policy; no database is destroyed under
  a reader, seen before it is complete, changed afterwards, or left behind;
- update loop: whatever failed before, the published lists arrive in the end;
- configuration, fetching: what is compiled comes from one configuration and from
  texts that were published; only local files decide whether a local
  configuration can be loaded; an update ends;
- line parsers: a rule is taken as written or not at all;
- handler: one response, the one the policy calls for, and a truthful log;
- query log: bounded, and ordered well enough for what its readers assume;
- rate limiter: nobody is refused for the traffic of others;
- admin page: a client that sees its queries is itself among the active ones counted;
- process: it ends when it must (once the clients of its HTTP servers let it),
  only then, leaves nothing behind unless it is killed, and serves again after it
  has been started again.

## 2. The modules

| module | models | correspondence |
|---|---|---|
| `Lookup` | `normalize_name`, the key list, `get`, `put` as operators | a name is its labels and whether it ends in a dot; the content of a store is a partial function from names to values |
| `DomainStore` | one store over a sequence of puts | `Put`, `PutAlias`; the reference definition (`Covers`, `Beats`) never mentions keys |
| `PolicyService` | what the engine promises | one policy, replaced as a whole; each call is answered from the policy of one instant between call and return |
| `AdblockEngine` | engine, databases, update loop, compiler, the engine part of a query | `current` is the ArcSwap, `building` is `new_db`, `retiring` the old Arc inside `store()`, `guard[r]` the guard of `load()`; `Release` is the drop of an Arc; one action per step between which other threads can act |
| `EngineHistory` | the same with a history variable | for what the documentation says of queries in flight |
| `Sources` | one update as a reader of files and servers: `Config::load`, path resolution, `fetch` | `step` is where `run_update` is, `fetching` and `attempt` where the current fetch is; `published` is the outside world, which changes at any step; `seen` is history |
| `LineParser` | `parse_domain`, `parse_host`, `parse_cname` | one operator per expression, as the set of its matches and the greedy choice among them; a line grows piece by piece |
| `QueryLog` | the log store and the stamping before it | `Insert` is a whole critical section; an entry is its `query_time` |
| `AdminPages` | the HTML page | extends `QueryLog` by requests that call `get_logs` and `active_ips` in two steps |
| `Handler` | `handle_request`, `do_handle_request`, `Resolver::lookup` | composes `PolicyService` and `QueryLog` by INSTANCE; steps end at awaits and at calls into shared state |
| `RateLimiter` | `mask_ip` and the check | an address is its digits; governor is a token bucket in units of 1/rps second |
| `Lifecycle` | `main`, the tracked tasks, their units and the watcher, listeners and clients, token, child, databases on disk and who holds them, kills, restarts | `main` is a program counter; `Exit` is an error return or panic, `StopServer` the regular return; after either the runtime drops the futures that are left one by one (`DropFuture`) while others still run, until `Finish`; `Kill` drops nothing; `Restart` is `restart: always` of docker-compose.yaml |
| `MC*` | instances | |
| `DomainStore_proofs`, `AdblockEngine_proofs`, `QueryLog_proofs`, `Handler_proofs`, `LineParser_proofs`, `Sources_proofs`, `RateLimiter_proofs`, `Lifecycle_proofs` | the theorems about these modules | `QueryLog_proofs` has those about `AdminPages` too |

How they fit together: `DomainStore` and `AdblockEngine` extend `Lookup`.
`AdblockEngine` is shown to implement `PolicyService`, with
`policy <- content[current]` and the answer of a call fixed when it loads the
`ArcSwap`. `Handler` is built on `PolicyService` and not on `AdblockEngine`: what
it shows holds for any engine that implements the service. `Sources` is the update
of `AdblockEngine` seen from the other side: there a fetch is one step that
succeeds or not and its text is what matters, here the attempts and the text's
origin are. `LineParser` gives the constant `Parsed` of `AdblockEngine` its
meaning. `Lifecycle` uses of the others that an update ends (`UpdateEnds` of
`Sources`) and that no more than two databases exist without readers (`OpenBound`
of `AdblockEngine`).

Definitions called "faulty variant of ..." are plausible bugs: put in the place
of the definition they vary, each must make the property that `PROJECT.json`
pairs it with fail. They are never used otherwise.

### Abstractions

- Database directories: the three stores of an `AdblockDB` are created,
  destroyed and named together.
- A name is a sequence of labels; the case is that of the compiled lists (the
  parsers and the server both convert to lower case). Queries end in a dot.
- In `AdblockEngine` a source is what the parsers make of it (`Parsed`), and
  fetching it is one step that succeeds or not.
- In `Sources` a text is a model value, and YAML a partial function (`RawConfig`)
  from texts to configurations. The formats of sources are left out, since
  nothing depends on them before the parsers. A path that is no URL and does not
  begin with `./` is a file wherever it is; joining paths is a table (`Joined`).
  A file can be there and be `Unreadable`: not UTF-8, without permission, a
  directory. An update begins when its empty database has been made; that this
  can fail it is `CreateFails` of `AdblockEngine`.
  Only paths with `./` are checked before they are fetched (`config/source.rs`), so
  that `LocalFilesDecide` promises nothing of a file that a path without it names.
- In `LineParser` characters stand for the classes the expressions tell apart; an
  IPv4 address and the word CNAME are one character each. IDNA is the mapping to
  lower case; letters outside ASCII are left out.
- `AdminPages` keeps of a page the address it is for, the time of the newest query
  on it, and which addresses `active_ips` counts, not only how many.
- In `Lifecycle` a process has up to two databases: the `live` one, which goes
  with the last `Arc` of the engine (the handler has one, the update loop the
  other), and during an update the `next` one, which is the loop's. Those of a
  killed process are not followed beyond its end; nothing in the code ever looks
  at them again.
- An HTTP listener stops accepting when the token is cancelled (the HTTPS one when
  its watcher has run); what remains are requests that are not finished, `open`.
  Those of the servers with graceful shutdown end when their clients like.
  `axum_server::Handle::shutdown` ends connections at once.
- In `AdblockEngine` and `Lifecycle` destroying a database succeeds: `db.rs` 109
  logs the result of `DB::destroy` and goes on, so that one which fails leaves its
  directory to nobody. `OpenExactlyHeld`, `EventuallyDestroyed` and
  `LeftOnlyByKill` say that it is attempted, once, at the right time.
- A put that fails is ignored by the code, so any subset of a source's lines may
  arrive; all puts of a source are one step, which nobody can see (`BuildInvisible`).
- `GetFails` covers every `?` on a read.
- The upstream server ends a lookup in one of five ways. Hickory reports a
  response without records as `NoRecordsFound` together with its response code,
  SERVFAIL and REFUSED included; that is external and taken from its interface.
- A send that fails has not reached the client.
- Sockets are IPv6-only (`net.rs`), so no IPv4-mapped address arrives and
  `normalize_ip` has no effect.
- `mask_ip` is modelled as the release build of the Dockerfile computes it: the
  shift count is taken modulo the width.

## 3. The runs

Runs that must pass:

| run | question | bounds, and why they are enough |
|---|---|---|
| `domain_store` | Does the key list find the most specific rule, and is a put local? | three puts over names of up to three labels: the exact name and two wildcards, in every order, are all the competitors there can be for a name of three labels |
| `engine_guards` | Lifetimes, visibility, immutability | two readers, five databases (current, building or retiring, one per reader, one spare), one list with one rule that comes and goes |
| `engine_live` | One policy per call; do the published lists arrive, are old databases destroyed, queries decided? | one reader, two databases (an update waits until the reader has let go; more overlap is in `engine_guards` and proved), two configurations, one with its source both as whitelist and as blacklist, one with two sources of overrides, each with two revisions |
| `query_log` | Cap, order, what the readers assume, does a page count its viewer | two tasks, so that one can overtake the other; two addresses; one page; cap 3, age 2, lag 1, clock up to 5: entries expire, are capped and are overtaken |
| `handler` | One response, as the policy says; does every request end; is the log truthful? | one task after another request, two addresses, four policies, two record types, a cap of 1. That requests do not disturb each other is proved for any number of tasks |
| `line_parser` | Is a rule taken as written? | lines of up to five pieces of ten; names of 2 to 9 characters before the last dot and 1 to 2 after it for 2 to 200 and 2 to 6, labels of 4 for 63: names that fit, that are too short, too long or under a top-level domain that is too long all occur, alone and behind one another. For zone files the lines are too short to show what the expression makes of a comment with a whole override in it: that half of `CommentNoRule` is left to the theorem |
| `sources` | One configuration, texts as published, whose failure is fatal, does an update end? | a configuration in a file or on a server, in two versions; three sources in all lists, one used twice; one of the files can be unreadable; five attempts, as in the code; two changes of the world per update, so that one thing can go and come back or two can change |
| `rate_limiter` | Is a client refused only for its own traffic? | two bits, prefix 1, rate 2, two families: two clients of one prefix, one of another, one of the other family |
| `lifecycle` | What is left behind, what stops the process, does it end when it must, does it serve again? | all arguments that matter, both address families, any number of restarts: no bound but those of the code |

`MaxPuts`, `MaxPieces`, `MaxTime`, `MaxLag` and `MaxChanges` are the only bounds in
guards. `MaxTime` bounds the clock; `MaxLag` is how long a handler may take between
stamping an entry and taking the lock. Deadlock is checked except in
`domain_store` and `line_parser`, where the puts and the pieces run out. Symmetry
is used in runs without liveness properties only.

Runs that must fail, each with what the repository says (`findings`):

| run | the repository says | the run shows |
|---|---|---|
| `history_in_flight` | `src/README.md:83`: "in-flight queries are unaffected" | a swap between the two calls of a query mixes two databases |
| `handler_empty` | `src/src/resolver.rs:50`: only "NoError response_code" gives an empty answer | so does an upstream SERVFAIL |
| `parser_entry_kept` | `src/src/compiler/parser/host.rs:60`: a hosts line is a rule for the name on it | a name whose top-level domain has more than six letters is cut, and another name becomes the rule: `phimsexhay.monster` of `src/data/blacklist.d/porn_custom.hosts:63` is stored as `phimsexhay.monste` |

Smaller disagreements between the code and its documentation, visible in the
models but without a run of their own:
- `src/README.md:84` has a failed update keep the existing database. That is so when
  the configuration cannot be loaded (`FailsLocally` says when); a source that
  cannot be fetched is skipped (`compiler/whitelist.rs` 42), and the database
  without its rules replaces the complete one.
- A response with an error status is not an error (`fetch/http.rs` 34): the page is
  parsed like any list (`TextAsPublished` has it as its exception).
- A line that holds two names, or a name and a comment that ends in what looks
  like one, is no rule at all, since the greedy expression takes all of it
  (`RuleOrNothing` has this as its exception); a commented hosts line is a rule,
  since the expression looks for an address anywhere (`host.rs` 15); a name with
  a single character before its last dot, such as `j.mp`, is none.
- `src/README.md:63` promises a retention of ten minutes; entries of a client that
  goes quiet are never evicted (`query_log.rs` 36; `Insert` is the only action that
  evicts).
- `src/README.md:75` has queries logged; those answered with an error code,
  NXDOMAIN for a blocked MX query included, are not (`RespondError`).
- `engine.rs` 54 has the old database dropped in `store()`; a query in flight keeps
  it and drops it later (`DropOld`, `Return`).
- `main.rs` 106 speaks of a maximum of requests per second; the bucket and its
  refill let almost twice as many through (`GroupSharesBucket` is the true bound).
- `main.rs` 233 and `tls.rs` 130 cancel the token when BIND or the challenge server
  is lost, so that the process ends and is started again; but it ends when all tracked
  tasks have (340, 348), graceful shutdowns without a time limit among them
  (`admin.rs` 147, `tls.rs` 148), and one client that keeps a request open keeps the
  process, with BIND dead and the DNS server answering errors. `ReasonEndsProcess` and `ServesAgain` say that nothing else can.
- `main.rs` 328: when a signal handler cannot be installed the error is logged and
  the process shuts down at once (`SignalFails`).
- `rate_limiter.rs` 18: prefix length 0 overflows the shift; a debug build panics, a
  release build masks nothing (`mask_ip`).
- `rate_limiter.rs` 10: the example keeps a group too many for a prefix of 48.

### Fairness

- Engine: weak fairness of the update loop as a whole and of each query's steps;
  tokio polls a task that can make progress, and every fetch is limited in time.
  No fairness for clients or for the publishers of lists: `EventuallyUpToDate`
  speaks of behaviours in which failures and changes stop.
- Handler: weak fairness of each task; hickory gives up on a silent server.
- Sources: weak fairness of the update as a whole. A fetch that waits either gets
  its response or runs into the time limits of the client (5 s for the connection,
  60 s in all); the interval of the loop expires. None for the outside world.
- Lifecycle: weak fairness of `main` with the end of the runtime and `Restart`
  (one condition for the three, since at most one of them has a step to make);
  weak fairness of the running update, which has an end (`UpdateEnds` of `Sources`);
  strong fairness of the cancelled branch of the update loop, because `select!`
  takes a ready branch at random and the loop comes back to it; weak fairness of
  all other polls together: each is done once and for all, so that they run out
  and all are made. None for losses, signals and kills, and none for HTTP clients:
  `ReasonEndsProcess` and `ServesAgain` have `ClientsLeave` as a premise, which says
  that no listener keeps unfinished requests for ever. Without it TLC shows the
  process waiting, BIND dead, for a request to the admin page. `Restart` is
  Docker's, so that `ServesAgain` says what the program and its supervisor do
  together.

## 4. The proofs

TLAPS checks these for every value of the constants, from the named assumptions
of the modules (constants have their types, special values differ from names).

`DomainStore`: `MostSpecific` is the pure fact: for every store and every query,
the first hit of the key list is the most specific covering rule. It rests on
`KeysAreCovers` (the keys are exactly the names that cover the query),
`EarlierIsLonger` (their order is that of their length) and `LeastNat` (a set of
naturals has a least element, from the library's theorem that < is well-founded).
`LookupCorrect`, `TypeCorrect` and `PutLocal` follow for the specification.

`AdblockEngine`: `TypeCorrect` first, with the phases of the update loop
(`Phases`: which of `building` and `retiring` is set where). `OpenExactlyHeld` is not
inductive: that a release destroys the right database needs to know that every
reference points to an open one, that the database being built is referred to by
nobody else, and that a reader holds a guard exactly where its program counter
says. `IInv` (types, phases and `Ownership`) is inductive; `Invariance` proves it,
action by action, with `ReleaseHeld` for all actions that end in a drop. From it:
`NoUseAfterDestroy`, `CompiledInPrivate`, `DiskBounded` (a counting argument over
the current database, the one being built or retired, and the readers that hold a
guard at the moment) and `SnapshotsImmutable`.

`Atomicity`, at the end of `AdblockEngine_proofs`, proves that the engine implements
`PolicyService`, the property `ImplementsPolicyService` of the run `engine_live`. A call takes
effect when it loads the ArcSwap. `RInv` adds to `IInv` what a query knows before it
is decided (`Undecided`): no call has returned, and the blacklist is asked only
about names off the whitelist. The argument is that a query which does not move
looks the same through the mapping (`StillLooksTheSame`), because the database it
holds exists and is not being built, hence does not change (`GuardedStays`);
`QueryRefines` then takes the steps of a query one by one, and `OthersRefine` shows
that every step of an update is `Publish` or shows nothing.

`QueryLog_proofs`: the fact about one insert is `InsertKeeps`: eviction and cap
together remove a prefix, and a fresh entry is removed only from a full deque and
then alone. `SkewBounded` is not inductive: it needs `Recent`, that no entry is
younger than the clock and no stamped entry older than the lag. `TypeCorrect`,
`CapHolds`, `SkewHolds` and `LossOnlyAtCap` follow for any cap, age and lag, and so
does `CountedUpToLag`: an entry is older than the last one of its deque, or younger
by the lag at most, so that the last one speaks for all of them. `PagesOnlyRead`
shows that a behaviour with pages is one of the log alone, which makes all of this
hold of `AdminPages`. That a viewer is counted (`ViewerCounted`) takes a fact about
a page between its two looks at the log (`Backed`): the deque of the very address
the page is for ends in an entry no older, by more than the lag, than the newest
query on the page, as long as that is not about to expire. It outlasts an insert
into that deque, with its evictions and the cap, because the new entry is the last
one then and is itself no older than the lag; `CountStep` takes it to the set that
`active_ips` counts.

`Handler_proofs`: the properties of the run `handler`, for any number of requests in
flight. `IInv` says of each task, by where it is, what it knows of its question
(`Asked`: the live policy is among those whose verdicts it has collected), what it
has been told (`Told`: if all those policies agree, the engine's answer so far
agrees with them), what it made of that (`Treated`) and what it has sent and
stamped (`Sent`). Each action is shown to keep it for its own task and to leave
the others alone (`StepOf`); the one action that touches all tasks is `Publish`,
which adds a verdict and so can only weaken what agreement says. `AtMostOnce`,
`PolicyRules` and `LogIsTrue` follow; `TypeCorrect` adds the types of the log.
`LogAsSpecified` and `EngineAsSpecified` close the composition: a behaviour of
requests is one of `QueryLog` and one of `PolicyService`, since each stamp is for a
client address, each question about a name of a query, and every other step leaves
them alone. Without it the theorems about the log would be about another log.

`LineParser_proofs`: the invariant is that `rule` is what the three parsers make of
`line`, so that the properties become facts about the operators, for lines of any
length, put together from any pieces, under any limits on the parts of a name.
`GreedyBest` gives the greedy choice its meaning: a set of matches that is not empty
has exactly one match that is longer than all others, in its first part or, with
first parts alike, in its second. On that rest the facts about each expression
(`DomainMatch`, `HostMatch`, `CnameMatch`: what a match begins and ends with).
`LegalIsName` and `NameIsLegal` show that the local test of each character in
`parse_domain_name` accepts just the names whose labels are legal (`IsName`),
`CheckedRule` that a rule passes all checks as
written, and `CheckedBlank` that a match across a blank passes none. For
`RulesAsWritten` a match that begins with a rule is shown to end with it or to run
on to a dot behind it (`NoLess`, `DomainTaken`, `HostTaken`); a comment cannot become
a name by being matched from another place (`CommentIsNoDomain`,
`CommentIsNoCname`). For `OverridesWhole` the greedy first part of an override is
shown to stop at the gap before CNAME (`NameTaken`) and the alias to take the rest
of the line but its last dot (`AliasTaken`). `TypeCorrect` says of every line that
what is stored is a legal name in lower case.

`Sources_proofs`: `TextAsPublished` and `FailsLocally` are not inductive: that a text was
published at its location needs to know that the response which is arriving was
(`Fetching`, `Honest`) and that the history holds what is published now
(`Recorded`); that a configuration fails for a file it names needs the paths that
are left to come from a version of it that was published (`Resolvable`); that an update
compiles one version needs an account of what it has compiled and what is left,
taken together (`Items`, `Listed`), for a fetch only moves a source from one to the
other; and that a file is only skipped when it has vanished or cannot be read needs
to know that it had been there when its path was resolved (`Found`, `Missed`). `NothingMadeUp`,
`OneVersion`, `LocalFiles`, `ServersCannotFail` and `TypeCorrect` follow for any
locations, texts, attempts and changes.

`RateLimiter_proofs`: both properties compare what a bucket lacks with what was
admitted in the last second, and neither is inductive, since a refill moves the
second on. `Balanced` states the comparison for the last j units, for every j up to
the rate: a refill takes the statement for j to the one for j + 1. `Sinking` says
that requests between two refills find ever lower levels, so that the set
`admitted` counts each of them. `OwnTraffic` and `PrefixShares` follow for any
addresses, prefix lengths and rate, with two facts about `mask_ip`: addresses with
the same key have the same prefix and, unless the prefix length is 0, the other way
round. With length 0 nothing is masked (`rate_limiter.rs` 18) and each address has a
bucket to itself, although all have the same prefix: `GroupSharesBucket` excludes
that case.

`Lifecycle_proofs`: `NothingLeftBehind` speaks of all futures, listeners, the child
and the half-filled database, while `main` waits for the tracked tasks only. `Owned`
closes the gap: a listener belongs to a unit that runs, a unit of the admin server to
an admin task that is still waiting for it, the child to the BIND task, the next
database to the update that runs. That the owner is there whenever something is
spawned needs to know what `main` has not spawned yet (`NotYet`). One future has no
owner, the watcher of the HTTPS server: it may be left when `main` goes on, with the
token cancelled, and is dropped before the process ends (`Settled`). `LeftOnlyByKill`
follows from no single step: whoever is dropped last, the handler, the update loop
or a loop in the middle of an update, `Owned` says that a database on disk has a
holder that has not ended, and a child its task; at `Finish` all have ended. A
`DropFuture` keeps this since each future takes along what it owns. `StopsForAReason`
needs to know that the update loop ends for nothing but a cancelled token
(`UpdateLasts`): without it all tasks could have ended by themselves. `Blamed` says
that a dead child has a reason while its task still looks after it. `TypeCorrect`,
`OrderlyEnd`, `OnlyKillLeaves` and `StopJustified` follow, for any address families
and restarts.

Only model-checked: liveness, which is out of the prover's reach
(`EventuallyUpToDate`, `EventuallyDestroyed`, `QueryAnswered`, `EveryRequestEnds`,
`UpdateEnds`, `ReasonEndsProcess`, `ServesAgain`).

## 5. Not modelled

- Names outside ASCII and their conversion (IDNA); YAML; the layout of HTML and
  JSON; what html_escape does.
- RocksDB, hickory, governor, axum, rustls-acme and named themselves: each is given
  by what the code can see of it. Certificates and their renewal are the business
  of rustls-acme; `tls.rs` only starts and stops it.
- Options of sockets (`net.rs`) and the parsing of arguments: no state.
- The construction of hickory's resolver (`resolver.rs`).
- Wall-clock steps: time in `QueryLog` only moves forward. An entry stamped before
  the clock is set back is fresh for longer, which no document speaks of.
- Directories of killed processes: nothing in the code reads or removes them.

## 6. How the project was built, and what could follow

The core first (`DomainStore`, `AdblockEngine` with `PolicyService`, `QueryLog`,
`Handler`, `RateLimiter`, `Lifecycle`), then what an update reads (`Sources`), what
it makes of a line (`LineParser`), the page (`AdminPages`) and crashes and restarts
(`Lifecycle`), with a proof of every safety property that a passing run checks.
What could follow: that `Sources` implements the one-step fetch of `AdblockEngine`,
which today is argued in section 2 and not proved. A refinement mapping does not
suffice for it: the text of a fetch is that of the moment the response begins, but
whether the source is skipped is decided later, when the body arrives or breaks
off, so that the mapping would have to know what is to come.
