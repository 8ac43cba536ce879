----------------------------- MODULE Lifecycle -----------------------------
(***************************************************************************)
(* The life of the process: main (src/src/main.rs) from the validation of   *)
(* the configuration to the end, the tasks it tracks - the update loop, the *)
(* BIND child, the ACME loop and the challenge server (tls.rs), the admin   *)
(* server (admin.rs) - and the CancellationToken they share.                *)
(*                                                                          *)
(* What the tasks do while they run is the business of other modules; here  *)
(* an update is a task that takes its time, does not look at the token, and *)
(* has a second database on disk, and an HTTP server is a set of listeners  *)
(* whose clients come into it when the server is to stop.  A process that   *)
(* has ended, in whatever way, is started again (docker-compose.yaml,       *)
(* "restart: always").                                                      *)
(***************************************************************************)
EXTENDS Integers

CONSTANT Family     \* the address families of a unit's listeners: "v4", "v6"
ASSUME FamilyAssumption == "v4" \in Family

\* The arguments that decide what is started.
Args == [tls: BOOLEAN, forwarders: BOOLEAN]

\* A unit is a spawned future that serves HTTP on listeners of its own.
Units == {"challenge", "admin_http", "admin_https"}
https == <<"admin_https", "v4">>
Graceful == {"challenge", "admin_http"} \X Family
Listeners == Graceful \cup {https}
ListenersOf(u) == {l \in Listeners : l[1] = u}

\* The futures the TaskTracker knows.  The units of the admin server are awaited
\* by "admin"; the watcher, which passes the token on to the HTTPS server, is
\* awaited by nobody.
Tracked == {"update", "bind", "acme", "challenge", "admin"}
Tasks   == Tracked \cup Units \cup {"watcher"}

VARIABLES
    args,       \* the command line
    main,       \* where main is
    attempt,    \* of the validation of the configuration
    task,       \* the state of each future
    listener,   \* the listeners that accept connections
    open,       \* those that have stopped and have clients that are not served yet
    token,      \* the CancellationToken has been cancelled
    named,      \* the BIND child process
    server,     \* the DNS server
    engine,     \* who holds the Arc of the engine, and with it its database
    disk,       \* the databases on disk: the "live" one, the "next" one
    signal,     \* history: SIGINT or SIGTERM has been received
    lost        \* history: something has failed that the process cannot do without
control == <<args, main, attempt>>
http    == <<listener, open>>
data    == <<engine, disk>>
service == <<named, server, data>>
history == <<signal, lost>>
vars == <<control, task, http, token, service, history>>

Nothing == [t \in Tasks |-> "absent"]

Init ==
    /\ args \in Args
    /\ main = "validate" /\ attempt = 1
    /\ task = Nothing /\ listener = {} /\ open = {} /\ token = FALSE
    /\ named = "none" /\ server = "none" /\ engine = {} /\ disk = {}
    /\ signal = FALSE /\ lost = FALSE

Over    == main \in {"stopped", "failed", "killed"}
Leaving == main \in {"returning", "failing"}

Quiet(t) == task[t] \in {"absent", "ended"}

\* A holder drops its Arc: the last one takes the live database with it.
Releases(holder) ==
    /\ engine' = engine \ {holder}
    /\ disk' = IF engine' = {} THEN disk \ {"live"} ELSE disk
-----------------------------------------------------------------------------
(***************************************************************************)
(* main, up to the select!.                                                 *)
(***************************************************************************)
Proceed(from, to) == main = from /\ main' = to

\* main returns an error or panics, and what it holds itself is dropped: the
\* server with the handler, the handler with the engine.
Exit ==
    /\ main' = "failing"
    /\ server' = "stopped"
    /\ Releases("handler")
    /\ UNCHANGED <<args, attempt, task, http, token, named, history>>

\* With the loop its counter goes.
ValidateOk ==
    /\ Proceed("validate", "new")
    /\ attempt' = 1
    /\ UNCHANGED <<args, task, http, token, service, history>>

\* Faulty variant of Retry: one attempt too many.
Retry_once_more ==
    /\ main = "validate" /\ attempt <= 5
    /\ attempt' = attempt + 1
    /\ UNCHANGED <<args, main, task, http, token, service, history>>

\* The configuration could not be loaded: main waits and tries again.
Retry ==
    /\ main = "validate" /\ attempt < 5
    /\ attempt' = attempt + 1
    /\ UNCHANGED <<args, main, task, http, token, service, history>>

GiveUp == main = "validate" /\ attempt >= 5 /\ Exit

Spawn(ts) == [t \in Tasks |-> IF t \in ts THEN "starting" ELSE task[t]]

\* AdblockEngine::new with its empty database, the update loop with an Arc of
\* its own and, without forwarders, BIND.  main's Arc goes to the handler.
StartTasks ==
    /\ Proceed("new", "listen")
    /\ task' = Spawn({"update"} \cup IF args.forwarders THEN {} ELSE {"bind"})
    /\ engine' = {"handler", "update"}
    /\ disk' = {"live"}
    /\ UNCHANGED <<args, attempt, http, token, named, server, history>>

\* The UDP and TCP sockets are registered, and the server answers from now on;
\* with TLS, setup_tls follows (that the domain is missing shows before that).
Listen ==
    /\ Proceed("listen", IF args.tls THEN "tls" ELSE "admin")
    /\ server' = "answering"
    /\ task' = Spawn(IF args.tls THEN {"acme", "challenge"} ELSE {})
    /\ UNCHANGED <<args, attempt, http, token, named, data, history>>

\* The DoT and DoH listeners are registered.
ListenTls ==
    /\ Proceed("tls", "admin")
    /\ UNCHANGED <<args, attempt, task, http, token, service, history>>

\* Whatever fails in between ends main with an error: the first database, a
\* socket, or (a panic) TLS without a domain or an address.
StartFails == main \in {"new", "listen", "tls"} /\ Exit

StartAdmin ==
    /\ Proceed("admin", "select")
    /\ task' = Spawn({"admin"})
    /\ UNCHANGED <<args, attempt, http, token, service, history>>

\* select! polls sigint() and sigterm(), which install their handlers.
AwaitSignals ==
    /\ Proceed("select", "running")
    /\ UNCHANGED <<args, attempt, task, http, token, service, history>>

\* select! has ended: the token is cancelled and main waits for its tasks.
Shutdown ==
    /\ main' = "waiting"
    /\ token' = TRUE
    /\ UNCHANGED <<args, attempt, task, http, service>>

\* A handler cannot be installed: the error is logged, and select! ends.
SignalFails == main = "select" /\ Shutdown /\ lost' = TRUE /\ UNCHANGED signal

Signal == main = "running" /\ Shutdown /\ signal' = TRUE /\ UNCHANGED lost

AllEnded == \A t \in Tracked : Quiet(t)

\* tracker.wait() is the branch of select! that is ready.
EndedPrematurely ==
    main \in {"select", "running"} /\ AllEnded /\ Shutdown /\ UNCHANGED history
-----------------------------------------------------------------------------
(***************************************************************************)
(* The end of the process.                                                  *)
(***************************************************************************)
\* tracker.wait() has returned.
Waited ==
    /\ Proceed("waiting", "stopping")
    /\ AllEnded
    /\ UNCHANGED <<args, attempt, task, http, token, service, history>>

\* The server has shut down and main returns.
StopServer ==
    /\ Proceed("stopping", "returning")
    /\ server' = "stopped"
    /\ Releases("handler")
    /\ UNCHANGED <<args, attempt, task, http, token, named, history>>

StopFails == main = "stopping" /\ Exit

\* When main has returned the runtime drops the futures that are left, while
\* others still run, and with each what it owns: the update loop its Arc and the
\* database it is filling, a unit its listeners and its clients.
Drops(t) ==
    /\ Leaving /\ ~Quiet(t)
    /\ task' = [task EXCEPT ![t] = "ended"]
    /\ listener' = listener \ ListenersOf(t)
    /\ open' = open \ ListenersOf(t)
    /\ IF t = "update"
       THEN /\ engine' = engine \ {"update"}
            /\ disk' = (IF engine' = {} THEN disk \ {"live"} ELSE disk) \ {"next"}
       ELSE UNCHANGED data
    /\ UNCHANGED <<control, token, server, history>>

\* Faulty variant of DropFuture: the child is spawned without kill_on_drop.
DropFuture_no_kill(t) == Drops(t) /\ UNCHANGED named

\* The task of BIND owns the child, which is killed when it is dropped.
DropFuture(t) ==
    /\ Drops(t)
    /\ named' = IF t = "bind" /\ named = "running" THEN "dead" ELSE named

\* No future is left: the process ends.
Finish ==
    /\ Leaving /\ \A t \in Tasks : Quiet(t)
    /\ main' = IF main = "returning" THEN "stopped" ELSE "failed"
    /\ UNCHANGED <<args, attempt, task, http, token, service, history>>

\* The process is gone and nothing is dropped: what it has on disk stays there,
\* and the child is left to itself.
Kill ==
    /\ main' = "killed"
    /\ server' = "stopped"
    /\ task' = [t \in Tasks |-> IF task[t] = "absent" THEN "absent" ELSE "ended"]
    /\ listener' = {} /\ open' = {} /\ engine' = {}
    /\ UNCHANGED <<args, attempt, token, named, disk, lost>>

\* Before their handlers are installed the signals have their default action.
SignalTooEarly ==
    /\ main \in {"validate", "new", "listen", "tls", "admin", "select"}
    /\ signal' = TRUE
    /\ Kill

\* SIGKILL, or no memory left.
Crash == ~Over /\ Kill /\ UNCHANGED signal

\* Docker starts the program again.
Restart ==
    /\ Over
    /\ main' = "validate" /\ attempt' = 1
    /\ task' = Nothing /\ listener' = {} /\ open' = {} /\ token' = FALSE
    /\ named' = "none" /\ server' = "none" /\ engine' = {} /\ disk' = {}
    /\ signal' = FALSE /\ lost' = FALSE
    /\ UNCHANGED args
-----------------------------------------------------------------------------
(***************************************************************************)
(* The tasks.                                                               *)
(***************************************************************************)
Becomes(t, from, to) ==
    /\ task[t] = from
    /\ task' = [task EXCEPT ![t] = to]

\* run_update has come to its end, with whatever result: one of the databases
\* is destroyed, the other is the live one, and the loop sleeps.
UpdateEnds ==
    /\ Becomes("update", "running", "sleeping")
    /\ disk' = disk \ {"next"}
    /\ UNCHANGED <<control, http, token, named, server, engine, history>>

\* An update begins, at once or when the interval is over.  When the token is
\* cancelled at the same time, select! takes either branch.
UpdateBegins ==
    /\ \/ Becomes("update", "starting", "running")
       \/ Becomes("update", "sleeping", "running")
    /\ disk' = disk \cup {"next"}
    /\ UNCHANGED <<control, http, token, named, server, engine, history>>

\* Faulty variant of UpdateCancelled: the loop looks at the token only between
\* sleeping and updating, where nothing waits for it.
UpdateCancelled_never == FALSE /\ UNCHANGED vars

UpdateCancelled ==
    /\ token
    /\ Becomes("update", "sleeping", "ended")
    /\ Releases("update")
    /\ UNCHANGED <<control, http, token, named, server, history>>

SpawnBind ==
    /\ Becomes("bind", "starting", "running")
    /\ named' = "running"
    /\ UNCHANGED <<control, http, token, server, data, history>>

\* Faulty variant of SpawnBindFails: the failure is logged and no more.
SpawnBindFails_logged ==
    /\ Becomes("bind", "starting", "ended")
    /\ lost' = TRUE
    /\ UNCHANGED <<control, http, token, service, signal>>

SpawnBindFails ==
    /\ Becomes("bind", "starting", "ended")
    /\ token' = TRUE
    /\ lost' = TRUE
    /\ UNCHANGED <<control, http, service, signal>>

\* The child dies of its own.
NamedDies ==
    /\ named = "running" /\ ~Over
    /\ named' = "dead"
    /\ lost' = TRUE
    /\ UNCHANGED <<control, task, http, token, server, data, signal>>

\* child.wait() has returned.
BindEnded ==
    /\ named = "dead"
    /\ Becomes("bind", "running", "ended")
    /\ token' = TRUE
    /\ UNCHANGED <<control, http, service, history>>

\* The token is cancelled: child.kill() also waits for the child.
BindCancelled ==
    /\ token
    /\ Becomes("bind", "running", "ended")
    /\ named' = "dead"
    /\ UNCHANGED <<control, http, token, server, data, history>>

\* The stream of ACME events is not meant to end.
AcmeStreamEnds ==
    /\ Becomes("acme", "starting", "ended")
    /\ token' = TRUE
    /\ lost' = TRUE
    /\ UNCHANGED <<control, http, service, signal>>

AcmeCancelled ==
    /\ token
    /\ Becomes("acme", "starting", "ended")
    /\ UNCHANGED <<control, http, token, service, history>>

\* The admin server spawns its units: HTTPS only with TLS.
AdminServes ==
    /\ task["admin"] = "starting"
    /\ task' = [Spawn({"admin_http"} \cup IF args.tls THEN {"admin_https"} ELSE {})
                    EXCEPT !["admin"] = "running"]
    /\ UNCHANGED <<control, http, token, service, history>>

\* Faulty variant of AdminEnds: only the HTTP unit is awaited.
AdminEnds_http_only ==
    /\ task["admin_http"] = "ended"
    /\ Becomes("admin", "running", "ended")
    /\ UNCHANGED <<control, http, token, service, history>>

\* http_handle and https_handle have been awaited.
AdminEnds ==
    /\ \A u \in {"admin_http", "admin_https"} : Quiet(u)
    /\ Becomes("admin", "running", "ended")
    /\ UNCHANGED <<control, http, token, service, history>>
-----------------------------------------------------------------------------
(***************************************************************************)
(* The HTTP servers.                                                        *)
(***************************************************************************)

\* A unit leaves the start, to run or to end.  The HTTPS unit has spawned its
\* watcher before it binds its socket.
Started(u, to) ==
    /\ task[u] = "starting"
    /\ task' = IF u = "admin_https" THEN [task EXCEPT ![u] = to, !["watcher"] = "running"]
               ELSE [task EXCEPT ![u] = to]

\* Both address families of a unit are bound.
UnitListens(u) ==
    /\ Started(u, "running")
    /\ listener' = listener \cup ListenersOf(u)
    /\ UNCHANGED <<control, open, token, service, history>>

\* Faulty variant of UnitFails: no unit can be done without.
UnitFails_cancelling(u) ==
    /\ Started(u, "ended")
    /\ token' = TRUE
    /\ lost' = (lost \/ u = "challenge")
    /\ UNCHANGED <<control, http, service, signal>>

\* One of them cannot be bound: without its challenge server the process stops,
\* without its admin pages it goes on.
UnitFails(u) ==
    /\ Started(u, "ended")
    /\ token' = (token \/ u = "challenge")
    /\ lost' = (lost \/ u = "challenge")
    /\ UNCHANGED <<control, http, service, signal>>

\* The watcher calls Handle::shutdown.
WatcherEnds ==
    /\ token
    /\ Becomes("watcher", "running", "ended")
    /\ UNCHANGED <<control, http, token, service, history>>

\* On the token a listener accepts no more connections, and its clients may have
\* requests that are not finished.  The HTTPS listener stops when its watcher has
\* told it so, and ends these too.
ListenerStops(l) ==
    /\ l \in listener
    /\ IF l = https THEN task["watcher"] = "ended" ELSE token
    /\ listener' = listener \ {l}
    /\ open' \in {open, open \cup ({l} \cap Graceful)}
    /\ UNCHANGED <<control, task, token, service, history>>

\* It ends with an error, which is logged; nobody waits for its clients.
ListenerFails(l) ==
    /\ l \in listener
    /\ listener' = listener \ {l}
    /\ UNCHANGED <<control, task, open, token, service, history>>

\* The last request is finished, or its client is gone.
ClientsServed(l) ==
    /\ l \in open
    /\ open' = open \ {l}
    /\ UNCHANGED <<control, task, listener, token, service, history>>

\* A unit ends with the last of its listeners, and with_graceful_shutdown ends
\* when the clients are served, however long they take.
UnitEnds(u) ==
    /\ (listener \cup open) \cap ListenersOf(u) = {}
    /\ Becomes(u, "running", "ended")
    /\ UNCHANGED <<control, http, token, service, history>>
-----------------------------------------------------------------------------
MainStep ==
    \/ ValidateOk \/ Retry \/ GiveUp
    \/ StartTasks \/ Listen \/ ListenTls \/ StartFails \/ StartAdmin
    \/ AwaitSignals \/ SignalFails \/ EndedPrematurely
    \/ Waited \/ StopServer \/ StopFails

\* The end of the runtime.
RuntimeStep == Finish \/ \E t \in Tasks : DropFuture(t)

BindStep  == SpawnBind \/ SpawnBindFails \/ BindEnded \/ BindCancelled
AdminStep == AdminServes \/ AdminEnds
UnitStep(u) == UnitListens(u) \/ UnitFails(u) \/ UnitEnds(u)

\* When main is over no future runs any more.
TaskStep ==
    \/ UpdateEnds \/ UpdateBegins \/ UpdateCancelled
    \/ BindStep
    \/ AcmeStreamEnds \/ AcmeCancelled
    \/ AdminStep
    \/ \E u \in Units : UnitStep(u)
    \/ WatcherEnds
    \/ \E l \in Listeners : ListenerStops(l) \/ ListenerFails(l)

Next ==
    \/ MainStep \/ RuntimeStep \/ Signal \/ SignalTooEarly \/ Crash \/ Restart
    \/ ~Over /\ (TaskStep \/ \E l \in Listeners : ClientsServed(l))
    \/ NamedDies

Spec == Init /\ [][Next]_vars

\* What a future or listener does once and for all when it can go on.
Poll ==
    \/ BindStep \/ AcmeCancelled \/ AdminStep \/ WatcherEnds
    \/ \E u \in Units : UnitStep(u)
    \/ \E l \in Listeners : ListenerStops(l)

\* Futures that can go on are polled, and dropped at the end; an update ends, as
\* every fetch has a time limit and a number of attempts.  select! takes one of
\* its ready branches at random, so that the update loop, coming back to it
\* again and again with the token cancelled, takes that branch in the end.  A
\* process that has ended is started again.  Clients do what they like.
Fairness ==
    /\ WF_vars(MainStep \/ RuntimeStep \/ Restart)
    /\ WF_vars(~Over /\ (UpdateEnds \/ (task["update"] = "starting" /\ UpdateBegins)))
    /\ SF_vars(~Over /\ UpdateCancelled)
    /\ WF_vars(~Over /\ Poll)

FairSpec == Spec /\ Fairness
-----------------------------------------------------------------------------
(***************************************************************************)
(* Properties.                                                              *)
(***************************************************************************)
TypeOK ==
    /\ args \in Args
    /\ main \in {"validate", "new", "listen", "tls", "admin", "select", "running",
                 "waiting", "stopping", "returning", "failing", "stopped", "failed",
                 "killed"}
    /\ attempt \in 1 .. 5
    /\ task \in [Tasks -> {"absent", "starting", "running", "sleeping", "ended"}]
    /\ listener \subseteq Listeners /\ open \subseteq Graceful
    /\ token \in BOOLEAN
    /\ named \in {"none", "running", "dead"}
    /\ server \in {"none", "answering", "stopped"}
    /\ engine \subseteq {"handler", "update"} /\ disk \subseteq {"live", "next"}
    /\ signal \in BOOLEAN /\ lost \in BOOLEAN

\* In an orderly shutdown the DNS server goes last, when no update is half done,
\* no listener is up and BIND is gone, although main only waits for some of the
\* futures that own these.  The one future that may be left by then is the
\* watcher of an HTTPS server that has failed, which the token lets go on.
NothingLeftBehind ==
    main \in {"stopping", "returning", "stopped"} =>
        /\ \A t \in Tasks : Quiet(t) \/ (t = "watcher" /\ token /\ main # "stopped")
        /\ listener = {}
        /\ named # "running"
        /\ "next" \notin disk

\* Only a kill leaves a database on disk, or a BIND child running, that no later
\* process will remove: not a shutdown, a failed start or an error at the end,
\* in whatever order the handler, the update loop in the middle of an update and
\* the task of BIND are dropped.
LeftOnlyByKill ==
    main \in {"stopped", "failed"} => disk = {} /\ named # "running"

\* Nothing stops the process but a signal or the loss of BIND, of the ACME loop,
\* of the challenge server or of the means to receive signals: neither failing
\* updates nor an admin server that cannot start put an end to name resolution.
StopsForAReason ==
    token \/ main \in {"waiting", "stopping", "returning", "stopped"} => signal \/ lost

\* No client keeps a request to the admin or the challenge server open for ever.
ClientsLeave == \A l \in Graceful : []<>(l \notin open)

\* A signal ends the process, even when it arrives in the middle of an update;
\* and so does the loss of BIND, of the ACME loop or of the challenge server:
\* the process does not live on with a resolver or a certificate missing.  This
\* takes clients that finish: graceful shutdown has no time limit, and one open
\* request to an admin page keeps the process, with BIND gone, until it ends.
ReasonEndsProcess == ClientsLeave => (signal \/ lost ~> Over)

\* Something the process cannot do without has failed, or it has been told to end.
Fault ==
    \/ Retry \/ GiveUp \/ StartFails \/ StopFails \/ SignalFails
    \/ Signal \/ SignalTooEarly \/ Crash
    \/ NamedDies \/ SpawnBindFails \/ AcmeStreamEnds \/ UnitFails("challenge")

Resolving == server = "answering" /\ (args.forwarders \/ named = "running")

\* Once nothing fails any more, names are resolved and go on to be: however a
\* failure or a shutdown came about, clients that keep requests to the admin and
\* challenge servers open are all that can keep the process from a new start.
ServesAgain == ClientsLeave => ([]<><<Fault>>_vars \/ <>[]Resolving)
=============================================================================
