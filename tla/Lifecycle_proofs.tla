-------------------------- MODULE Lifecycle_proofs --------------------------
(***************************************************************************)
(* The safety of the process' life, for any address families: what an       *)
(* orderly shutdown leaves behind, what only a kill does, and what can make *)
(* the process stop at all.  That it does stop when it has to is liveness   *)
(* and left to the run of MCLifecycle.                                      *)
(***************************************************************************)
EXTENDS Lifecycle, TLAPS

AdminUnits == {"admin_http", "admin_https"}

\* What has not been spawned yet while main is on its way to the select!.
NotYet ==
    /\ main \in {"validate", "new"} => \A t \in Tasks : task[t] = "absent"
    /\ main = "listen" => \A t \in Tasks \ {"update", "bind"} : task[t] = "absent"
    /\ main \in {"tls", "admin"} =>
            \A t \in {"admin", "watcher"} \cup AdminUnits : task[t] = "absent"

\* The update loop is spawned before the server listens, and goes for nothing
\* but a cancelled token until main returns.
Serving == main \in {"listen", "tls", "admin", "select", "running", "waiting", "stopping"}
UpdateLasts ==
    Serving => task["update"] # "absent" /\ (task["update"] = "ended" => token)

\* Whatever is up or on disk has an owner that has not ended.
Owned ==
    /\ \A l \in listener : task[l[1]] = "running"
    /\ \A u \in AdminUnits : Quiet(u) \/ task["admin"] = "running"
    /\ main # "killed" =>
          /\ named = "running" => task["bind"] = "running"
          /\ "live" \in disk => engine # {}
          /\ "next" \in disk => task["update"] = "running"
    /\ "update" \in engine => ~Quiet("update")

\* From the moment main goes on, no tracked task has anything left to do, and
\* when the process ends by itself no future is left.
Settled ==
    /\ main \in {"stopping", "returning", "stopped"} => AllEnded
    /\ main \in {"waiting", "stopping", "returning", "stopped"} => token
    /\ Leaving => Quiet("admin") /\ "handler" \notin engine
    /\ main \in {"stopped", "failed"} => \A t \in Tasks : Quiet(t)

\* BIND is gone for a reason while it is still looked after.
Blamed == named = "dead" /\ task["bind"] = "running" => signal \/ lost

Parts ==
    /\ NotYet /\ UpdateLasts /\ Owned /\ Settled /\ Blamed
    /\ StopsForAReason /\ LeftOnlyByKill

IInv == TypeOK /\ Parts
-----------------------------------------------------------------------------
(***************************************************************************)
(* Type correctness.                                                        *)
(***************************************************************************)
TaskState == {"absent", "starting", "running", "sleeping", "ended"}

LEMMA SpawnType ==
    ASSUME task \in [Tasks -> TaskState], NEW ts
    PROVE  Spawn(ts) \in [Tasks -> TaskState]
BY DEF Spawn, TaskState

LEMMA BecomesType ==
    ASSUME task \in [Tasks -> TaskState], NEW t, NEW from, NEW to \in TaskState,
           Becomes(t, from, to)
    PROVE  task' \in [Tasks -> TaskState]
BY DEF Becomes

LEMMA StartedType ==
    ASSUME task \in [Tasks -> TaskState], NEW u, NEW to \in TaskState, Started(u, to)
    PROVE  task' \in [Tasks -> TaskState]
BY DEF Started, TaskState

LEMMA ExitType == ASSUME TypeOK, Exit PROVE TypeOK'
BY DEF Exit, Releases, TypeOK, http, history

LEMMA MainTypes ==
    ASSUME TypeOK, MainStep
    PROVE  TypeOK'
<1>1. CASE ValidateOk
  BY <1>1 DEF ValidateOk, Proceed, TypeOK, http, service, data, history
<1>2. CASE Retry
  <2>1. attempt' \in 1 .. 5
    BY <1>2 DEF Retry, TypeOK
  <2> QED
    BY <1>2, <2>1 DEF Retry, TypeOK, http, service, data, history
<1>3. CASE GiveUp \/ StartFails \/ StopFails
  BY <1>3, ExitType DEF GiveUp, StartFails, StopFails
<1>4. CASE StartTasks
  <2>1. task' \in [Tasks -> TaskState]
    BY <1>4, SpawnType DEF StartTasks, TypeOK, TaskState
  <2> QED
    BY <1>4, <2>1 DEF StartTasks, Proceed, TypeOK, TaskState, http, history
<1>5. CASE Listen
  <2>1. task' \in [Tasks -> TaskState]
    BY <1>5, SpawnType DEF Listen, TypeOK, TaskState
  <2> QED
    BY <1>5, <2>1 DEF Listen, Proceed, TypeOK, TaskState, http, data, history
<1>6. CASE ListenTls \/ AwaitSignals \/ Waited
  BY <1>6 DEF ListenTls, AwaitSignals, Waited, Proceed, TypeOK, http, service, data, history
<1>7. CASE StartAdmin
  <2>1. task' \in [Tasks -> TaskState]
    BY <1>7, SpawnType DEF StartAdmin, TypeOK, TaskState
  <2> QED
    BY <1>7, <2>1 DEF StartAdmin, Proceed, TypeOK, TaskState, http, service, data, history
<1>8. CASE SignalFails \/ EndedPrematurely
  BY <1>8 DEF SignalFails, EndedPrematurely, Shutdown, TypeOK, http, service, data, history
<1>9. CASE StopServer
  BY <1>9 DEF StopServer, Proceed, Releases, TypeOK, http, history
<1> QED
  BY <1>1, <1>3, <1>4, <1>5, <1>6, <1>7, <1>8, <1>9, <1>2 DEF MainStep

LEMMA RuntimeTypes ==
    ASSUME TypeOK, RuntimeStep
    PROVE  TypeOK'
<1>1. CASE Finish
  BY <1>1 DEF Finish, TypeOK, http, service, data, history
<1>2. ASSUME NEW t \in Tasks, DropFuture(t) PROVE TypeOK'
  <2>1. /\ task' = [task EXCEPT ![t] = "ended"]
        /\ listener' \subseteq listener /\ open' \subseteq open
        /\ engine' \subseteq engine /\ disk' \subseteq disk
        /\ named' \in {"dead", named} /\ UNCHANGED <<control, token, server, history>>
    BY <1>2 DEF DropFuture, Drops, data
  <2>2. task' \in [Tasks -> TaskState]
    BY <2>1 DEF TypeOK, TaskState
  <2> QED
    BY <2>1, <2>2 DEF TypeOK, TaskState, control, history
<1> QED
  BY <1>1, <1>2 DEF RuntimeStep

LEMMA TaskTypes ==
    ASSUME TypeOK, TaskStep
    PROVE  TypeOK'
<1> DEFINE Http == \E l \in Listeners : ListenerStops(l) \/ ListenerFails(l)
           Start == \E u \in Units : UnitListens(u) \/ UnitFails(u)
<1>1. task' \in [Tasks -> TaskState]
  <2>1. task \in [Tasks -> TaskState]
    BY DEF TypeOK, TaskState
  <2>2. CASE AdminServes
    BY <2>1, <2>2, SpawnType DEF AdminServes, TaskState
  <2>3. CASE Http
    BY <2>1, <2>3 DEF ListenerStops, ListenerFails
  <2>4. CASE Start
    <3>1. \E u : \E to \in TaskState : Started(u, to)
      BY <2>4 DEF UnitListens, UnitFails, TaskState
    <3> QED
      BY <2>1, <3>1, StartedType
  <2>5. CASE ~ (AdminServes \/ Http \/ Start)
    <3>1. \E t, from : \E to \in TaskState : Becomes(t, from, to)
      BY <2>5 DEF TaskStep, BindStep, AdminStep, UnitStep, UpdateEnds, UpdateBegins,
           UpdateCancelled, SpawnBind, SpawnBindFails, BindEnded, BindCancelled,
           AcmeStreamEnds, AcmeCancelled, AdminEnds, UnitEnds, WatcherEnds, TaskState
    <3> QED
      BY <2>1, <3>1, BecomesType
  <2> HIDE DEF Http, Start
  <2> QED
    BY <2>2, <2>3, <2>4, <2>5
<1> HIDE DEF Http, Start
<1>2. listener' \subseteq Listeners /\ open' \subseteq Graceful
  BY DEF TypeOK, TaskStep, BindStep, AdminStep, UnitStep, UpdateEnds, UpdateBegins,
     UpdateCancelled, SpawnBind, SpawnBindFails, BindEnded, BindCancelled,
     AcmeStreamEnds, AcmeCancelled, AdminServes, AdminEnds, UnitListens, UnitFails,
     UnitEnds, WatcherEnds, ListenerStops, ListenerFails, ListenersOf, http
<1>3. UNCHANGED <<control, server>>
  BY DEF TaskStep, BindStep, AdminStep, UnitStep, UpdateEnds, UpdateBegins,
     UpdateCancelled, SpawnBind, SpawnBindFails, BindEnded, BindCancelled,
     AcmeStreamEnds, AcmeCancelled, AdminServes, AdminEnds, UnitListens, UnitFails,
     UnitEnds, WatcherEnds, ListenerStops, ListenerFails, service
<1>4. /\ named' \in {"none", "running", "dead"}
      /\ engine' \subseteq {"handler", "update"} /\ disk' \subseteq {"live", "next"}
  BY DEF TypeOK, TaskStep, BindStep, AdminStep, UnitStep, UpdateEnds, UpdateBegins,
     UpdateCancelled, Releases, SpawnBind, SpawnBindFails, BindEnded, BindCancelled,
     AcmeStreamEnds, AcmeCancelled, AdminServes, AdminEnds, UnitListens, UnitFails,
     UnitEnds, WatcherEnds, ListenerStops, ListenerFails, service, data
<1>5. token' \in BOOLEAN /\ signal' \in BOOLEAN /\ lost' \in BOOLEAN
  BY DEF TypeOK, TaskStep, BindStep, AdminStep, UnitStep, UpdateEnds, UpdateBegins,
     UpdateCancelled, SpawnBind, SpawnBindFails, BindEnded, BindCancelled,
     AcmeStreamEnds, AcmeCancelled, AdminServes, AdminEnds, UnitListens, UnitFails,
     UnitEnds, WatcherEnds, ListenerStops, ListenerFails, history
<1> QED
  BY <1>1, <1>2, <1>3, <1>4, <1>5 DEF TypeOK, TaskState, control

LEMMA TypeStep ==
    ASSUME TypeOK, [Next]_vars
    PROVE  TypeOK'
<1>1. CASE MainStep
  BY <1>1, MainTypes
<1>2. CASE RuntimeStep
  BY <1>2, RuntimeTypes
<1>3. CASE TaskStep
  BY <1>3, TaskTypes
<1>4. CASE Signal
  BY <1>4 DEF Signal, Shutdown, TypeOK, http, service, data
<1>5. CASE SignalTooEarly \/ Crash
  <2>1. Kill /\ signal' \in BOOLEAN
    BY <1>5 DEF SignalTooEarly, Crash, TypeOK
  <2>2. task' \in [Tasks -> TaskState]
    BY <2>1 DEF Kill, TypeOK, TaskState
  <2> QED
    BY <2>1, <2>2 DEF Kill, TypeOK, TaskState
<1>6. CASE Restart
  <2>1. task' \in [Tasks -> TaskState]
    BY <1>6 DEF Restart, Nothing, TaskState
  <2>2. /\ main' = "validate" /\ attempt' = 1 /\ args' = args /\ listener' = {} /\ open' = {}
        /\ token' \in BOOLEAN /\ signal' \in BOOLEAN /\ lost' \in BOOLEAN
    BY <1>6 DEF Restart
  <2>3. named' = "none" /\ server' = "none" /\ engine' = {} /\ disk' = {}
    BY <1>6 DEF Restart
  <2> QED
    BY <2>1, <2>2, <2>3 DEF TypeOK, TaskState
<1>7. CASE NamedDies
  BY <1>7 DEF NamedDies, TypeOK, control, http, data
<1>8. ASSUME NEW l \in Listeners, ClientsServed(l) PROVE TypeOK'
  BY <1>8 DEF ClientsServed, TypeOK, control, service, data, history
<1>9. CASE UNCHANGED vars
  BY <1>9 DEF vars, TypeOK, control, http, service, data, history
<1> QED
  BY <1>1, <1>2, <1>3, <1>4, <1>5, <1>6, <1>7, <1>8, <1>9 DEF Next
-----------------------------------------------------------------------------
(***************************************************************************)
(* The inductive invariant: main and the end of the process.                *)
(***************************************************************************)
LEMMA Names ==
    /\ Tracked \subseteq Tasks /\ Units \subseteq Tasks /\ AdminUnits \subseteq Units
    /\ {"update", "bind", "acme", "challenge", "admin", "watcher"} \subseteq Tasks
    /\ Units \cap {"update", "bind", "acme", "admin", "watcher"} = {}
    /\ Tracked \cap (AdminUnits \cup {"watcher"}) = {}
    /\ \A l \in Listeners : l[1] \in Units
BY DEF Tasks, Tracked, Units, AdminUnits, Listeners, Graceful, https

\* What the ways to change the states of tasks do to each of them.
LEMMA SpawnAt ==
    ASSUME NEW ts
    PROVE  \A t \in Tasks : Spawn(ts)[t] = IF t \in ts THEN "starting" ELSE task[t]
BY DEF Spawn

LEMMA BecomesAt ==
    ASSUME TypeOK, NEW t \in Tasks, NEW from, NEW to, Becomes(t, from, to)
    PROVE  /\ task[t] = from /\ task'[t] = to
           /\ \A u \in Tasks \ {t} : task'[u] = task[u]
BY DEF TypeOK, Becomes

LEMMA StartedAt ==
    ASSUME TypeOK, NEW u \in Units, NEW to, Started(u, to)
    PROVE  /\ task[u] = "starting" /\ task'[u] = to
           /\ \A t \in Tasks \ {u, "watcher"} : task'[t] = task[t]
           /\ task'["watcher"] # task["watcher"] => u = "admin_https"
BY Names DEF TypeOK, Started

\* Where a failure of main can be, there is no admin server.
LEMMA ExitParts ==
    ASSUME IInv, Exit, main \in {"validate", "new", "listen", "tls", "stopping"}
    PROVE  Parts'
<1>1. /\ main' = "failing" /\ engine' = engine \ {"handler"}
      /\ disk' = (IF engine' = {} THEN disk \ {"live"} ELSE disk)
      /\ UNCHANGED <<task, listener, token, named, history>>
  BY DEF Exit, Releases, http
<1>2. NotYet' /\ UpdateLasts' /\ Blamed' /\ StopsForAReason' /\ LeftOnlyByKill'
  BY <1>1 DEF IInv, Parts, NotYet, UpdateLasts, Serving, Blamed, StopsForAReason,
     LeftOnlyByKill, history
<1>3. Owned'
  BY <1>1 DEF IInv, Parts, Owned, Quiet
<1>4. Quiet("admin")
  <2>1. CASE main = "stopping"
    BY <2>1 DEF IInv, Parts, Settled, AllEnded, Tracked
  <2>2. CASE main # "stopping"
    BY <2>2, Names DEF IInv, Parts, NotYet, Quiet
  <2> QED
    BY <2>1, <2>2
<1>5. Settled'
  BY <1>1, <1>4 DEF Settled, Leaving, Quiet
<1> QED
  BY <1>2, <1>3, <1>5 DEF Parts

LEMMA KillParts ==
    ASSUME IInv, Kill, signal => signal'
    PROVE  Parts'
<1>1. \A t \in Tasks : task'[t] \in {"absent", "ended"}
  BY DEF Kill
<1>2. main' = "killed" /\ listener' = {} /\ engine' = {} /\ token' = token /\ lost' = lost
  BY DEF Kill
<1>3. NotYet' /\ UpdateLasts' /\ Settled' /\ LeftOnlyByKill'
  BY <1>2 DEF NotYet, UpdateLasts, Serving, Settled, Leaving, LeftOnlyByKill
<1>4. Owned'
  BY <1>1, <1>2, Names DEF Owned, Quiet
<1>5. Blamed'
  BY <1>1, Names DEF Blamed
<1>6. StopsForAReason'
  BY <1>2 DEF IInv, Parts, StopsForAReason
<1> QED
  BY <1>3, <1>4, <1>5, <1>6 DEF Parts

\* main goes from one state to another and nothing else changes that the
\* invariant is about.
LEMMA Passing ==
    ASSUME IInv, UNCHANGED <<task, listener, service>>, main # "killed",
           token => token', signal => signal', lost => lost',
           token' => signal' \/ lost',
           NotYet', Serving' => Serving,
           main' \in {"stopping", "returning", "stopped"} => AllEnded,
           main' \in {"waiting", "stopping", "returning", "stopped"} => token',
           Leaving' => Leaving, main' \in {"stopped", "failed"} => main = main'
    PROVE  Parts'
<1>1. UpdateLasts' /\ Owned' /\ Blamed'
  BY DEF IInv, Parts, UpdateLasts, Owned, Blamed, Quiet, service, data
<1>2. Settled' /\ StopsForAReason' /\ LeftOnlyByKill'
  BY DEF IInv, Parts, Settled, StopsForAReason, LeftOnlyByKill, AllEnded, Quiet, service, data
<1> QED
  BY <1>1, <1>2 DEF Parts

\* select! ends.
LEMMA ShutdownParts ==
    ASSUME IInv, Shutdown, main \in {"select", "running"}, signal => signal', lost => lost',
           signal' \/ lost'
    PROVE  Parts'
<1>1. /\ main' = "waiting" /\ token' = TRUE
      /\ UNCHANGED <<task, listener, service>>
  BY DEF Shutdown, http
<1>2. NotYet' /\ Serving' /\ Serving /\ ~Leaving'
  BY <1>1 DEF NotYet, Serving, Leaving
<1> QED
  BY <1>1, <1>2, Passing

LEMMA MainParts ==
    ASSUME IInv, MainStep
    PROVE  Parts'
<1>1. CASE ValidateOk \/ Retry
  <2>1. /\ main' \in {"validate", "new"} /\ main = "validate"
        /\ UNCHANGED <<task, listener, token, service, signal, lost>>
    BY <1>1 DEF ValidateOk, Retry, Proceed, http, history
  <2>2. NotYet' /\ ~Serving' /\ ~Leaving'
    BY <2>1 DEF IInv, Parts, NotYet, Serving, Leaving
  <2>3. token' => signal' \/ lost'
    BY <2>1 DEF IInv, Parts, StopsForAReason
  <2> QED
    BY <2>1, <2>2, <2>3, Passing
<1>2. CASE GiveUp \/ StartFails \/ StopFails
  BY <1>2, ExitParts DEF GiveUp, StartFails, StopFails
<1>3. CASE StartTasks
  <2>1. \A t \in Tasks : task[t] = "absent"
    BY <1>3 DEF IInv, Parts, StartTasks, Proceed, NotYet
  <2>2. \A t \in Tasks \ {"update", "bind"} : task'[t] = "absent"
    BY <1>3, <2>1, SpawnAt DEF StartTasks
  <2>3. task'["update"] = "starting" /\ task'["bind"] \in {"absent", "starting"}
    BY <1>3, <2>1, Names, SpawnAt DEF StartTasks
  <2>4. /\ main = "new" /\ main' = "listen" /\ engine' = {"handler", "update"} /\ disk' = {"live"}
        /\ UNCHANGED <<listener, token, named, signal, lost>>
    BY <1>3 DEF StartTasks, Proceed, http, history
  <2>5. listener = {} /\ named # "running"
    BY <2>1, <2>4, Names DEF IInv, Parts, Owned, TypeOK
  <2>6. NotYet' /\ UpdateLasts' /\ Settled' /\ LeftOnlyByKill'
    BY <2>2, <2>3, <2>4, Names DEF NotYet, UpdateLasts, Serving, Settled, Leaving, LeftOnlyByKill
  <2>7. Blamed' /\ StopsForAReason'
    BY <2>3, <2>4 DEF IInv, Parts, Blamed, StopsForAReason
  <2>8. Owned'
    BY <2>2, <2>3, <2>4, <2>5, Names DEF Owned, Quiet, AdminUnits
  <2> QED
    BY <2>6, <2>7, <2>8 DEF Parts
<1>4. CASE Listen
  <2>1. \A t \in Tasks \ {"update", "bind"} : task[t] = "absent"
    BY <1>4 DEF IInv, Parts, Listen, Proceed, NotYet
  <2>2. /\ \A t \in Tasks \ {"acme", "challenge"} : task'[t] = task[t]
        /\ main = "listen" /\ main' \in {"tls", "admin"}
        /\ UNCHANGED <<listener, token, named, engine, disk, signal, lost>>
    BY <1>4, SpawnAt DEF Listen, Proceed, http, data, history
  <2>3. listener = {}
    BY <2>1, Names DEF IInv, Parts, Owned, TypeOK, Units
  <2>4. NotYet' /\ UpdateLasts' /\ Settled' /\ LeftOnlyByKill'
    BY <2>1, <2>2, Names DEF IInv, Parts, NotYet, UpdateLasts, Serving, Settled, Leaving,
       LeftOnlyByKill, AdminUnits
  <2>5. Blamed' /\ StopsForAReason'
    BY <2>2, Names DEF IInv, Parts, Blamed, StopsForAReason
  <2>6. Owned'
    BY <2>1, <2>2, <2>3, Names DEF IInv, Parts, Owned, Quiet, AdminUnits
  <2> QED
    BY <2>4, <2>5, <2>6 DEF Parts
<1>5. CASE ListenTls \/ AwaitSignals
  <2>1. /\ \/ main = "tls" /\ main' = "admin"
           \/ main = "select" /\ main' = "running"
        /\ UNCHANGED <<task, listener, token, service, signal, lost>>
    BY <1>5 DEF ListenTls, AwaitSignals, Proceed, http, history
  <2>2. NotYet' /\ Serving /\ ~Leaving'
    BY <2>1 DEF IInv, Parts, NotYet, Serving, Leaving
  <2>3. token' => signal' \/ lost'
    BY <2>1 DEF IInv, Parts, StopsForAReason
  <2> QED
    BY <2>1, <2>2, <2>3, Passing
<1>6. CASE StartAdmin
  <2>1. \A t \in {"admin", "watcher"} \cup AdminUnits : task[t] = "absent"
    BY <1>6 DEF IInv, Parts, StartAdmin, Proceed, NotYet
  <2>2. /\ \A t \in Tasks \ {"admin"} : task'[t] = task[t]
        /\ main = "admin" /\ main' = "select"
        /\ UNCHANGED <<listener, token, named, engine, disk, signal, lost>>
    BY <1>6, SpawnAt DEF StartAdmin, Proceed, http, service, data, history
  <2>3. NotYet' /\ UpdateLasts' /\ Settled' /\ LeftOnlyByKill'
    BY <2>2, Names DEF IInv, Parts, NotYet, UpdateLasts, Serving, Settled, Leaving, LeftOnlyByKill
  <2>4. Blamed' /\ StopsForAReason'
    BY <2>2, Names DEF IInv, Parts, Blamed, StopsForAReason
  <2>5. Owned'
    <3>1. \A l \in listener : l[1] \in Tasks \ {"admin"}
      BY Names DEF IInv, TypeOK
    <3> QED
      BY <2>1, <2>2, <3>1, Names DEF IInv, Parts, Owned, Quiet
  <2> QED
    BY <2>3, <2>4, <2>5 DEF Parts
<1>7. CASE SignalFails
  BY <1>7, ShutdownParts DEF SignalFails
<1>8. CASE EndedPrematurely
  <2>1. main \in {"select", "running"} /\ AllEnded /\ Shutdown /\ UNCHANGED <<signal, lost>>
    BY <1>8 DEF EndedPrematurely, history
  <2>2. task["update"] = "ended"
    BY <2>1 DEF IInv, Parts, AllEnded, Quiet, UpdateLasts, Serving, Tracked
  <2>3. signal \/ lost
    BY <2>1, <2>2 DEF IInv, Parts, UpdateLasts, Serving, StopsForAReason
  <2> QED
    BY <2>1, <2>3, ShutdownParts
<1>9. CASE Waited
  <2>1. /\ main = "waiting" /\ main' = "stopping" /\ AllEnded
        /\ UNCHANGED <<task, listener, token, service, signal, lost>>
    BY <1>9 DEF Waited, Proceed, http, history
  <2>2. NotYet' /\ Serving /\ ~Leaving' /\ token
    BY <2>1 DEF IInv, Parts, NotYet, Serving, Leaving, Settled
  <2>3. signal' \/ lost'
    BY <2>1 DEF IInv, Parts, StopsForAReason
  <2> QED
    BY <2>1, <2>2, <2>3, Passing
<1>10. CASE StopServer
  <2>1. /\ main = "stopping" /\ main' = "returning" /\ engine' = engine \ {"handler"}
        /\ disk' = (IF engine' = {} THEN disk \ {"live"} ELSE disk)
        /\ UNCHANGED <<task, listener, token, named, signal, lost>>
    BY <1>10 DEF StopServer, Proceed, Releases, http, history
  <2>2. AllEnded /\ token
    BY <2>1 DEF IInv, Parts, Settled
  <2>3. NotYet' /\ UpdateLasts' /\ LeftOnlyByKill'
    BY <2>1 DEF NotYet, UpdateLasts, Serving, LeftOnlyByKill
  <2>4. Settled'
    BY <2>1, <2>2 DEF Settled, Leaving, AllEnded, Quiet, Tracked
  <2>5. Owned'
    BY <2>1 DEF IInv, Parts, Owned, Quiet
  <2>6. Blamed' /\ StopsForAReason'
    BY <2>1 DEF IInv, Parts, Blamed, StopsForAReason
  <2> QED
    BY <2>3, <2>4, <2>5, <2>6 DEF Parts
<1> QED
  BY <1>1, <1>2, <1>3, <1>4, <1>5, <1>6, <1>7, <1>8, <1>9, <1>10 DEF MainStep

\* What is dropped at the end takes along what it owns.
LEMMA DropParts ==
    ASSUME IInv, NEW t \in Tasks, DropFuture(t)
    PROVE  Parts'
<1>1. /\ Leaving /\ ~Quiet(t)
      /\ task'[t] = "ended" /\ \A u \in Tasks \ {t} : task'[u] = task[u]
      /\ UNCHANGED <<main, token, signal, lost>>
  BY DEF DropFuture, Drops, control, history, IInv, TypeOK
<1>2. /\ listener' = listener \ ListenersOf(t)
      /\ named' = IF t = "bind" /\ named = "running" THEN "dead" ELSE named
      /\ IF t = "update"
         THEN /\ engine' = engine \ {"update"}
              /\ disk' = (IF engine' = {} THEN disk \ {"live"} ELSE disk) \ {"next"}
         ELSE UNCHANGED <<engine, disk>>
  BY DEF DropFuture, Drops, data
<1>3. Quiet("admin") /\ "handler" \notin engine /\ t # "admin"
  BY <1>1 DEF IInv, Parts, Settled
<1>4. \A u \in Tasks : Quiet(u) => Quiet(u)'
  BY <1>1 DEF Quiet
<1>5. NotYet' /\ UpdateLasts' /\ StopsForAReason' /\ LeftOnlyByKill'
  BY <1>1 DEF IInv, Parts, Leaving, NotYet, UpdateLasts, Serving, StopsForAReason, LeftOnlyByKill
<1>6. Blamed'
  BY <1>1, <1>2, Names DEF IInv, Parts, Blamed
<1>7. Settled'
  <2>1. AllEnded => AllEnded'
    BY <1>4, Names DEF AllEnded
  <2>2. "handler" \notin engine'
    BY <1>2, <1>3
  <2> QED
    BY <1>1, <1>3, <1>4, <2>1, <2>2, Names DEF IInv, Parts, Settled, Leaving
<1>8. Owned'
  <2>1. \A l \in listener' : task'[l[1]] = "running"
    BY <1>1, <1>2, Names DEF IInv, Parts, Owned, TypeOK, ListenersOf
  <2>2. \A u \in AdminUnits : Quiet(u)'
    BY <1>3, <1>4, Names DEF IInv, Parts, Owned, Quiet
  <2>3. named' = "running" => task'["bind"] = "running"
    BY <1>1, <1>2, Names DEF IInv, Parts, Owned, Leaving
  <2>4. "live" \in disk' => engine' # {}
    BY <1>1, <1>2 DEF IInv, Parts, Owned, Leaving
  <2>5. "next" \in disk' => task'["update"] = "running"
    BY <1>1, <1>2, Names DEF IInv, Parts, Owned, Leaving
  <2>6. "update" \in engine' => ~Quiet("update")'
    BY <1>1, <1>2, Names DEF IInv, Parts, Owned, Quiet
  <2> QED
    BY <2>1, <2>2, <2>3, <2>4, <2>5, <2>6 DEF Owned
<1> QED
  BY <1>5, <1>6, <1>7, <1>8 DEF Parts

\* When no future is left the last holder of the database is gone too.
LEMMA FinishParts ==
    ASSUME IInv, Finish
    PROVE  Parts'
<1>1. /\ Leaving /\ \A t \in Tasks : Quiet(t)
      /\ main' \in {"stopped", "failed"} /\ (main' = "stopped" => main = "returning")
      /\ UNCHANGED <<task, listener, token, named, engine, disk, signal, lost>>
  BY DEF Finish, Leaving, http, service, data, history
<1>2. engine = {} /\ disk = {} /\ named # "running"
  <2>1. "update" \notin engine /\ "handler" \notin engine
    BY <1>1, Names DEF IInv, Parts, Owned, Settled
  <2>2. engine = {}
    BY <2>1 DEF IInv, TypeOK
  <2>3. "live" \notin disk /\ "next" \notin disk /\ named # "running"
    BY <1>1, <2>2, Names DEF IInv, Parts, Owned, Leaving, Quiet
  <2> QED
    BY <2>2, <2>3 DEF IInv, TypeOK
<1>3. NotYet' /\ UpdateLasts' /\ LeftOnlyByKill'
  BY <1>1, <1>2 DEF NotYet, UpdateLasts, Serving, LeftOnlyByKill
<1>4. Settled' /\ StopsForAReason'
  BY <1>1, Names DEF IInv, Parts, Settled, StopsForAReason, Leaving, AllEnded, Quiet
<1>5. Owned' /\ Blamed'
  BY <1>1, Names DEF IInv, Parts, Owned, Blamed, Leaving, Quiet
<1> QED
  BY <1>3, <1>4, <1>5 DEF Parts
-----------------------------------------------------------------------------
(***************************************************************************)
(* The inductive invariant: the tasks.                                      *)
(***************************************************************************)

\* Listeners may close at any time.
LEMMA Frame ==
    ASSUME IInv, listener' \subseteq listener,
           UNCHANGED <<main, task, token, named, engine, disk, signal, lost>>
    PROVE  Parts'
<1>1. NotYet' /\ UpdateLasts' /\ LeftOnlyByKill'
  BY DEF IInv, Parts, NotYet, UpdateLasts, Serving, LeftOnlyByKill
<1>2. Settled' /\ Blamed' /\ StopsForAReason'
  BY DEF IInv, Parts, Settled, Leaving, AllEnded, Quiet, Blamed, StopsForAReason
<1>3. Owned'
  BY DEF IInv, Parts, Owned, Quiet
<1> QED
  BY <1>1, <1>2, <1>3 DEF Parts

\* A task that owns nothing ends.
LEMMA LoneTask ==
    ASSUME IInv, ~Over, NEW t \in {"acme", "admin", "watcher"},
           NEW from \in TaskState \ {"absent", "ended"},
           Becomes(t, from, "ended"), UNCHANGED <<control, listener, service>>,
           t = "admin" => \A u \in AdminUnits : Quiet(u),
           signal => signal', lost => lost', token => token', token' => token \/ lost'
    PROVE  Parts'
<1>1. /\ task[t] = from /\ task'[t] = "ended" /\ ~Quiet(t)
      /\ \A u \in Tasks \ {t} : task'[u] = task[u]
  BY Names, BecomesAt DEF IInv, Quiet
<1>2. \A u \in Tasks : Quiet(u) => Quiet(u)'
  BY <1>1 DEF Quiet
<1>3. NotYet' /\ UpdateLasts' /\ LeftOnlyByKill'
  BY <1>1, Names DEF IInv, Parts, control, service, data, NotYet, UpdateLasts, Serving,
     LeftOnlyByKill, AdminUnits
<1>4. Settled'
  BY <1>2, Names DEF IInv, Parts, Settled, Leaving, AllEnded, Over, control, service, data
<1>5. Blamed' /\ StopsForAReason'
  BY <1>1, Names DEF IInv, Parts, Blamed, StopsForAReason, control, service
<1>6. Owned'
  <2>1. \A l \in listener : l[1] \in Tasks \ {t}
    BY Names DEF IInv, TypeOK
  <2>2. \A u \in AdminUnits : Quiet(u)' \/ task'["admin"] = "running"
    BY <1>1, <1>2, Names DEF IInv, Parts, Owned
  <2> QED
    BY <1>1, <2>1, <2>2, Names DEF IInv, Parts, Owned, Quiet, control, service, data
<1> QED
  BY <1>3, <1>4, <1>5, <1>6 DEF Parts

LEMMA UpdateParts ==
    ASSUME IInv, ~Over, UpdateEnds \/ UpdateBegins \/ UpdateCancelled
    PROVE  Parts'
<1>1. PICK from \in {"starting", "running", "sleeping"}, to \in {"running", "sleeping", "ended"} :
          /\ Becomes("update", from, to)
          /\ to = "running" => engine' = engine /\ disk' = disk \cup {"next"}
          /\ to = "sleeping" => engine' = engine /\ disk' = disk \ {"next"}
          /\ to = "ended" => token /\ from = "sleeping" /\ Releases("update")
  BY DEF UpdateEnds, UpdateBegins, UpdateCancelled
<1>2. /\ task["update"] = from /\ task'["update"] = to /\ ~Quiet("update")
      /\ \A u \in Tasks \ {"update"} : task'[u] = task[u]
  BY <1>1, Names, BecomesAt DEF IInv, Quiet
<1>3. UNCHANGED <<main, listener, token, named, signal, lost>>
  BY DEF UpdateEnds, UpdateBegins, UpdateCancelled, control, http, history
<1>4. NotYet' /\ LeftOnlyByKill'
  BY <1>2, <1>3, Names DEF IInv, Parts, NotYet, LeftOnlyByKill, Over, AdminUnits
<1>5. UpdateLasts'
  BY <1>1, <1>2, <1>3 DEF IInv, Parts, UpdateLasts
<1>6. Settled'
  <2>1. ~AllEnded
    BY <1>2 DEF AllEnded, Tracked
  <2>2. "handler" \in engine' => "handler" \in engine
    BY <1>1 DEF Releases
  <2> QED
    BY <1>2, <1>3, <2>1, <2>2, Names DEF IInv, Parts, Settled, Leaving, Over, Quiet
<1>7. Blamed' /\ StopsForAReason'
  BY <1>2, <1>3, Names DEF IInv, Parts, Blamed, StopsForAReason
<1>8. Owned'
  <2>1. \A l \in listener : l[1] \in Tasks \ {"update"}
    BY Names DEF IInv, TypeOK
  <2>2. \A u \in AdminUnits : u \in Tasks \ {"update"}
    BY Names
  <2>3. main # "killed"
    BY DEF Over
  <2>4. "live" \in disk' => engine' # {}
    BY <1>1, <2>3 DEF IInv, Parts, Owned, Releases
  <2>5. "next" \in disk' => task'["update"] = "running"
    BY <1>1, <1>2, <2>3 DEF IInv, Parts, Owned, Releases
  <2>6. "update" \in engine' => ~Quiet("update")'
    BY <1>1, <1>2 DEF Releases, Quiet
  <2> QED
    BY <1>2, <1>3, <2>1, <2>2, <2>4, <2>5, <2>6, Names DEF IInv, Parts, Owned, Quiet
<1> QED
  BY <1>4, <1>5, <1>6, <1>7, <1>8 DEF Parts

LEMMA BindParts ==
    ASSUME IInv, ~Over, BindStep
    PROVE  Parts'
<1>1. PICK from \in {"starting", "running"}, to \in {"running", "ended"} :
          /\ Becomes("bind", from, to)
          /\ \/ named' = named /\ from = "starting" /\ to = "ended"
             \/ named' = "running" /\ to = "running"
             \/ named' = "dead" /\ to = "ended"
  BY DEF BindStep, SpawnBind, SpawnBindFails, BindEnded, BindCancelled, service
<1>2. /\ task["bind"] = from /\ task'["bind"] = to /\ ~Quiet("bind")
      /\ \A u \in Tasks \ {"bind"} : task'[u] = task[u]
  BY <1>1, Names, BecomesAt DEF IInv, Quiet
<1>3. UNCHANGED <<main, listener, engine, disk, signal>>
  BY DEF BindStep, SpawnBind, SpawnBindFails, BindEnded, BindCancelled, control, http, service,
     data, history
<1>4. (token' => signal' \/ lost') /\ (token => token') /\ (lost => lost')
  <2>1. CASE SpawnBind \/ BindCancelled
    BY <2>1 DEF SpawnBind, BindCancelled, IInv, Parts, StopsForAReason, history
  <2>2. CASE SpawnBindFails
    BY <2>2 DEF SpawnBindFails
  <2>3. CASE BindEnded
    BY <2>3 DEF BindEnded, Becomes, IInv, Parts, Blamed, history
  <2> QED
    BY <2>1, <2>2, <2>3 DEF BindStep
<1>5. NotYet' /\ UpdateLasts' /\ LeftOnlyByKill'
  BY <1>2, <1>3, <1>4, Names DEF IInv, Parts, NotYet, UpdateLasts, Serving, LeftOnlyByKill, Over,
     AdminUnits
<1>6. Settled'
  <2>1. ~AllEnded
    BY <1>2 DEF AllEnded, Tracked
  <2> QED
    BY <1>2, <1>3, <1>4, <2>1, Names DEF IInv, Parts, Settled, Leaving, Over, Quiet
<1>7. Blamed' /\ StopsForAReason'
  BY <1>1, <1>2, <1>3, <1>4 DEF IInv, Parts, Blamed, StopsForAReason
<1>8. Owned'
  <2>1. \A l \in listener : l[1] \in Tasks \ {"bind"}
    BY Names DEF IInv, TypeOK
  <2>2. \A u \in AdminUnits : u \in Tasks \ {"bind"}
    BY Names
  <2>3. named' = "running" => task'["bind"] = "running"
    BY <1>1, <1>2 DEF IInv, Parts, Owned, Over
  <2> QED
    BY <1>2, <1>3, <2>1, <2>2, <2>3, Names DEF IInv, Parts, Owned, Quiet
<1> QED
  BY <1>5, <1>6, <1>7, <1>8 DEF Parts

\* The admin server finds its units absent or ended.
LEMMA AdminServesParts ==
    ASSUME IInv, ~Over, AdminServes
    PROVE  Parts'
<1>1. /\ task["admin"] = "starting" /\ \A u \in AdminUnits : Quiet(u)
      /\ UNCHANGED <<main, listener, token, named, engine, disk, signal, lost>>
  BY DEF AdminServes, IInv, Parts, Owned, control, http, service, data, history
<1>2. task'["admin"] = "running" /\ \A u \in Tasks \ ({"admin"} \cup AdminUnits) : task'[u] = task[u]
  <2>1. PICK ts \in SUBSET AdminUnits : task' = [Spawn(ts) EXCEPT !["admin"] = "running"]
    BY DEF AdminServes, AdminUnits
  <2>2. "admin" \in Tasks /\ "admin" \notin ts
    BY Names
  <2>3. task'["admin"] = "running"
    BY <2>1, <2>2 DEF Spawn
  <2>4. \A u \in Tasks \ {"admin"} : task'[u] = IF u \in ts THEN "starting" ELSE task[u]
    BY <2>1, <2>2 DEF Spawn
  <2> QED
    BY <2>3, <2>4
<1>3. main \in {"select", "running", "waiting"}
  <2>1. main \notin {"validate", "new", "listen", "tls", "admin"}
    BY <1>1, Names DEF IInv, Parts, NotYet
  <2>2. main \notin {"stopping", "returning", "failing"}
    BY <1>1 DEF IInv, Parts, Settled, AllEnded, Quiet, Tracked, Leaving
  <2> QED
    BY <2>1, <2>2 DEF IInv, TypeOK, Over
<1>4. NotYet' /\ UpdateLasts' /\ Settled' /\ LeftOnlyByKill'
  BY <1>1, <1>2, <1>3, Names DEF IInv, Parts, NotYet, UpdateLasts, Serving, Settled, Leaving,
     LeftOnlyByKill
<1>5. Blamed' /\ StopsForAReason'
  BY <1>1, <1>2, Names DEF IInv, Parts, Blamed, StopsForAReason
<1>6. Owned'
  <2>1. \A l \in listener : l[1] \in Tasks \ ({"admin"} \cup AdminUnits)
    BY <1>1, Names DEF IInv, Parts, TypeOK, Owned, Quiet
  <2>2. "update" \in Tasks \ ({"admin"} \cup AdminUnits) /\ "bind" \in Tasks \ ({"admin"} \cup AdminUnits)
    BY Names
  <2> QED
    BY <1>1, <1>2, <2>1, <2>2, Names DEF IInv, Parts, Owned, Quiet
<1> QED
  BY <1>4, <1>5, <1>6 DEF Parts

\* A unit has listeners between its start and its end only, and its start is what
\* the watcher comes with.
LEMMA UnitParts ==
    ASSUME IInv, ~Over, NEW u \in Units, UnitStep(u)
    PROVE  Parts'
<1>1. PICK from \in {"starting", "running"}, to \in {"running", "ended"} :
          /\ task[u] = from /\ task'[u] = to
          /\ \A t \in Tasks \ {u, "watcher"} : task'[t] = task[t]
          /\ task'["watcher"] # task["watcher"] => u = "admin_https"
  <2>1. CASE UnitListens(u) \/ UnitFails(u)
    <3>1. PICK to \in {"running", "ended"} : Started(u, to)
      BY <2>1 DEF UnitListens, UnitFails
    <3> QED
      BY <3>1, StartedAt DEF IInv
  <2>2. CASE UnitEnds(u)
    <3>1. Becomes(u, "running", "ended") /\ u \in Tasks /\ u # "watcher"
      BY <2>2, Names DEF UnitEnds
    <3> QED
      BY <3>1, BecomesAt, Names DEF IInv
  <2> QED
    BY <2>1, <2>2 DEF UnitStep
<1>2. ~Quiet(u) /\ u \in Tasks \ {"update", "bind", "acme", "admin", "watcher"}
  BY <1>1, Names DEF Quiet
<1>3. UNCHANGED <<main, named, engine, disk, signal>>
  BY DEF UnitStep, UnitListens, UnitFails, UnitEnds, control, service, data, history
<1>4. (token => token') /\ (lost => lost') /\ (token' => token \/ lost')
  <2>1. CASE UnitFails(u)
    BY <2>1 DEF UnitFails
  <2>2. CASE UnitListens(u) \/ UnitEnds(u)
    BY <2>2 DEF UnitListens, UnitEnds, history
  <2> QED
    BY <2>1, <2>2 DEF UnitStep
<1>5. NotYet'
  <2>1. main \notin {"validate", "new", "listen"}
    BY <1>1, <1>2 DEF IInv, Parts, NotYet
  <2>2. main \in {"tls", "admin"} => u \notin AdminUnits
    BY <1>1, <1>2 DEF IInv, Parts, NotYet
  <2> QED
    BY <1>1, <1>2, <1>3, <2>1, <2>2, Names DEF IInv, Parts, NotYet, AdminUnits
<1>6. UpdateLasts' /\ LeftOnlyByKill'
  BY <1>1, <1>2, <1>3, <1>4, Names DEF IInv, Parts, UpdateLasts, Serving, LeftOnlyByKill
<1>7. Settled'
  <2>1. AllEnded => AllEnded'
    BY <1>1, <1>2, Names DEF AllEnded, Quiet
  <2>2. Quiet("admin") => Quiet("admin")'
    BY <1>1, <1>2, Names DEF Quiet
  <2> QED
    BY <1>3, <1>4, <2>1, <2>2 DEF IInv, Parts, Settled, Leaving, Over
<1>8. Blamed' /\ StopsForAReason'
  BY <1>1, <1>2, <1>3, <1>4, Names DEF IInv, Parts, Blamed, StopsForAReason
<1>9. \A l \in listener' : task'[l[1]] = "running"
  <2>1. \A l \in listener : l[1] \in Units /\ task[l[1]] = "running"
    BY Names DEF IInv, Parts, TypeOK, Owned
  <2>2. \A l \in listener : l[1] # u => task'[l[1]] = "running"
    BY <1>1, <2>1, Names
  <2>3. CASE UnitListens(u)
    <3>1. listener' = listener \cup ListenersOf(u) /\ task'[u] = "running"
      BY <1>1, <2>3, StartedAt DEF UnitListens, IInv
    <3> QED
      BY <2>2, <3>1 DEF ListenersOf
  <2>4. CASE UnitFails(u)
    <3>1. listener' = listener /\ task[u] = "starting"
      BY <2>4, StartedAt DEF UnitFails, http, IInv
    <3> QED
      BY <2>1, <2>2, <3>1
  <2>5. CASE UnitEnds(u)
    <3>1. listener' = listener /\ \A l \in listener : l[1] # u
      BY <2>5 DEF UnitEnds, http, ListenersOf, IInv, TypeOK
    <3> QED
      BY <2>2, <3>1
  <2> QED
    BY <2>3, <2>4, <2>5 DEF UnitStep
<1>10. \A v \in AdminUnits : Quiet(v)' \/ task'["admin"] = "running"
  BY <1>1, <1>2, Names DEF IInv, Parts, Owned, Quiet
<1>11. /\ task'["bind"] = task["bind"] /\ task'["update"] = task["update"]
  BY <1>1, <1>2, Names
<1> QED
  BY <1>3, <1>5, <1>6, <1>7, <1>8, <1>9, <1>10, <1>11 DEF IInv, Parts, Owned, Quiet

LEMMA TaskParts ==
    ASSUME IInv, ~Over, TaskStep
    PROVE  Parts'
<1>1. CASE UpdateEnds \/ UpdateBegins \/ UpdateCancelled
  BY <1>1, UpdateParts
<1>2. CASE BindStep
  BY <1>2, BindParts
<1>3. CASE AcmeStreamEnds \/ AcmeCancelled
  <2>1. /\ Becomes("acme", "starting", "ended")
        /\ UNCHANGED <<control, listener, service, signal>>
        /\ (lost => lost') /\ (token => token') /\ (token' => token \/ lost')
    BY <1>3 DEF AcmeStreamEnds, AcmeCancelled, http, history
  <2> QED
    BY <2>1, LoneTask DEF TaskState
<1>4. CASE AdminServes
  BY <1>4, AdminServesParts
<1>5. CASE AdminEnds
  <2>1. /\ Becomes("admin", "running", "ended")
        /\ UNCHANGED <<control, listener, service, signal, lost, token>>
        /\ \A u \in AdminUnits : Quiet(u)
    BY <1>5 DEF AdminEnds, http, history, AdminUnits
  <2> QED
    BY <2>1, LoneTask DEF TaskState
<1>6. CASE \E u \in Units : UnitStep(u)
  BY <1>6, UnitParts
<1>7. CASE WatcherEnds
  <2>1. /\ Becomes("watcher", "running", "ended")
        /\ UNCHANGED <<control, listener, service, signal, lost, token>>
    BY <1>7 DEF WatcherEnds, http, history
  <2> QED
    BY <2>1, LoneTask DEF TaskState
<1>8. CASE \E l \in Listeners : ListenerStops(l) \/ ListenerFails(l)
  <2>1. /\ listener' \subseteq listener
        /\ UNCHANGED <<main, task, token, named, engine, disk, signal, lost>>
    BY <1>8 DEF ListenerStops, ListenerFails, control, service, data, history
  <2> QED
    BY <2>1, Frame
<1> QED
  BY <1>1, <1>2, <1>3, <1>4, <1>5, <1>6, <1>7, <1>8 DEF TaskStep, AdminStep
-----------------------------------------------------------------------------
(***************************************************************************)
(* The theorems.                                                            *)
(***************************************************************************)
LEMMA AtRest ==
    ASSUME main = "validate", \A t \in Tasks : task[t] = "absent", listener = {}, token = FALSE,
           named = "none", engine = {}, disk = {}
    PROVE  Parts
BY Names DEF Parts, NotYet, UpdateLasts, Serving, Owned, Settled, Leaving, Blamed,
   StopsForAReason, LeftOnlyByKill, Quiet

LEMMA InitIInv == Init => IInv
<1> SUFFICES ASSUME Init PROVE TypeOK /\ Parts
  BY DEF IInv
<1>1. \A t \in Tasks : task[t] = "absent"
  BY DEF Init, Nothing
<1>2. task \in [Tasks -> TaskState]
  BY DEF Init, Nothing, TaskState
<1>3. /\ args \in Args /\ main = "validate" /\ attempt = 1 /\ listener = {} /\ open = {}
      /\ named = "none" /\ server = "none" /\ engine = {} /\ disk = {}
  BY DEF Init
<1>4. token \in BOOLEAN /\ signal \in BOOLEAN /\ lost \in BOOLEAN
  BY DEF Init
<1>5. TypeOK
  BY <1>2, <1>3, <1>4 DEF TypeOK, TaskState
<1>6. token = FALSE
  BY DEF Init
<1> QED
  BY <1>1, <1>3, <1>5, <1>6, AtRest

LEMMA IInvStep == IInv /\ [Next]_vars => IInv'
<1> SUFFICES ASSUME IInv, [Next]_vars PROVE Parts'
  BY TypeStep DEF IInv
<1>1. CASE MainStep
  BY <1>1, MainParts
<1>2. CASE RuntimeStep
  BY <1>2, DropParts, FinishParts DEF RuntimeStep
<1>3. CASE Signal
  BY <1>3, ShutdownParts DEF Signal
<1>4. CASE SignalTooEarly \/ Crash
  BY <1>4, KillParts DEF SignalTooEarly, Crash
<1>5. CASE Restart
  <2>1. \A t \in Tasks : task'[t] = "absent"
    BY <1>5 DEF Restart, Nothing
  <2>2. /\ main' = "validate" /\ listener' = {} /\ token' = FALSE
        /\ named' = "none" /\ engine' = {} /\ disk' = {}
    BY <1>5 DEF Restart
  <2> QED
    BY <2>1, <2>2, Names DEF Parts, NotYet, UpdateLasts, Serving, Owned, Settled, Leaving, Blamed,
       StopsForAReason, LeftOnlyByKill, Quiet
<1>6. CASE ~Over /\ TaskStep
  BY <1>6, TaskParts
<1>7. CASE ~Over /\ \E l \in Listeners : ClientsServed(l)
  BY <1>7, Frame DEF ClientsServed, control, service, data, history
<1>8. CASE NamedDies
  <2>1. /\ named' = "dead" /\ lost' = TRUE
        /\ UNCHANGED <<main, task, token, listener, engine, disk, signal>>
    BY <1>8 DEF NamedDies, control, http, data
  <2> QED
    BY <2>1 DEF IInv, Parts, NotYet, UpdateLasts, Serving, Owned, Settled, Leaving, Blamed,
       StopsForAReason, LeftOnlyByKill, Quiet, AllEnded
<1>9. CASE UNCHANGED vars
  BY <1>9, Frame DEF vars, control, http, service, data, history
<1> QED
  BY <1>1, <1>2, <1>3, <1>4, <1>5, <1>6, <1>7, <1>8, <1>9 DEF Next

LEMMA Invariance == Spec => []IInv
  BY InitIInv, IInvStep, PTL DEF Spec

\* The states of main, of its tasks and of what they own stay what they are
\* meant to be, and main never tries the configuration a sixth time.
THEOREM TypeCorrect == Spec => []TypeOK
  BY Invariance, PTL DEF IInv

\* When main goes on after tracker.wait(), every future has ended, also the units
\* that it does not wait for itself, but for the watcher, which the token lets go
\* on and which the runtime drops before the process ends; nothing listens, BIND
\* is gone, and no update has left its database.
THEOREM OrderlyEnd == Spec => []NothingLeftBehind
<1>1. ASSUME IInv PROVE NothingLeftBehind
  <2>1. SUFFICES ASSUME main \in {"stopping", "returning", "stopped"}
                 PROVE  /\ \A t \in Tasks :
                              Quiet(t) \/ (t = "watcher" /\ token /\ main # "stopped")
                        /\ listener = {} /\ named # "running" /\ "next" \notin disk
    BY DEF NothingLeftBehind
  <2>2. token /\ \A t \in Tracked : Quiet(t)
    BY <1>1, <2>1 DEF IInv, Parts, Settled, AllEnded
  <2>3. \A u \in AdminUnits : Quiet(u)
    BY <1>1, <2>2 DEF IInv, Parts, Owned, Tracked, Quiet
  <2>4. main = "stopped" => Quiet("watcher")
    BY <1>1, Names DEF IInv, Parts, Settled
  <2>5. \A t \in Tasks : Quiet(t) \/ t = "watcher"
    BY <2>2, <2>3 DEF Tasks, Tracked, Units, AdminUnits
  <2>6. listener = {}
    <3>1. ASSUME NEW l \in listener PROVE FALSE
      BY <1>1, <2>5, <3>1, Names DEF IInv, Parts, TypeOK, Owned, Quiet
    <3> QED
      BY <3>1
  <2>7. named # "running" /\ "next" \notin disk
    BY <1>1, <2>1, <2>2 DEF IInv, Parts, Owned, Tracked, Quiet
  <2> QED
    BY <2>2, <2>4, <2>5, <2>6, <2>7
<1> QED
  BY <1>1, Invariance, PTL

\* In whatever order the handler, the update loop and the task of BIND are
\* dropped when main returns or fails: the last holder removes the database, a
\* half-filled one goes with its update, and the child goes with its task.
THEOREM OnlyKillLeaves == Spec => []LeftOnlyByKill
<1>1. IInv => LeftOnlyByKill
  BY DEF IInv, Parts
<1> QED
  BY <1>1, Invariance, PTL

\* In whatever order tasks fail and end: when the shutdown begins there has been
\* a signal, or something the process cannot do without has failed.
THEOREM StopJustified == Spec => []StopsForAReason
<1>1. IInv => StopsForAReason
  BY DEF IInv, Parts
<1> QED
  BY <1>1, Invariance, PTL
=============================================================================
