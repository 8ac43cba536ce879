------------------------------ MODULE Handler ------------------------------
(***************************************************************************)
(* The request handler (src/src/handler.rs) and Resolver::lookup            *)
(* (resolver.rs), composed with what the handler calls: the policy service  *)
(* that the engine implements, and the query log.  Each request is handled  *)
(* by a task of its own; requests interleave at every await and, on several *)
(* threads, between any two calls.                                          *)
(*                                                                          *)
(* The rate limiter admits or refuses a request, the upstream DNS server    *)
(* answers or fails, and sending a response may fail: each of these is a    *)
(* choice of the environment.                                               *)
(***************************************************************************)
EXTENDS Lookup

CONSTANTS
    Task,           \* one per request being handled
    Ip,             \* client addresses
    Query,          \* the names queries ask about
    QueryType,      \* record types: "A", "AAAA" and others
    Published,      \* the policies the engine may publish
    Nothing,        \* no request, no target, no entry
    MAX_AGE, MAX_PER_IP, MaxLag, MaxTime    \* as in QueryLog

ASSUME LogAssumption == MAX_PER_IP \in Nat \ {0} /\ MaxTime \in Nat
ASSUME EntryAssumption == Nothing \notin [ip: Ip, query_time: Nat]
ASSUME QueryAssumption == Query \subseteq DomainName /\ Nothing \notin DomainName
ASSUME PublishedAssumption ==
    \A s \in {EmptyStore} \cup {p.rewrites : p \in Published} : \A n \in Query :
        get(s, n) \in DomainName \cup {None}

\* What may be wrong with a message, by the order the handler checks it in.
Kind == {"query", "bad_opcode", "bad_type", "malformed"}
Request == [ip: Ip, name: Query, type: QueryType, kind: Kind]

\* How the upstream server ends a lookup: with records, with a response that
\* has none (hickory's NoRecordsFound, which carries the response code), or
\* without a usable response at all.
Upstream ==
    {"records", "none_noerror", "none_nxdomain", "none_servfail", "failed"}

VARIABLES
    policy, phase, name, alias, answer,     \* of the policy service
    now, logs, pending,                     \* of the query log
    hpc,            \* where each task is
    request,        \* the request of each task
    target,         \* the name each task looks up upstream
    outcome,        \* the result of do_handle_request
    sent,           \* the responses the client of each task has received
    upstream,       \* how the upstream server has ended the task's lookup
    verdicts        \* history: what the policies live during the task's call
                    \* of the engine make of its name

Policy == INSTANCE PolicyService WITH Reader <- Task
Log    == INSTANCE QueryLog

service  == <<policy, phase, name, alias, answer>>
log      == <<now, logs, pending>>
handling == <<hpc, request, target, outcome, sent, upstream>>
vars == <<service, log, handling, verdicts>>

\* The results of do_handle_request: Ok, or the response code of the error.
Ok == "ok"
ErrorCode == {"refused", "servfail", "nxdomain"}

Init ==
    /\ Policy!Init
    /\ Log!Init
    /\ hpc = [t \in Task |-> "idle"]
    /\ request = [t \in Task |-> Nothing]
    /\ target = [t \in Task |-> Nothing]
    /\ outcome = [t \in Task |-> "none"]
    /\ sent = [t \in Task |-> <<>>]
    /\ upstream = [t \in Task |-> "none"]
    /\ verdicts = [t \in Task |-> {}]

\* A response as the client tells it apart.
Response == [code: {"noerror"} \cup ErrorCode,
             answer: {"null_address", "records", "cname_records", "empty"}]
-----------------------------------------------------------------------------
\* The server hands a message to handle_request.
Receive(t, req) ==
    /\ hpc[t] = "idle"
    /\ hpc' = [hpc EXCEPT ![t] = "rate_limit"]
    /\ request' = [request EXCEPT ![t] = req]
    /\ UNCHANGED <<service, log, target, outcome, sent, upstream, verdicts>>

\* The rate limiter refuses the request: it is dropped without a response.
RateLimited(t) ==
    /\ hpc[t] = "rate_limit"
    /\ hpc' = [hpc EXCEPT ![t] = "returned"]
    /\ UNCHANGED <<service, log, request, target, outcome, sent, upstream, verdicts>>

\* do_handle_request ends with an error.
Fails(t, code) ==
    /\ hpc' = [hpc EXCEPT ![t] = "error"]
    /\ outcome' = [outcome EXCEPT ![t] = code]

\* The checks before the engine is asked.
Reject(t) ==
    /\ hpc[t] = "rate_limit"
    /\ request[t].kind # "query"
    /\ Fails(t, IF request[t].kind = "malformed" THEN "servfail" ELSE "refused")
    /\ UNCHANGED <<service, log, request, target, sent, upstream, verdicts>>

\* What a policy makes of a name when both calls are answered from it.
Meaning(p, n) ==
    IF get(p.rewrites, n) # None THEN "rewritten" ELSE Policy!Verdict(p, n)

\* engine.get_redirect, and is_blocked unless there is an alias.
Consult(t) ==
    /\ hpc[t] = "rate_limit"
    /\ request[t].kind = "query"
    /\ hpc' = [hpc EXCEPT ![t] = "engine"]
    /\ Policy!Ask(t, request[t].name)
    /\ verdicts' = [verdicts EXCEPT ![t] = {Meaning(policy, request[t].name)}]
    /\ UNCHANGED <<log, request, target, outcome, sent, upstream>>

\* The steps of the engine on the task's question.
Engine(t) ==
    /\ \/ Policy!Redirect(t) \/ Policy!Redirected(t)
       \/ Policy!Decide(t)   \/ Policy!Decided(t)
       \/ Policy!Fail(t)
    /\ UNCHANGED <<log, handling, verdicts>>

\* An update replaces the policy while any number of tasks are being handled.
Publish ==
    /\ policy' \in Published \ {policy}
    /\ Policy!Publish
    /\ verdicts' = [t \in Task |-> IF hpc[t] = "engine"
                                  THEN verdicts[t] \cup {Meaning(policy', name[t])}
                                  ELSE verdicts[t]]
    /\ UNCHANGED <<log, handling>>

\* The engine's answer is at hand.
Answered(t, ans) ==
    /\ hpc[t] = "engine"
    /\ phase[t] = "done"
    /\ answer[t] = ans

EngineError(t) ==
    /\ Answered(t, "error")
    /\ Fails(t, "servfail")
    /\ UNCHANGED <<service, log, request, target, sent, upstream, verdicts>>

\* An alias that is not a legal name is an error; otherwise it is looked up
\* instead of the name.
Rewritten(t) ==
    /\ Answered(t, "rewritten")
    /\ \/ /\ hpc' = [hpc EXCEPT ![t] = "lookup"]
          /\ target' = [target EXCEPT ![t] = alias[t]]
          /\ UNCHANGED outcome
       \/ Fails(t, "servfail") /\ UNCHANGED target
    /\ UNCHANGED <<service, log, request, sent, upstream, verdicts>>

\* Faulty variant of Blocked: a type without a null address is forwarded.
Blocked_forwarding(t) ==
    /\ Answered(t, "blocked")
    /\ IF request[t].type \in {"A", "AAAA"}
       THEN hpc' = [hpc EXCEPT ![t] = "respond"] /\ UNCHANGED target
       ELSE /\ hpc' = [hpc EXCEPT ![t] = "lookup"]
            /\ target' = [target EXCEPT ![t] = request[t].name]
    /\ UNCHANGED <<service, log, request, outcome, sent, upstream, verdicts>>

\* A blocked name has the null address and, for other types, no records.
Blocked(t) ==
    /\ Answered(t, "blocked")
    /\ IF request[t].type \in {"A", "AAAA"}
       THEN hpc' = [hpc EXCEPT ![t] = "respond"] /\ UNCHANGED outcome
       ELSE Fails(t, "nxdomain")
    /\ UNCHANGED <<service, log, request, target, sent, upstream, verdicts>>

Allowed(t) ==
    /\ Answered(t, "allowed")
    /\ hpc' = [hpc EXCEPT ![t] = "lookup"]
    /\ target' = [target EXCEPT ![t] = request[t].name]
    /\ UNCHANGED <<service, log, request, outcome, sent, upstream, verdicts>>

\* The forward resolver ends the lookup in one of its ways.
UpstreamAnswers(t, u) ==
    /\ hpc[t] = "lookup" /\ upstream[t] = "none"
    /\ upstream' = [upstream EXCEPT ![t] = u]
    /\ UNCHANGED <<service, log, hpc, request, target, outcome, sent, verdicts>>

\* Resolver::lookup: NoRecordsFound is no error unless it is an NXDOMAIN.
lookup(u) ==
    IF u \in {"none_nxdomain", "failed"} THEN "err" ELSE Ok

\* Faulty variant of error_code: what the resolver reports is passed through.
error_code_raw(u) == u

\* From<ResolveError> for HandlerError.
error_code(u) == IF u = "none_nxdomain" THEN "nxdomain" ELSE "servfail"

\* Faulty variant of LookupReturns: a failed lookup is tried again for ever.
LookupReturns_retrying(t) ==
    /\ hpc[t] = "lookup" /\ upstream[t] # "none"
    /\ IF lookup(upstream[t]) = Ok
       THEN hpc' = [hpc EXCEPT ![t] = "respond"] /\ UNCHANGED upstream
       ELSE upstream' = [upstream EXCEPT ![t] = "none"] /\ UNCHANGED hpc
    /\ UNCHANGED <<service, log, request, target, outcome, sent, verdicts>>

LookupReturns(t) ==
    /\ hpc[t] = "lookup" /\ upstream[t] # "none"
    /\ IF lookup(upstream[t]) = Ok
       THEN hpc' = [hpc EXCEPT ![t] = "respond"] /\ UNCHANGED outcome
       ELSE Fails(t, error_code(upstream[t]))
    /\ UNCHANGED <<service, log, request, target, sent, upstream, verdicts>>

\* The records of the response.
Records(t) ==
    IF answer[t] = "blocked" THEN "null_address"
    ELSE IF answer[t] = "rewritten" THEN "cname_records"
    ELSE IF upstream[t] = "records" THEN "records" ELSE "empty"

\* Faulty variant of Respond: the handler goes on to the error response after
\* the answer has gone out.
Respond_twice(t) ==
    /\ hpc[t] = "respond"
    /\ sent' = [sent EXCEPT ![t] = Append(@,
                    [code |-> "noerror", answer |-> Records(t)])]
    /\ \/ outcome' = [outcome EXCEPT ![t] = Ok] /\ hpc' = [hpc EXCEPT ![t] = "log"]
       \/ Fails(t, "servfail")
    /\ UNCHANGED <<service, log, request, target, upstream, verdicts>>

\* send_response; a failure to send is an error of do_handle_request.
Respond(t) ==
    /\ hpc[t] = "respond"
    /\ \/ /\ sent' = [sent EXCEPT ![t] = Append(@,
                        [code |-> "noerror", answer |-> Records(t)])]
          /\ outcome' = [outcome EXCEPT ![t] = Ok]
          /\ hpc' = [hpc EXCEPT ![t] = "log"]
       \/ Fails(t, "servfail") /\ UNCHANGED sent
    /\ UNCHANGED <<service, log, request, target, upstream, verdicts>>

\* Faulty variant of RespondError: failed requests are logged as well.
RespondError_logging(t) ==
    /\ hpc[t] = "error"
    /\ sent' = [sent EXCEPT ![t] = Append(@,
                    [code |-> outcome[t], answer |-> "empty"])]
    /\ hpc' = [hpc EXCEPT ![t] = "log"]
    /\ UNCHANGED <<service, log, request, target, outcome, upstream, verdicts>>

\* An error is sent as an empty response; when that fails too, the client gets
\* nothing.
RespondError(t) ==
    /\ hpc[t] = "error"
    /\ \/ sent' = [sent EXCEPT ![t] = Append(@,
                        [code |-> outcome[t], answer |-> "empty"])]
       \/ UNCHANGED sent
    /\ hpc' = [hpc EXCEPT ![t] = "returned"]
    /\ UNCHANGED <<service, log, request, target, outcome, upstream, verdicts>>

\* The entry of an answered query is stamped and inserted.
StampLog(t) ==
    /\ hpc[t] = "log"
    /\ Log!Stamp(t, request[t].ip)
    /\ hpc' = [hpc EXCEPT ![t] = "insert"]
    /\ UNCHANGED <<service, request, target, outcome, sent, upstream, verdicts>>

InsertLog(t) ==
    /\ hpc[t] = "insert"
    /\ Log!Insert(t)
    /\ hpc' = [hpc EXCEPT ![t] = "returned"]
    /\ UNCHANGED <<service, request, target, outcome, sent, upstream, verdicts>>

\* handle_request has returned; its local variables are gone.
Return(t) ==
    /\ hpc[t] = "returned"
    /\ hpc' = [hpc EXCEPT ![t] = "idle"]
    /\ request' = [request EXCEPT ![t] = Nothing]
    /\ target' = [target EXCEPT ![t] = Nothing]
    /\ outcome' = [outcome EXCEPT ![t] = "none"]
    /\ sent' = [sent EXCEPT ![t] = <<>>]
    /\ upstream' = [upstream EXCEPT ![t] = "none"]
    /\ verdicts' = [verdicts EXCEPT ![t] = {}]
    /\ IF phase[t] = "done" THEN Policy!Finish(t) ELSE UNCHANGED service
    /\ UNCHANGED log
-----------------------------------------------------------------------------
TaskStep(t) ==
    \/ RateLimited(t) \/ Reject(t) \/ Consult(t) \/ Engine(t)
    \/ EngineError(t) \/ Rewritten(t) \/ Blocked(t) \/ Allowed(t)
    \/ \E u \in Upstream : UpstreamAnswers(t, u)
    \/ LookupReturns(t) \/ Respond(t) \/ RespondError(t)
    \/ StampLog(t) \/ InsertLog(t) \/ Return(t)

Tick == Log!Tick /\ UNCHANGED <<service, handling, verdicts>>

Next ==
    \/ \E t \in Task : TaskStep(t) \/ \E req \in Request : Receive(t, req)
    \/ Publish
    \/ Tick

Spec == Init /\ [][Next]_vars

\* A task that can go on is polled in the end; hickory's resolver gives up on
\* an upstream server that does not answer, so a lookup ends.
FairSpec == Spec /\ \A t \in Task : WF_vars(TaskStep(t))
-----------------------------------------------------------------------------
(***************************************************************************)
(* Properties.                                                              *)
(***************************************************************************)
TypeOK ==
    /\ hpc \in [Task -> {"idle", "rate_limit", "engine", "lookup", "respond",
                         "error", "log", "insert", "returned"}]
    /\ request \in [Task -> Request \cup {Nothing}]
    /\ target \in [Task -> DomainName \cup {Nothing}]
    /\ outcome \in [Task -> {"none", Ok} \cup ErrorCode]
    /\ sent \in [Task -> Seq(Response)]
    /\ upstream \in [Task -> Upstream \cup {"none"}]
    /\ verdicts \in [Task -> SUBSET {"rewritten", "blocked", "allowed"}]
    /\ Log!TypeOK

\* A request gets one response at most, also when sending the first one has
\* failed and the handler turns to the error response.
OneResponse == \A t \in Task : Len(sent[t]) <= 1

\* When all the policies that were live while the engine was asked agree on a
\* name, that is how the request is treated, whatever fails elsewhere: a name
\* that is blocked throughout is never looked up upstream and never answered
\* with records; one that is allowed or rewritten throughout never gets the
\* null address, and only the rewritten one is looked up under its alias.
TreatedByPolicy ==
    \A t \in Task : hpc[t] \in {"lookup", "respond", "log", "insert"} =>
        \A v \in {"rewritten", "blocked", "allowed"} : verdicts[t] = {v} =>
            /\ v = "blocked" <=> target[t] = Nothing
            /\ v = "allowed" => target[t] = request[t].name
            /\ \A i \in DOMAIN sent[t] :
                  /\ v = "blocked"   <=> sent[t][i].answer = "null_address"
                  /\ v = "rewritten" <=> sent[t][i].answer = "cname_records"

\* The query log tells the truth: an entry is only ever written for a client
\* that has had a successful response to its request, and not before.
LoggedAfterAnswer ==
    [][\A ip \in Ip : logs'[ip] # logs[ip] =>
        \E t \in Task : /\ pending[t] # Nothing /\ pending'[t] = Nothing
                        /\ request[t].ip = ip
                        /\ \E i \in DOMAIN sent[t] : sent[t][i].code = "noerror"]_vars

\* Every request is brought to an end: answered, or given up by the rate
\* limiter or for want of a working connection to the client.
EveryRequestEnds == \A t \in Task : (hpc[t] # "idle") ~> (hpc[t] = "idle")

\* resolver.rs:50, "If the call errors with NoRecordsFound and NoError
\* response_code, we simply return Ok with an empty Vec": a client is told that
\* a name has no records only when the upstream server has said so.
EmptyOnlyOnNoError ==
    \A t \in Task : \A i \in DOMAIN sent[t] :
        sent[t][i] = [code |-> "noerror", answer |-> "empty"] =>
            upstream[t] = "none_noerror"
=============================================================================
