--------------------------- MODULE Handler_proofs ---------------------------
(***************************************************************************)
(* Theorems about the request handler for any number of requests handled at *)
(* the same time, any clients and names, and any policies published while   *)
(* they are.  TLC runs one request at a time.                               *)
(***************************************************************************)
EXTENDS Handler, SequenceTheorems, WellFoundedInduction, TLAPS

\* Every set of natural numbers but the empty one has a least element.
LEMMA LeastNat ==
    ASSUME NEW T \in SUBSET Nat, T # {}
    PROVE  Log!Min(T) \in T /\ \A y \in T : Log!Min(T) <= y
<1> DEFINE less == {ss \in Nat \X Nat : ss[1] < ss[2]}
<1>1. IsWellFoundedOn(less, Nat)
  BY NatLessThanWellFounded DEF OpToRel
<1>2. PICK x \in T : \A y \in T : <<y, x>> \notin less
  <2> HIDE DEF less
  <2> QED
    BY <1>1, WFMin
<1>3. ASSUME NEW y \in T PROVE x <= y
  <2>1. y < x => <<y, x>> \in less
    OBVIOUS
  <2> QED
    BY <1>2, <2>1
<1> QED
  BY <1>3 DEF Log!Min

\* Where a task is that has been told what to do with its name, and does it.
Treating == {"lookup", "respond", "log", "insert"}

\* What is known of the task's question to the engine.  While the engine is
\* being asked the live policy is one of those whose verdicts are collected.
Asked(t) ==
    /\ hpc[t] \in {"idle", "rate_limit"} => phase[t] = "idle" /\ target[t] = Nothing
    /\ hpc[t] = "engine" =>
          /\ phase[t] \in {"get_redirect", "redirected", "is_blocked", "decided", "done"}
          /\ name[t] = request[t].name /\ name[t] \in Query
          /\ target[t] = Nothing
          /\ Meaning(policy, name[t]) \in verdicts[t]
    /\ hpc[t] \in {"error", "returned"} => phase[t] \in {"idle", "done"}
    /\ hpc[t] \in Treating => phase[t] = "done"

\* What the engine has said so far: if all verdicts agree, it agrees with them.
Told(t) ==
    /\ alias[t] \in DomainName \cup {None}
    /\ phase[t] = "decided" => answer[t] \in {"blocked", "allowed"}
    /\ phase[t] = "done" =>
          /\ answer[t] \in {"rewritten", "blocked", "allowed", "error"}
          /\ answer[t] = "rewritten" => alias[t] # None
    /\ \A v : verdicts[t] = {v} =>
          /\ phase[t] = "redirected" => (v = "rewritten" <=> alias[t] # None)
          /\ phase[t] = "is_blocked" => v # "rewritten"
          /\ phase[t] = "decided" => answer[t] = v
          /\ phase[t] = "done" => answer[t] \in {v, "error"}

\* What the task makes of it.
Treated(t) ==
    hpc[t] \in Treating =>
        /\ answer[t] \in {"rewritten", "blocked", "allowed"}
        /\ answer[t] = "blocked" <=> target[t] = Nothing
        /\ answer[t] = "allowed" => target[t] = request[t].name

\* What has been sent and what waits to be logged.
Sent(t) ==
    /\ hpc[t] \in {"idle", "rate_limit", "engine", "lookup", "respond", "error"} =>
          sent[t] = <<>>
    /\ hpc[t] \in {"log", "insert"} =>
          sent[t] = <<[code |-> "noerror", answer |-> Records(t)]>>
    /\ hpc[t] = "returned" => Len(sent[t]) \in {0, 1}
    /\ hpc[t] = "insert" <=> pending[t] # Nothing
    /\ hpc[t] = "insert" => pending[t].ip = request[t].ip

TaskInv(t) ==
    /\ hpc[t] \in {"idle", "rate_limit", "engine", "lookup", "respond", "error",
                   "log", "insert", "returned"}
    /\ hpc[t] # "idle" => request[t] \in Request
    /\ Asked(t) /\ Told(t) /\ Treated(t) /\ Sent(t)

Functions ==
    /\ DOMAIN phase = Task /\ DOMAIN name = Task /\ DOMAIN alias = Task
    /\ DOMAIN answer = Task /\ DOMAIN pending = Task /\ DOMAIN hpc = Task
    /\ DOMAIN request = Task /\ DOMAIN target = Task /\ DOMAIN outcome = Task
    /\ DOMAIN sent = Task /\ DOMAIN upstream = Task /\ DOMAIN verdicts = Task
    /\ DOMAIN logs = Ip
    /\ now \in Nat
    /\ policy \in {Policy!EmptyPolicy} \cup Published

IInv == Functions /\ \A t \in Task : TaskInv(t)
-----------------------------------------------------------------------------
\* The service means the same by a lookup.
LEMMA SameLookup == \A kv, n : Policy!get(kv, n) = get(kv, n)
<1>1. \A n : Policy!keys(n) = keys(n)
  BY DEF keys, star_key, Qualified, Policy!keys, Policy!star_key, Policy!Qualified
<1>2. \A kv, n : Policy!Hits(kv, n) = Hits(kv, n)
  BY <1>1 DEF Hits, Policy!Hits
<1>3. \A S : Policy!Min(S) = Min(S)
  BY DEF Min, Policy!Min
<1> QED
  BY <1>1, <1>2, <1>3 DEF get, Policy!get

LEMMA LegalAlias ==
    ASSUME Functions, NEW n \in Query
    PROVE  get(policy.rewrites, n) \in DomainName \cup {None}
<1>1. Policy!EmptyPolicy.rewrites = EmptyStore
  BY DEF Policy!EmptyPolicy, Policy!EmptyStore, EmptyStore
<1>2. policy.rewrites \in {EmptyStore} \cup {p.rewrites : p \in Published}
  BY <1>1 DEF Functions
<1> QED
  BY <1>2, PublishedAssumption

LEMMA InitInv == Init => IInv
<1> SUFFICES ASSUME Init PROVE IInv
  OBVIOUS
<1>1. Functions
  BY DEF Init, Functions, Policy!Init, Log!Init
<1>2. ASSUME NEW t \in Task PROVE TaskInv(t)
  <2>1. /\ hpc[t] = "idle" /\ target[t] = Nothing /\ sent[t] = <<>> /\ verdicts[t] = {}
        /\ phase[t] = "idle" /\ alias[t] = None /\ pending[t] = Nothing
    BY DEF Init, Policy!Init, Log!Init
  <2> QED
    BY <2>1 DEF TaskInv, Asked, Told, Treated, Treating, Sent
<1> QED
  BY <1>1, <1>2 DEF IInv

\* A step leaves a task alone when it changes nothing that is the task's.
Same(t) ==
    /\ phase'[t] = phase[t] /\ name'[t] = name[t] /\ alias'[t] = alias[t]
    /\ answer'[t] = answer[t] /\ pending'[t] = pending[t] /\ hpc'[t] = hpc[t]
    /\ request'[t] = request[t] /\ target'[t] = target[t] /\ sent'[t] = sent[t]
    /\ upstream'[t] = upstream[t]

LEMMA SameInv ==
    ASSUME NEW t \in Task, TaskInv(t), Same(t), policy' = policy, verdicts'[t] = verdicts[t]
    PROVE  TaskInv(t)'
<1>1. Asked(t)'
  BY DEF TaskInv, Same, Asked, Treating, Meaning, Policy!Verdict
<1>2. Told(t)'
  BY DEF TaskInv, Same, Told
<1>3. Treated(t)'
  BY DEF TaskInv, Same, Treated, Treating
<1>4. Sent(t)'
  BY DEF TaskInv, Same, Sent, Records
<1> QED
  BY <1>1, <1>2, <1>3, <1>4 DEF TaskInv, Same

\* A step of one task t on variables of its own.
LEMMA StepOf ==
    ASSUME IInv, NEW t \in Task, Functions', TaskInv(t)', policy' = policy,
           \A s \in Task \ {t} : Same(s) /\ verdicts'[s] = verdicts[s]
    PROVE  IInv'
<1>1. ASSUME NEW s \in Task, s # t PROVE TaskInv(s)'
  BY <1>1, SameInv DEF IInv
<1> QED
  BY <1>1 DEF IInv

LEMMA ReceiveInv ==
    ASSUME IInv, NEW t \in Task, NEW req \in Request, Receive(t, req) PROVE IInv'
<1> USE DEF IInv, Receive, service, log
<1>1. Functions'
  BY DEF Functions
<1>2. \A s \in Task \ {t} : Same(s) /\ verdicts'[s] = verdicts[s]
  BY DEF Functions, Same
<1>3. TaskInv(t)'
  BY DEF Functions, TaskInv, Asked, Told, Treated, Treating, Sent
<1> QED
  BY <1>1, <1>2, <1>3, StepOf

LEMMA RateLimitedInv ==
    ASSUME IInv, NEW t \in Task, RateLimited(t) PROVE IInv'
<1> USE DEF IInv, RateLimited, service, log
<1>1. Functions'
  BY DEF Functions
<1>2. \A s \in Task \ {t} : Same(s) /\ verdicts'[s] = verdicts[s]
  BY DEF Functions, Same
<1>3. TaskInv(t)'
  <2>1. Len(<<>>) = 0
    OBVIOUS
  <2> QED
    BY <2>1 DEF Functions, TaskInv, Asked, Told, Treated, Treating, Sent
<1> QED
  BY <1>1, <1>2, <1>3, StepOf

LEMMA RejectInv ==
    ASSUME IInv, NEW t \in Task, Reject(t) PROVE IInv'
<1> USE DEF IInv, Reject, Fails, service, log
<1>1. Functions'
  BY DEF Functions
<1>2. \A s \in Task \ {t} : Same(s) /\ verdicts'[s] = verdicts[s]
  BY DEF Functions, Same
<1>3. TaskInv(t)'
  BY DEF Functions, TaskInv, Asked, Told, Treated, Treating, Sent
<1> QED
  BY <1>1, <1>2, <1>3, StepOf

LEMMA ConsultInv ==
    ASSUME IInv, NEW t \in Task, Consult(t) PROVE IInv'
<1> USE DEF IInv, Consult, Policy!Ask, log
<1>1. Functions'
  BY DEF Functions
<1>2. \A s \in Task \ {t} : Same(s) /\ verdicts'[s] = verdicts[s]
  BY DEF Functions, Same
<1>3. /\ hpc'[t] = "engine" /\ phase'[t] = "get_redirect"
      /\ name'[t] = request[t].name /\ request[t] \in Request /\ request' = request
      /\ policy' = policy /\ verdicts'[t] = {Meaning(policy, request[t].name)}
      /\ target'[t] = Nothing /\ alias'[t] = alias[t] /\ sent'[t] = <<>>
      /\ pending'[t] = pending[t] /\ pending[t] = Nothing
  BY DEF Functions, TaskInv, Asked, Sent
<1>4. Asked(t)'
  BY <1>3 DEF Asked, Treating, Request, Meaning, Policy!Verdict
<1>5. TaskInv(t)'
  BY <1>3, <1>4 DEF TaskInv, Told, Treated, Treating, Sent
<1> QED
  BY <1>1, <1>2, <1>5, StepOf

\* The engine answers from the live policy, one call at a time.
LEMMA EngineInv ==
    ASSUME IInv, NEW t \in Task, Engine(t) PROVE IInv'
<1>own. /\ UNCHANGED <<log, handling, verdicts, policy, name>>
        /\ \/ Policy!Redirect(t) \/ Policy!Redirected(t)
           \/ Policy!Decide(t)   \/ Policy!Decided(t) \/ Policy!Fail(t)
  BY DEF Engine, Policy!Redirect, Policy!Redirected, Policy!Decide, Policy!Decided, Policy!Fail
<1>1. Functions'
  BY <1>own DEF IInv, Functions, log, handling,
        Policy!Redirect, Policy!Redirected, Policy!Decide, Policy!Decided, Policy!Fail
<1>2. \A s \in Task \ {t} : Same(s) /\ verdicts'[s] = verdicts[s]
  BY <1>own DEF IInv, Functions, log, handling, Same,
        Policy!Redirect, Policy!Redirected, Policy!Decide, Policy!Decided, Policy!Fail
<1>3. TaskInv(t)'
  <2>1. Functions /\ TaskInv(t) /\ UNCHANGED <<log, handling, verdicts, policy, name>>
    BY <1>own DEF IInv
  <2>2. hpc[t] \in {"engine", "idle", "rate_limit", "error", "returned"} \cup Treating
    BY <2>1 DEF TaskInv, Treating
  <2>3. phase[t] \in {"get_redirect", "redirected", "is_blocked", "decided"}
    BY <1>own DEF Policy!Redirect, Policy!Redirected, Policy!Decide, Policy!Decided, Policy!Fail
  <2>4. hpc[t] = "engine"
    BY <2>1, <2>2, <2>3 DEF TaskInv, Asked
  <2>5. phase'[t] \in {"redirected", "is_blocked", "decided", "done"}
    BY <1>1, <1>own, <2>1 DEF Functions,
        Policy!Redirect, Policy!Redirected, Policy!Decide, Policy!Decided, Policy!Fail
  <2>6. Asked(t)'
    BY <2>1, <2>4, <2>5 DEF TaskInv, Asked, Treating, handling, Meaning, Policy!Verdict
  <2>7. Told(t)'
    <3>1. Meaning(policy, name[t]) \in verdicts[t] /\ name[t] \in Query
      BY <2>1, <2>4 DEF TaskInv, Asked
    <3>2. CASE Policy!Redirect(t)
      <4>1. get(policy.rewrites, name[t]) \in DomainName \cup {None}
        BY <2>1, <3>1, LegalAlias
      <4>2. Meaning(policy, name[t]) = "rewritten" <=> get(policy.rewrites, name[t]) # None
        BY DEF Meaning, Policy!Verdict
      <4>3. phase'[t] = "redirected" /\ alias'[t] = get(policy.rewrites, name[t])
        BY <2>1, <3>2, SameLookup DEF Policy!Redirect, Functions
      <4>4. \A v : verdicts'[t] = {v} => (v = "rewritten" <=> alias'[t] # None)
        BY <2>1, <3>1, <4>2, <4>3
      <4> QED
        BY <4>1, <4>3, <4>4 DEF Told
    <3>3. CASE Policy!Redirected(t)
      <4>1. /\ phase[t] = "redirected" /\ alias' = alias
            /\ \/ alias[t] = None /\ phase'[t] = "is_blocked" /\ answer'[t] = answer[t]
               \/ alias[t] # None /\ phase'[t] = "done" /\ answer'[t] = "rewritten"
        BY <2>1, <3>3 DEF Policy!Redirected, Functions
      <4>2. Told(t) /\ verdicts' = verdicts
        BY <2>1 DEF TaskInv
      <4> QED
        BY <4>1, <4>2 DEF Told
    <3>4. CASE Policy!Decide(t)
      <4>1. Policy!Verdict(policy, name[t]) \in {"blocked", "allowed"}
        BY DEF Policy!Verdict
      <4>2. \/ Meaning(policy, name[t]) = "rewritten"
            \/ Meaning(policy, name[t]) = Policy!Verdict(policy, name[t])
        BY DEF Meaning
      <4>3. phase'[t] = "decided" /\ answer'[t] = Policy!Verdict(policy, name[t])
            /\ alias' = alias /\ phase[t] = "is_blocked"
        BY <2>1, <3>4 DEF Policy!Decide, Functions
      <4> QED
        BY <2>1, <3>1, <4>1, <4>2, <4>3 DEF TaskInv, Told
    <3>5. CASE Policy!Decided(t)
      BY <2>1, <3>5 DEF Policy!Decided, Functions, TaskInv, Told
    <3>6. CASE Policy!Fail(t)
      BY <2>1, <3>6 DEF Policy!Fail, Functions, TaskInv, Told
    <3> QED
      BY <1>own, <3>2, <3>3, <3>4, <3>5, <3>6
  <2> QED
    BY <2>1, <2>4, <2>6, <2>7 DEF TaskInv, Treated, Treating, Sent, handling, log
<1> QED
  BY <1>own, <1>1, <1>2, <1>3, StepOf

LEMMA EngineErrorInv ==
    ASSUME IInv, NEW t \in Task, EngineError(t) PROVE IInv'
<1> USE DEF IInv, EngineError, Answered, Fails, service, log
<1>1. Functions'
  BY DEF Functions
<1>2. \A s \in Task \ {t} : Same(s) /\ verdicts'[s] = verdicts[s]
  BY DEF Functions, Same
<1>3. TaskInv(t)'
  BY DEF Functions, TaskInv, Asked, Told, Treated, Treating, Sent
<1> QED
  BY <1>1, <1>2, <1>3, StepOf

LEMMA RewrittenInv ==
    ASSUME IInv, NEW t \in Task, Rewritten(t) PROVE IInv'
<1> USE DEF IInv, Rewritten, Answered, Fails, service, log
<1>1. Functions'
  BY DEF Functions
<1>2. \A s \in Task \ {t} : Same(s) /\ verdicts'[s] = verdicts[s]
  BY DEF Functions, Same
<1>3. TaskInv(t)'
  BY QueryAssumption, SMTT(20) DEF Functions, TaskInv, Asked, Told, Treated, Treating, Sent
<1> QED
  BY <1>1, <1>2, <1>3, StepOf

LEMMA BlockedInv ==
    ASSUME IInv, NEW t \in Task, Blocked(t) PROVE IInv'
<1> USE DEF IInv, Blocked, Answered, Fails, service, log
<1>1. Functions'
  BY DEF Functions
<1>2. \A s \in Task \ {t} : Same(s) /\ verdicts'[s] = verdicts[s]
  BY DEF Functions, Same
<1>3. TaskInv(t)'
  <2>1. /\ hpc'[t] \in {"respond", "error"} /\ hpc[t] = "engine"
        /\ phase[t] = "done" /\ answer[t] = "blocked" /\ target[t] = Nothing
        /\ request[t] \in Request /\ sent[t] = <<>> /\ pending[t] = Nothing
        /\ Told(t) /\ UNCHANGED <<service, log, request, target, sent, verdicts>>
    BY DEF Functions, TaskInv, Asked, Sent
  <2> QED
    BY <2>1 DEF TaskInv, Asked, Told, Treated, Treating, Sent
<1> QED
  BY <1>1, <1>2, <1>3, StepOf

LEMMA AllowedInv ==
    ASSUME IInv, NEW t \in Task, Allowed(t) PROVE IInv'
<1> USE DEF IInv, Allowed, Answered, service, log
<1>1. Functions'
  BY DEF Functions
<1>2. \A s \in Task \ {t} : Same(s) /\ verdicts'[s] = verdicts[s]
  BY DEF Functions, Same
<1>3. TaskInv(t)'
  <2>1. request[t].name # Nothing
    BY QueryAssumption DEF TaskInv, Request
  <2> QED
    BY <2>1 DEF Functions, TaskInv, Asked, Told, Treated, Treating, Sent
<1> QED
  BY <1>1, <1>2, <1>3, StepOf

LEMMA UpstreamAnswersInv ==
    ASSUME IInv, NEW t \in Task, NEW u \in Upstream, UpstreamAnswers(t, u) PROVE IInv'
<1> USE DEF IInv, UpstreamAnswers, service, log
<1>1. Functions'
  BY DEF Functions
<1>2. \A s \in Task \ {t} : Same(s) /\ verdicts'[s] = verdicts[s]
  BY DEF Functions, Same
<1>3. TaskInv(t)'
  BY DEF Functions, TaskInv, Asked, Told, Treated, Treating, Sent
<1> QED
  BY <1>1, <1>2, <1>3, StepOf

LEMMA LookupReturnsInv ==
    ASSUME IInv, NEW t \in Task, LookupReturns(t) PROVE IInv'
<1> USE DEF IInv, LookupReturns, Fails, service, log
<1>1. Functions'
  BY DEF Functions
<1>2. \A s \in Task \ {t} : Same(s) /\ verdicts'[s] = verdicts[s]
  BY DEF Functions, Same
<1>3. TaskInv(t)'
  BY DEF Functions, TaskInv, Asked, Told, Treated, Treating, Sent
<1> QED
  BY <1>1, <1>2, <1>3, StepOf

\* Nothing has been sent before: what goes out now is the only response.
LEMMA RespondInv ==
    ASSUME IInv, NEW t \in Task, Respond(t) PROVE IInv'
<1> USE DEF IInv, Respond, Fails, service, log
<1>1. Functions'
  BY DEF Functions
<1>2. \A s \in Task \ {t} : Same(s) /\ verdicts'[s] = verdicts[s]
  BY DEF Functions, Same
<1>3. TaskInv(t)'
  <2>1. /\ hpc[t] = "respond" /\ sent[t] = <<>> /\ pending[t] = Nothing
        /\ \/ /\ hpc'[t] = "log"
              /\ sent'[t] = Append(sent[t], [code |-> "noerror", answer |-> Records(t)])
           \/ hpc'[t] = "error" /\ sent'[t] = <<>>
    BY DEF Functions, TaskInv, Sent
  <2>2. Append(<<>>, [code |-> "noerror", answer |-> Records(t)])
            = <<[code |-> "noerror", answer |-> Records(t)]>>
    OBVIOUS
  <2>3. Records(t)' = Records(t)
    BY DEF Records
  <2>4. Sent(t)'
    BY <2>1, <2>2, <2>3 DEF Sent
  <2> QED
    BY <2>1, <2>4 DEF TaskInv, Asked, Told, Treated, Treating
<1> QED
  BY <1>1, <1>2, <1>3, StepOf

LEMMA RespondErrorInv ==
    ASSUME IInv, NEW t \in Task, RespondError(t) PROVE IInv'
<1> USE DEF IInv, RespondError, service, log
<1>1. Functions'
  BY DEF Functions
<1>2. \A s \in Task \ {t} : Same(s) /\ verdicts'[s] = verdicts[s]
  BY DEF Functions, Same
<1>3. TaskInv(t)'
  <2>1. /\ hpc[t] = "error" /\ hpc'[t] = "returned" /\ pending[t] = Nothing
        /\ \/ sent'[t] = Append(<<>>, [code |-> outcome[t], answer |-> "empty"])
           \/ sent'[t] = <<>>
    BY DEF Functions, TaskInv, Sent
  <2>2. Len(<<>>) = 0 /\ Len(Append(<<>>, [code |-> outcome[t], answer |-> "empty"])) = 1
    OBVIOUS
  <2>3. Sent(t)'
    BY <2>1, <2>2 DEF Sent
  <2> QED
    BY <2>1, <2>3 DEF TaskInv, Asked, Told, Treated, Treating
<1> QED
  BY <1>1, <1>2, <1>3, StepOf

LEMMA StampLogInv ==
    ASSUME IInv, NEW t \in Task, StampLog(t) PROVE IInv'
<1> USE DEF IInv, StampLog, Log!Stamp, service
<1>1. Functions'
  BY DEF Functions
<1>2. \A s \in Task \ {t} : Same(s) /\ verdicts'[s] = verdicts[s]
  BY DEF Functions, Same
<1>3. TaskInv(t)'
  <2>1. /\ hpc[t] = "log" /\ hpc'[t] = "insert"
        /\ pending'[t] = [ip |-> request[t].ip, query_time |-> now]
        /\ request[t] \in Request /\ now \in Nat
    BY DEF Functions, TaskInv
  <2>2. pending'[t] # Nothing
    BY <2>1, EntryAssumption DEF Request
  <2>3. sent[t] = <<[code |-> "noerror", answer |-> Records(t)]>> /\ Records(t)' = Records(t)
    BY <2>1 DEF TaskInv, Sent, Records
  <2>4. pending'[t].ip = request'[t].ip
    BY <2>1
  <2>5. Sent(t)'
    BY <2>1, <2>2, <2>3, <2>4 DEF Sent
  <2> QED
    BY <2>1, <2>5 DEF TaskInv, Asked, Told, Treated, Treating
<1> QED
  BY <1>1, <1>2, <1>3, StepOf

LEMMA InsertLogInv ==
    ASSUME IInv, NEW t \in Task, InsertLog(t) PROVE IInv'
<1> USE DEF IInv, InsertLog, Log!Insert, service
<1>1. Functions'
  BY DEF Functions
<1>2. \A s \in Task \ {t} : Same(s) /\ verdicts'[s] = verdicts[s]
  BY DEF Functions, Same
<1>3. TaskInv(t)'
  <2>1. Len(<<[code |-> "noerror", answer |-> Records(t)]>>) = 1
    OBVIOUS
  <2> QED
    BY <2>1 DEF Functions, TaskInv, Asked, Told, Treated, Treating, Sent
<1> QED
  BY <1>1, <1>2, <1>3, StepOf

LEMMA ReturnInv ==
    ASSUME IInv, NEW t \in Task, Return(t) PROVE IInv'
<1> USE DEF IInv, Return, Policy!Finish, service, log
<1>1. Functions'
  BY DEF Functions
<1>2. \A s \in Task \ {t} : Same(s) /\ verdicts'[s] = verdicts[s]
  BY DEF Functions, Same
<1>3. TaskInv(t)'
  BY DEF Functions, TaskInv, Asked, Told, Treated, Treating, Sent
<1> QED
  BY <1>1, <1>2, <1>3, StepOf
-----------------------------------------------------------------------------
\* A new policy adds its verdict to those of the tasks that are asking.
LEMMA PublishInv == ASSUME IInv, Publish PROVE IInv'
<1>own. UNCHANGED <<phase, name, alias, answer, log, handling>>
  BY DEF Publish, Policy!Publish
<1>1. Functions'
  BY <1>own DEF IInv, Functions, log, handling, Publish
<1>2. ASSUME NEW t \in Task PROVE TaskInv(t)'
  <2>1. TaskInv(t) /\ verdicts'[t] = IF hpc[t] = "engine"
                                    THEN verdicts[t] \cup {Meaning(policy', name[t])}
                                    ELSE verdicts[t]
    BY <1>2 DEF IInv, Publish
  <2>2. ASSUME NEW v, verdicts'[t] = {v} PROVE verdicts[t] = {v}
    <3>1. hpc[t] = "engine" => verdicts[t] # {}
      BY <2>1 DEF TaskInv, Asked
    <3> QED
      BY <2>1, <2>2, <3>1
  <2>3. Asked(t)'
    BY <1>own, <2>1 DEF TaskInv, Asked, Treating, handling, Meaning, Policy!Verdict
  <2>4. Told(t)'
    BY <1>own, <2>1, <2>2 DEF TaskInv, Told
  <2> QED
    BY <1>own, <2>1, <2>3, <2>4 DEF TaskInv, Treated, Treating, Sent, Records, handling, log
<1> QED
  BY <1>1, <1>2 DEF IInv

LEMMA StepInv == IInv /\ [Next]_vars => IInv'
<1> SUFFICES ASSUME IInv, [Next]_vars PROVE IInv'
  OBVIOUS
<1>1. ASSUME NEW t \in Task, TaskStep(t) PROVE IInv'
  BY <1>1, RateLimitedInv, RejectInv, ConsultInv, EngineInv, EngineErrorInv,
     RewrittenInv, BlockedInv, AllowedInv, UpstreamAnswersInv, LookupReturnsInv,
     RespondInv, RespondErrorInv, StampLogInv, InsertLogInv, ReturnInv DEF TaskStep
<1>2. ASSUME NEW t \in Task, NEW req \in Request, Receive(t, req) PROVE IInv'
  BY <1>2, ReceiveInv
<1>3. CASE Tick \/ UNCHANGED vars
  <2>1. UNCHANGED <<service, logs, pending, handling, verdicts>> /\ now' \in Nat
    BY <1>3 DEF IInv, Functions, Tick, Log!Tick, vars, log
  <2>2. Functions'
    BY <2>1 DEF IInv, Functions, service, handling
  <2>3. ASSUME NEW t \in Task PROVE TaskInv(t)'
    BY <2>1, <2>3, SameInv DEF IInv, Same, service, handling
  <2> QED
    BY <2>2, <2>3 DEF IInv
<1> QED
  BY <1>1, <1>2, <1>3, PublishInv DEF Next

LEMMA Invariance == Spec => []IInv
  BY InitInv, StepInv, PTL DEF Spec

\* However many requests are handled at the same time, and whatever fails, none
\* gets a second response.
THEOREM AtMostOnce == Spec => []OneResponse
<1>1. IInv => OneResponse
  <2> SUFFICES ASSUME IInv, NEW t \in Task PROVE Len(sent[t]) <= 1
    BY DEF OneResponse
  <2>1. Sent(t) /\ hpc[t] \in {"idle", "rate_limit", "engine", "lookup", "respond",
                              "error", "log", "insert", "returned"}
    BY DEF IInv, TaskInv
  <2>2. Len(<<>>) = 0 /\ Len(<<[code |-> "noerror", answer |-> Records(t)]>>) = 1
    OBVIOUS
  <2>3. \/ sent[t] = <<>> \/ Len(sent[t]) \in {0, 1}
        \/ sent[t] = <<[code |-> "noerror", answer |-> Records(t)]>>
    BY <2>1 DEF Sent
  <2>4. \A n \in {0, 1} : n <= 1
    OBVIOUS
  <2> QED
    BY <2>2, <2>3, <2>4
<1> QED
  BY <1>1, Invariance, PTL

\* With any policies, published at any moments of any number of requests, what
\* they agree on is what happens.
THEOREM PolicyRules == Spec => []TreatedByPolicy
<1>1. IInv => TreatedByPolicy
  <2> SUFFICES ASSUME IInv, NEW t \in Task, hpc[t] \in Treating,
                      NEW v \in {"rewritten", "blocked", "allowed"}, verdicts[t] = {v}
               PROVE  /\ v = "blocked" <=> target[t] = Nothing
                      /\ v = "allowed" => target[t] = request[t].name
                      /\ \A i \in DOMAIN sent[t] :
                            /\ v = "blocked"   <=> sent[t][i].answer = "null_address"
                            /\ v = "rewritten" <=> sent[t][i].answer = "cname_records"
    BY DEF TreatedByPolicy, Treating
  <2>1. answer[t] = v /\ Treated(t) /\ Sent(t)
    BY DEF IInv, TaskInv, Asked, Told, Treated
  <2>2. \/ sent[t] = <<>>
        \/ sent[t] = <<[code |-> "noerror", answer |-> Records(t)]>>
    BY <2>1 DEF Sent, Treating
  <2>3. \A i \in DOMAIN sent[t] : sent[t][i].answer = Records(t)
    BY <2>2
  <2>4. /\ v = "blocked"   <=> Records(t) = "null_address"
        /\ v = "rewritten" <=> Records(t) = "cname_records"
    BY <2>1 DEF Records
  <2> QED
    BY <2>1, <2>3, <2>4 DEF Treated
<1> QED
  BY <1>1, Invariance, PTL

\* Only the step that ends a request changes the log, whoever else is handled.
LEMMA OnlyInsertLogs ==
    ASSUME IInv, [Next]_vars, logs' # logs
    PROVE  \E t \in Task : InsertLog(t)
BY DEF Next, TaskStep, RateLimited, Reject, Consult, Engine, EngineError, Rewritten,
       Blocked, Allowed, UpstreamAnswers, LookupReturns, Respond, RespondError,
       StampLog, Log!Stamp, Return, Receive, Publish, Tick, Log!Tick, vars, log

\* With any number of clients and requests at the same time, no entry is
\* written for one that has not had its answer.
THEOREM LogIsTrue == Spec => LoggedAfterAnswer
<1>1. IInv /\ [Next]_vars =>
        [\A ip \in Ip : logs'[ip] # logs[ip] =>
            \E t \in Task : /\ pending[t] # Nothing /\ pending'[t] = Nothing
                            /\ request[t].ip = ip
                            /\ \E i \in DOMAIN sent[t] : sent[t][i].code = "noerror"]_vars
  <2> SUFFICES ASSUME IInv, [Next]_vars, NEW ip \in Ip, logs'[ip] # logs[ip]
               PROVE  \E t \in Task : /\ pending[t] # Nothing /\ pending'[t] = Nothing
                                      /\ request[t].ip = ip
                                      /\ \E i \in DOMAIN sent[t] : sent[t][i].code = "noerror"
    OBVIOUS
  <2>1. PICK t \in Task : InsertLog(t)
    BY OnlyInsertLogs
  <2>2. pending[t] # Nothing /\ pending'[t] = Nothing /\ pending[t].ip = ip
    BY <2>1 DEF InsertLog, Log!Insert, IInv, Functions
  <2>3. request[t].ip = ip /\ sent[t] = <<[code |-> "noerror", answer |-> Records(t)]>>
    BY <2>1, <2>2 DEF InsertLog, IInv, TaskInv, Sent
  <2>4. 1 \in DOMAIN sent[t] /\ sent[t][1].code = "noerror"
    BY <2>3
  <2> QED
    BY <2>2, <2>3, <2>4
<1> QED
  BY <1>1, Invariance, PTL DEF Spec, LoggedAfterAnswer
-----------------------------------------------------------------------------
\* What an insert leaves of a deque is a deque.
LEMMA DequeRemains ==
    ASSUME NEW entries \in Seq(Nat)
    PROVE  Log!Capped(Log!Evicted(entries)) \in Seq(Nat)
<1> DEFINE fresh == {i \in DOMAIN entries : Log!Fresh(entries[i])}
           n == Len(entries)
<1>1. n \in Nat /\ DOMAIN entries = 1 .. n /\ \A i \in 1 .. n : entries[i] \in Nat
  BY LenProperties, ElementOfSeq
<1>2. Log!Evicted(entries) \in Seq(Nat)
  <2>1. CASE fresh = {}
    BY <2>1 DEF Log!Evicted
  <2>2. CASE fresh # {}
    <3>1. Log!Min(fresh) \in fresh
      <4>1. fresh \in SUBSET Nat
        BY <1>1
      <4> HIDE DEF fresh
      <4> QED
        BY <4>1, <2>2, LeastNat
    <3> DEFINE m == Log!Min(fresh)
    <3>2. Log!Evicted(entries) = SubSeq(entries, m, n)
      BY <2>2 DEF Log!Evicted
    <3>3. m \in 1 .. n
      BY <1>1, <3>1
    <3> HIDE DEF m, n
    <3>4. m \in Int /\ n \in Int /\ \A i \in m .. n : entries[i] \in Nat
      BY <1>1, <3>3
    <3> QED
      BY <3>2, <3>4, SubSeqProperties
  <2> QED
    BY <2>1, <2>2
<1>3. Log!Evicted(entries) # <<>> => Tail(Log!Evicted(entries)) \in Seq(Nat)
  BY <1>2, HeadTailProperties
<1>4. Len(Log!Evicted(entries)) >= MAX_PER_IP => Log!Evicted(entries) # <<>>
  BY <1>2, LogAssumption
<1> QED
  BY <1>2, <1>3, <1>4 DEF Log!Capped


\* The error response has the code of an error.
Coded(t) == hpc[t] = "error" => outcome[t] \in ErrorCode

Types == TypeOK /\ \A t \in Task : Coded(t)

LEMMA InsertTypes ==
    ASSUME IInv, Types, NEW t \in Task, InsertLog(t) PROVE Types'
<1>1. pending[t] \in [ip: Ip, query_time: Nat]
  BY DEF Types, TypeOK, Log!TypeOK, InsertLog, Log!Insert
<1> DEFINE ip   == pending[t].ip
           left == Log!Capped(Log!Evicted(logs[ip]))
<1>2. left \in Seq(Nat)
  <2>1. logs[ip] \in Seq(Nat)
    BY <1>1 DEF Types, TypeOK, Log!TypeOK
  <2> QED
    BY <2>1, DequeRemains
<1>3. /\ logs' = [logs EXCEPT ![ip] = Append(left, pending[t].query_time)]
      /\ pending' = [pending EXCEPT ![t] = Nothing] /\ now' = now
  BY DEF InsertLog, Log!Insert
<1> HIDE DEF left
<1>4. Append(left, pending[t].query_time) \in Seq(Nat)
  BY <1>1, <1>2, AppendProperties
<1> HIDE DEF ip
<1>5. Log!TypeOK'
  BY <1>3, <1>4 DEF Types, TypeOK, Log!TypeOK
<1>6. TypeOK'
  BY <1>5 DEF Types, TypeOK, InsertLog
<1> QED
  BY <1>6 DEF Types, TypeOK, Coded, InsertLog

\* Sending appends a response to those the client has had.
LEMMA RespondTypes ==
    ASSUME IInv, Types, NEW t \in Task, Respond(t) PROVE Types'
<1>1. sent[t] \in Seq(Response)
  BY DEF Types, TypeOK
<1>2. [code |-> "noerror", answer |-> Records(t)] \in Response
  BY DEF Records, Response
<1> DEFINE more == Append(sent[t], [code |-> "noerror", answer |-> Records(t)])
<1>3. more \in Seq(Response)
  BY <1>1, <1>2, AppendProperties
<1>4. \/ sent' = [sent EXCEPT ![t] = more] /\ hpc' = [hpc EXCEPT ![t] = "log"]
         /\ outcome' = [outcome EXCEPT ![t] = Ok]
      \/ sent' = sent /\ hpc' = [hpc EXCEPT ![t] = "error"]
         /\ outcome' = [outcome EXCEPT ![t] = "servfail"]
  BY DEF Respond, Fails
<1>5. UNCHANGED <<log, request, target, upstream, verdicts>>
  BY DEF Respond
<1> HIDE DEF more
<1>6. hpc' \in [Task -> {"idle", "rate_limit", "engine", "lookup", "respond",
                         "error", "log", "insert", "returned"}]
  BY <1>4 DEF Types, TypeOK
<1>7. outcome' \in [Task -> {"none", Ok} \cup ErrorCode]
  BY <1>4 DEF Types, TypeOK, ErrorCode
<1>8. sent' \in [Task -> Seq(Response)]
  BY <1>3, <1>4 DEF Types, TypeOK
<1>9. \A s \in Task : Coded(s)'
  BY <1>4 DEF Types, TypeOK, Coded, ErrorCode
<1> QED
  BY <1>5, <1>6, <1>7, <1>8, <1>9 DEF Types, TypeOK, Log!TypeOK, log

LEMMA RespondErrorTypes ==
    ASSUME IInv, Types, NEW t \in Task, RespondError(t) PROVE Types'
<1>1. sent[t] \in Seq(Response) /\ outcome[t] \in ErrorCode
  BY DEF Types, TypeOK, Coded, RespondError
<1>2. [code |-> outcome[t], answer |-> "empty"] \in Response
  BY <1>1 DEF Response
<1> DEFINE more == Append(sent[t], [code |-> outcome[t], answer |-> "empty"])
<1>3. more \in Seq(Response)
  BY <1>1, <1>2, AppendProperties
<1>4. \/ sent' = [sent EXCEPT ![t] = more]
      \/ sent' = sent
  BY DEF RespondError
<1>5. /\ hpc' = [hpc EXCEPT ![t] = "returned"]
      /\ UNCHANGED <<log, request, target, outcome, upstream, verdicts>>
  BY DEF RespondError
<1> HIDE DEF more
<1>6. sent' \in [Task -> Seq(Response)]
  BY <1>3, <1>4 DEF Types, TypeOK
<1>7. TypeOK'
  BY <1>5, <1>6 DEF Types, TypeOK, Log!TypeOK, log
<1> QED
  BY <1>5, <1>7 DEF Types, TypeOK, Coded

LEMMA StampTypes ==
    ASSUME IInv, Types, NEW t \in Task, StampLog(t) PROVE Types'
<1>1. [ip |-> request[t].ip, query_time |-> now] \in [ip: Ip, query_time: Nat]
  BY DEF IInv, Functions, TaskInv, StampLog, Request
<1>2. Log!TypeOK'
  BY <1>1 DEF Types, TypeOK, Log!TypeOK, StampLog, Log!Stamp
<1> QED
  BY <1>2 DEF Types, TypeOK, Coded, StampLog

LEMMA ReturnTypes ==
    ASSUME IInv, Types, NEW t \in Task, Return(t) PROVE Types'
<1>1. <<>> \in Seq(Response)
  OBVIOUS
<1> QED
  BY <1>1 DEF Types, TypeOK, Coded, Log!TypeOK, Return, log

LEMMA UnansweredTypes ==
    ASSUME IInv, Types, NEW t \in Task, RateLimited(t) PROVE Types'
BY DEF Types, TypeOK, Coded, Log!TypeOK, log, RateLimited

LEMMA UpstreamTypes ==
    ASSUME IInv, Types, NEW t \in Task, NEW u \in Upstream, UpstreamAnswers(t, u)
    PROVE  Types'
<1>1. /\ upstream' = [upstream EXCEPT ![t] = u]
      /\ UNCHANGED <<log, hpc, request, target, outcome, sent, verdicts>>
  BY DEF UpstreamAnswers
<1>2. upstream' \in [Task -> Upstream \cup {"none"}]
  BY <1>1 DEF Types, TypeOK
<1> QED
  BY <1>1, <1>2 DEF Types, TypeOK, Coded, Log!TypeOK, log

LEMMA FailsTypes ==
    ASSUME IInv, Types, NEW t \in Task,
           Reject(t) \/ EngineError(t) \/ Blocked(t) \/ LookupReturns(t)
    PROVE  Types'
<1>1. /\ \/ \E code \in ErrorCode : Fails(t, code)
         \/ hpc' = [hpc EXCEPT ![t] = "respond"] /\ UNCHANGED outcome
      /\ UNCHANGED <<log, request, target, sent, upstream, verdicts>>
  BY DEF Reject, EngineError, Blocked, LookupReturns, ErrorCode, error_code
<1>2. hpc' \in [Task -> {"idle", "rate_limit", "engine", "lookup", "respond",
                         "error", "log", "insert", "returned"}]
  BY <1>1 DEF Types, TypeOK, Fails
<1>3. outcome' \in [Task -> {"none", Ok} \cup ErrorCode]
  BY <1>1 DEF Types, TypeOK, Fails
<1>4. \A s \in Task : Coded(s)'
  BY <1>1 DEF Types, TypeOK, Coded, Fails
<1> QED
  BY <1>1, <1>2, <1>3, <1>4 DEF Types, TypeOK, Log!TypeOK, log

\* What is looked up is a legal name.
LEMMA TargetTypes ==
    ASSUME IInv, Types, NEW t \in Task, Rewritten(t) \/ Allowed(t) PROVE Types'
<1>1. CASE Rewritten(t)
  <2>1. alias[t] \in DomainName
    BY <1>1 DEF IInv, TaskInv, Told, Rewritten, Answered
  <2> QED
    BY <1>1, <2>1 DEF Types, TypeOK, Coded, Log!TypeOK, log, ErrorCode, Fails, Rewritten
<1>2. CASE Allowed(t)
  <2>1. request[t].name \in DomainName
    BY <1>2, QueryAssumption DEF IInv, TaskInv, Allowed, Answered, Request
  <2> QED
    BY <1>2, <2>1 DEF Types, TypeOK, Coded, Log!TypeOK, log, Allowed
<1> QED
  BY <1>1, <1>2

\* A verdict is one of three.
LEMMA AskingTypes ==
    ASSUME IInv, Types, Publish \/ \E t \in Task : Consult(t) \/ Engine(t) PROVE Types'
<1>1. \A p, n : Meaning(p, n) \in {"rewritten", "blocked", "allowed"}
  BY DEF Meaning, Policy!Verdict
<1>2. CASE Publish
  BY <1>1, <1>2 DEF Types, TypeOK, Coded, Log!TypeOK, log, handling, Publish
<1>3. ASSUME NEW t \in Task, Consult(t) PROVE Types'
  BY <1>1, <1>3 DEF Types, TypeOK, Coded, Log!TypeOK, log, Consult
<1>4. ASSUME NEW t \in Task, Engine(t) PROVE Types'
  BY <1>4 DEF Types, TypeOK, Coded, Log!TypeOK, log, handling, Engine
<1> QED
  BY <1>2, <1>3, <1>4

LEMMA StepTypes == IInv /\ Types /\ [Next]_vars => Types'
<1> SUFFICES ASSUME IInv, Types, [Next]_vars PROVE Types'
  OBVIOUS
<1>1. ASSUME NEW t \in Task, TaskStep(t) PROVE Types'
  BY <1>1, InsertTypes, RespondTypes, RespondErrorTypes, StampTypes, ReturnTypes,
     UnansweredTypes, UpstreamTypes, FailsTypes, TargetTypes, AskingTypes DEF TaskStep
<1>2. ASSUME NEW t \in Task, NEW req \in Request, Receive(t, req) PROVE Types'
  BY <1>2 DEF Types, TypeOK, Coded, Log!TypeOK, log, Receive
<1>3. CASE Tick
  <2>1. now' \in 0 .. MaxTime /\ UNCHANGED <<logs, pending, handling, verdicts>>
    BY <1>3, LogAssumption DEF Tick, Log!Tick, Types, TypeOK, Log!TypeOK
  <2> QED
    BY <2>1 DEF Types, TypeOK, Coded, Log!TypeOK, handling
<1>4. CASE UNCHANGED vars
  BY <1>4 DEF Types, TypeOK, Coded, Log!TypeOK, vars, log, handling
<1> QED
  BY <1>1, <1>2, <1>3, <1>4, AskingTypes DEF Next

\* The handler never looks up anything but legal names, nor sends a code that
\* is none, for any number of requests at the same time.
THEOREM TypeCorrect == Spec => []TypeOK
<1>1. Init => Types
  BY LogAssumption DEF Init, Policy!Init, Log!Init, Types, TypeOK, Coded, Log!TypeOK
<1>2. IInv /\ Types /\ [Next]_vars => Types'
  BY StepTypes
<1>3. Types => TypeOK
  BY DEF Types
<1> QED
  BY <1>1, <1>2, <1>3, Invariance, PTL DEF Spec
-----------------------------------------------------------------------------
(***************************************************************************)
(* The handler uses what it calls as it is meant to be used: a behaviour of *)
(* requests is one of the log, and one of the policy service, on which it   *)
(* makes no steps of its own.  What is proved of those holds here too.      *)
(***************************************************************************)

\* The steps of a task that the log does not see.
LEMMA TaskLogs ==
    ASSUME IInv, NEW t \in Task, TaskStep(t)
    PROVE  [Log!Next]_(Log!vars)
<1>1. CASE StampLog(t)
  <2>1. request[t].ip \in Ip
    BY <1>1 DEF IInv, TaskInv, StampLog, Request
  <2> QED
    BY <1>1, <2>1 DEF StampLog, Log!Next
<1>2. CASE InsertLog(t)
  BY <1>2 DEF InsertLog, Log!Next
<1>3. CASE ~StampLog(t) /\ ~InsertLog(t)
  <2>1. UNCHANGED log
    BY <1>3 DEF TaskStep, RateLimited, Reject, Consult, Engine, EngineError, Rewritten,
                Blocked, Allowed, UpstreamAnswers, LookupReturns, Respond, RespondError,
                Return
  <2> QED
    BY <2>1 DEF log, Log!vars
<1> QED
  BY <1>1, <1>2, <1>3

\* With any number of requests at the same time, each entry is stamped for a
\* client address once and inserted once, and the clock waits for the handlers:
\* the cap, the order and the losses of the log are those of QueryLog.
THEOREM LogAsSpecified == Spec => Log!Spec
<1>1. Init => Log!Init
  BY DEF Init
<1>2. IInv /\ [Next]_vars => [Log!Next]_(Log!vars)
  <2> SUFFICES ASSUME IInv, [Next]_vars PROVE [Log!Next]_(Log!vars)
    OBVIOUS
  <2>1. ASSUME NEW t \in Task, TaskStep(t) PROVE [Log!Next]_(Log!vars)
    BY <2>1, TaskLogs
  <2>2. CASE Tick
    BY <2>2 DEF Tick, Log!Next
  <2>3. ASSUME UNCHANGED log PROVE [Log!Next]_(Log!vars)
    BY <2>3 DEF log, Log!vars
  <2>4. CASE Publish \/ UNCHANGED vars \/ \E t \in Task, req \in Request : Receive(t, req)
    BY <2>3, <2>4 DEF Publish, vars, Receive
  <2> QED
    BY <2>1, <2>2, <2>4 DEF Next
<1> QED
  BY <1>1, <1>2, Invariance, PTL DEF Spec, Log!Spec

\* A task's own steps on the service are those of one query.
LEMMA TaskAsks ==
    ASSUME IInv, NEW t \in Task, TaskStep(t)
    PROVE  [Policy!Next]_(Policy!vars)
<1>1. CASE Consult(t)
  <2>1. request[t].name \in Query
    BY <1>1 DEF IInv, TaskInv, Consult, Request
  <2> QED
    BY <1>1, <2>1 DEF Consult, Policy!Next
<1>2. CASE Engine(t)
  BY <1>2 DEF Engine, Policy!Next
<1>3. CASE Return(t)
  <2>1. Policy!Finish(t) \/ UNCHANGED service
    BY <1>3 DEF Return
  <2> QED
    BY <2>1 DEF service, Policy!vars, Policy!Next
<1>4. CASE ~Consult(t) /\ ~Engine(t) /\ ~Return(t)
  <2>1. UNCHANGED service
    BY <1>4 DEF TaskStep, RateLimited, Reject, EngineError, Rewritten, Blocked, Allowed,
                UpstreamAnswers, LookupReturns, Respond, RespondError, StampLog, InsertLog
  <2> QED
    BY <2>1 DEF service, Policy!vars
<1> QED
  BY <1>1, <1>2, <1>3, <1>4

\* With any number of requests at the same time, each asks the engine one
\* question at a time, about a name of a query, and forgets the answer before
\* the next: what AdblockEngine is shown to implement is what the handler uses.
THEOREM EngineAsSpecified == Spec => Policy!Spec
<1>1. Init => Policy!Init
  BY DEF Init
<1>2. IInv /\ [Next]_vars => [Policy!Next]_(Policy!vars)
  <2> SUFFICES ASSUME IInv, [Next]_vars PROVE [Policy!Next]_(Policy!vars)
    OBVIOUS
  <2>1. ASSUME NEW t \in Task, TaskStep(t) PROVE [Policy!Next]_(Policy!vars)
    BY <2>1, TaskAsks
  <2>2. CASE Publish
    BY <2>2 DEF Publish, Policy!Next
  <2>3. ASSUME UNCHANGED service PROVE [Policy!Next]_(Policy!vars)
    BY <2>3 DEF service, Policy!vars
  <2>4. CASE Tick \/ UNCHANGED vars \/ \E t \in Task, req \in Request : Receive(t, req)
    BY <2>3, <2>4 DEF Tick, vars, Receive
  <2> QED
    BY <2>1, <2>2, <2>4 DEF Next
<1> QED
  BY <1>1, <1>2, Invariance, PTL DEF Spec, Policy!Spec
=============================================================================
