--------------------------- MODULE PolicyService ---------------------------
(***************************************************************************)
(* What the engine promises its callers, with no database in sight: there   *)
(* is one policy at a time, it is replaced as a whole, and each of the two  *)
(* calls a query makes (get_redirect, is_blocked) is answered from the      *)
(* policy of one instant between the call and its return, or fails.         *)
(***************************************************************************)
EXTENDS Lookup

CONSTANTS
    Reader,     \* the tasks that handle a DNS query
    Query       \* the names they ask about

VARIABLES
    policy,     \* [whitelist, blacklist, rewrites], each the content of a store
    phase,      \* how far each query has come
    name,       \* the name each query asks about
    alias,      \* what get_redirect answers it
    answer      \* what the engine makes of the query
vars == <<policy, phase, name, alias, answer>>

EmptyPolicy ==
    [whitelist |-> EmptyStore, blacklist |-> EmptyStore, rewrites |-> EmptyStore]

\* The whitelist wins over the blacklist.
Verdict(p, n) ==
    IF contains(p.blacklist, n) /\ ~contains(p.whitelist, n)
    THEN "blocked" ELSE "allowed"

Init ==
    /\ policy = EmptyPolicy
    /\ phase = [r \in Reader |-> "idle"]
    /\ name \in [Reader -> Query]
    /\ alias = [r \in Reader |-> None]
    /\ answer = [r \in Reader |-> "none"]

\* The query calls get_redirect.
Ask(r, n) ==
    /\ phase[r] = "idle"
    /\ phase' = [phase EXCEPT ![r] = "get_redirect"]
    /\ name' = [name EXCEPT ![r] = n]
    /\ UNCHANGED <<policy, alias, answer>>

\* The instant get_redirect is answered at.
Redirect(r) ==
    /\ phase[r] = "get_redirect"
    /\ phase' = [phase EXCEPT ![r] = "redirected"]
    /\ alias' = [alias EXCEPT ![r] = get(policy.rewrites, name[r])]
    /\ UNCHANGED <<policy, name, answer>>

\* get_redirect returns; without an alias the query goes on to is_blocked.
Redirected(r) ==
    /\ phase[r] = "redirected"
    /\ IF alias[r] = None
       THEN /\ phase' = [phase EXCEPT ![r] = "is_blocked"]
            /\ UNCHANGED answer
       ELSE /\ phase' = [phase EXCEPT ![r] = "done"]
            /\ answer' = [answer EXCEPT ![r] = "rewritten"]
    /\ UNCHANGED <<policy, name, alias>>

\* The instant is_blocked is answered at: one policy for both lists.
Decide(r) ==
    /\ phase[r] = "is_blocked"
    /\ phase' = [phase EXCEPT ![r] = "decided"]
    /\ answer' = [answer EXCEPT ![r] = Verdict(policy, name[r])]
    /\ UNCHANGED <<policy, name, alias>>

\* is_blocked returns.
Decided(r) ==
    /\ phase[r] = "decided"
    /\ phase' = [phase EXCEPT ![r] = "done"]
    /\ UNCHANGED <<policy, name, alias, answer>>

\* A call that has been started may fail instead.
Fail(r) ==
    /\ phase[r] \in {"redirected", "decided"}
    /\ phase' = [phase EXCEPT ![r] = "done"]
    /\ alias' = [alias EXCEPT ![r] = None]
    /\ answer' = [answer EXCEPT ![r] = "error"]
    /\ UNCHANGED <<policy, name>>

\* The query is over and what it has been told is forgotten.
Finish(r) ==
    /\ phase[r] = "done"
    /\ phase' = [phase EXCEPT ![r] = "idle"]
    /\ alias' = [alias EXCEPT ![r] = None]
    /\ answer' = [answer EXCEPT ![r] = "none"]
    /\ UNCHANGED <<policy, name>>

\* A new policy, whichever it is, replaces the old one as a whole.
Publish == UNCHANGED <<phase, name, alias, answer>>

Next ==
    \/ \E r \in Reader :
        \/ \E n \in Query : Ask(r, n)
        \/ Redirect(r) \/ Redirected(r) \/ Decide(r) \/ Decided(r)
        \/ Fail(r) \/ Finish(r)
    \/ Publish

Spec == Init /\ [][Next]_vars
=============================================================================
