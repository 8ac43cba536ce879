--------------------------- MODULE EngineHistory ---------------------------
(***************************************************************************)
(* AdblockEngine with a record of the policies each query has seen: enough  *)
(* to state what the documentation says about queries during an update.     *)
(* The history variable only observes; no guard mentions it.                *)
(***************************************************************************)
EXTENDS AdblockEngine

VARIABLE seen   \* the policies that were live during the last query of each reader

InitH == Init /\ seen = [r \in Reader |-> {}]

NextH ==
    /\ Next
    /\ seen' = [r \in Reader |->
                    CASE pc[r] = "idle" /\ pc'[r] # "idle" -> {content[current]}
                      [] pc[r] \in {"idle", "done"} -> seen[r]
                      [] OTHER -> seen[r] \cup {content'[current']}]

SpecH == InitH /\ [][NextH]_<<vars, seen>>
-----------------------------------------------------------------------------
\* What one policy makes of a name.
Outcome(p, n) ==
    LET al == get(p.rewrites, n) IN
    IF al # None THEN <<"rewritten", al>>
    ELSE IF contains(p.blacklist, n) /\ ~contains(p.whitelist, n)
    THEN <<"blocked", None>> ELSE <<"allowed", None>>

\* README.md:83, "Atomically swaps the new DB into the engine - in-flight
\* queries are unaffected": a query that is in flight during a swap is
\* answered as one of the policies it has seen would answer it.
InFlightUnaffected ==
    \A r \in Reader :
        pc[r] = "done" /\ answer[r] # "error" =>
            \E p \in seen[r] : <<answer[r], alias[r]>> = Outcome(p, name[r])
=============================================================================
