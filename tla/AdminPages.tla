----------------------------- MODULE AdminPages -----------------------------
(***************************************************************************)
(* The HTML page of the admin server (src/src/admin.rs): it calls get_logs  *)
(* and then active_ips, each under a lock of its own, while queries are     *)
(* logged and time passes in between.                                       *)
(*                                                                          *)
(* A client is known by its address with the prefix of IPv4-mapped ones     *)
(* taken off, here (normalize_ip) as in the DNS handler.  Of a page the     *)
(* address it is for, the newest query listed and the clients counted are   *)
(* kept; pages that list no query are left out, as is the JSON output: it   *)
(* is one call of get_logs.                                                 *)
(***************************************************************************)
EXTENDS QueryLog

CONSTANT Page       \* requests to the admin server

ASSUME NoIpAssumption == Nothing \notin Ip
ASSUME NoIpsAssumption == \A ips \in SUBSET Ip : ips # Nothing

VARIABLES
    viewer,     \* the address each page being made is for
    newest,     \* the time of the newest query listed on it
    active      \* the clients active_ips has counted for it
page  == <<viewer, newest, active>>
varsA == <<vars, page>>

InitA ==
    /\ Init
    /\ viewer = [p \in Page |-> Nothing]
    /\ newest = [p \in Page |-> Nothing]
    /\ active = [p \in Page |-> Nothing]
-----------------------------------------------------------------------------
\* get_logs_html, the queries of the address the request comes from.
GetLogs(p, ip) ==
    /\ viewer[p] = Nothing
    /\ get_logs(ip) # {}
    /\ viewer' = [viewer EXCEPT ![p] = ip]
    /\ newest' = [newest EXCEPT ![p] = Max(get_logs(ip))]
    /\ UNCHANGED <<vars, active>>

\* The active addresses are counted; with their number the page is complete.
ActiveIps(p) ==
    /\ viewer[p] # Nothing /\ active[p] = Nothing
    /\ active' = [active EXCEPT ![p] = active_ips]
    /\ UNCHANGED <<vars, viewer, newest>>

Sent(p) ==
    /\ active[p] # Nothing
    /\ viewer' = [viewer EXCEPT ![p] = Nothing]
    /\ newest' = [newest EXCEPT ![p] = Nothing]
    /\ active' = [active EXCEPT ![p] = Nothing]
    /\ UNCHANGED vars

NextA ==
    \/ Next /\ UNCHANGED page
    \/ \E p \in Page : ActiveIps(p) \/ Sent(p) \/ \E ip \in Ip : GetLogs(p, ip)

SpecA == InitA /\ [][NextA]_varsA
-----------------------------------------------------------------------------
\* Of the clients a page counts one is the client it is made for, unless all
\* the queries it lists were about to expire between its two looks at the log:
\* however many entries of this client or of others were logged, evicted or
\* dropped at the cap meanwhile, and in whatever order they came in.
PageCountsViewer ==
    \A p \in Page :
        active[p] # Nothing /\ Fresh(newest[p] - MaxLag) => viewer[p] \in active[p]
=============================================================================
