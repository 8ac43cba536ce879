------------------------------ MODULE QueryLog ------------------------------
(***************************************************************************)
(* QueryLogStore (src/src/query_log.rs): a deque of entries for each client *)
(* address, behind one mutex.  A handler stamps an entry with the time and  *)
(* only then calls insert, which takes the lock: between the two other      *)
(* handlers may insert younger entries, so a deque is not sorted by time.   *)
(*                                                                          *)
(* Every operation holds the mutex from its first to its last line and is   *)
(* one step.  Time is counted in whole units since the start.  An entry is  *)
(* represented by its query_time: what it says of the query has no bearing  *)
(* on what the store does with it.                                          *)
(***************************************************************************)
EXTENDS Integers, Sequences, FiniteSetsExt

CONSTANTS
    Task,           \* the tasks that handle a DNS query
    Ip,             \* client addresses
    Nothing,        \* a task has no stamped entry
    MAX_AGE,        \* how long an entry is kept, in units of time
    MAX_PER_IP,     \* how many entries are kept for one address
    MaxLag,         \* the longest time from the stamp to the lock
    MaxTime         \* bound: where the clock stops

ASSUME NothingAssumption  == Nothing \notin [ip: Ip, query_time: Nat]
ASSUME MaxAgeAssumption   == MAX_AGE \in Nat
ASSUME MaxPerIpAssumption == MAX_PER_IP \in Nat \ {0}
ASSUME MaxLagAssumption   == MaxLag \in Nat
ASSUME MaxTimeAssumption  == MaxTime \in Nat

VARIABLES
    now,        \* Utc::now()
    logs,       \* the deques: logs[ip], oldest insertion first
    pending     \* the entry a task has stamped and not inserted yet
vars == <<now, logs, pending>>

Init ==
    /\ now = 0
    /\ logs = [ip \in Ip |-> <<>>]
    /\ pending = [t \in Task |-> Nothing]

\* query_time >= cutoff, the cutoff being MAX_AGE before now.
Fresh(time) == time >= now - MAX_AGE
-----------------------------------------------------------------------------
\* Faulty variant of Evicted: an entry of age MAX_AGE counts as expired.
Evicted_strictly(entries) ==
    LET fresh == {i \in DOMAIN entries : entries[i] > now - MAX_AGE} IN
    IF fresh = {} THEN <<>>
    ELSE SubSeq(entries, Min(fresh), Len(entries))

\* Popping expired entries from the front stops at the first fresh one: an
\* expired entry behind a fresh one stays.
Evicted(entries) ==
    LET fresh == {i \in DOMAIN entries : Fresh(entries[i])} IN
    IF fresh = {} THEN <<>>
    ELSE SubSeq(entries, Min(fresh), Len(entries))

\* Faulty variant of Capped: room is made one entry too late.
Capped_late(entries) ==
    IF Len(entries) > MAX_PER_IP THEN Tail(entries) ELSE entries

\* One entry makes room when the deque is at its cap.
Capped(entries) ==
    IF Len(entries) >= MAX_PER_IP THEN Tail(entries) ELSE entries

\* Faulty variant of Stamp: the cutoff is taken for the time.
Stamp_cutoff(t, ip) ==
    /\ pending[t] = Nothing
    /\ pending' = [pending EXCEPT ![t] = [ip |-> ip, query_time |-> now - MAX_AGE]]
    /\ UNCHANGED <<now, logs>>

\* The handler builds the entry: query_time: Utc::now().
Stamp(t, ip) ==
    /\ pending[t] = Nothing
    /\ pending' = [pending EXCEPT ![t] = [ip |-> ip, query_time |-> now]]
    /\ UNCHANGED <<now, logs>>

\* Faulty variant of Insert: the entry is pushed at the front.
Insert_front(t) ==
    /\ pending[t] # Nothing
    /\ logs' = [logs EXCEPT ![pending[t].ip] =
                    <<pending[t].query_time>> \o Capped(Evicted(@))]
    /\ pending' = [pending EXCEPT ![t] = Nothing]
    /\ UNCHANGED now

\* insert: evict, cap and push under the lock.
Insert(t) ==
    /\ pending[t] # Nothing
    /\ logs' = [logs EXCEPT ![pending[t].ip] =
                    Append(Capped(Evicted(@)), pending[t].query_time)]
    /\ pending' = [pending EXCEPT ![t] = Nothing]
    /\ UNCHANGED now

\* Time passes; no task is kept between stamp and lock for more than MaxLag.
Tick ==
    /\ now < MaxTime
    /\ \A t \in Task : pending[t] # Nothing => now - pending[t].query_time < MaxLag
    /\ now' = now + 1
    /\ UNCHANGED <<logs, pending>>

Next ==
    \/ \E t \in Task : Insert(t) \/ \E ip \in Ip : Stamp(t, ip)
    \/ Tick

Spec == Init /\ [][Next]_vars
-----------------------------------------------------------------------------
\* The two readers of the store: what the page of one client shows (as a set:
\* in which order is of no consequence here), and the clients with an entry
\* that is fresh, for which only the last entry is looked at.  Of the latter
\* the code returns the number; which they are is kept here to say whom it counts.
get_logs(ip) == {logs[ip][i] : i \in {j \in DOMAIN logs[ip] : Fresh(logs[ip][j])}}

\* Faulty variant of Active: the first entry is looked at.
Active_front(ip) == logs[ip] # <<>> /\ Fresh(logs[ip][1])

Active(ip) == logs[ip] # <<>> /\ Fresh(logs[ip][Len(logs[ip])])

active_ips == {ip \in Ip : Active(ip)}
-----------------------------------------------------------------------------
(***************************************************************************)
(* Properties.                                                              *)
(***************************************************************************)
TypeOK ==
    /\ now \in 0 .. MaxTime
    /\ logs \in [Ip -> Seq(Nat)]
    /\ pending \in [Task -> {Nothing} \cup [ip: Ip, query_time: Nat]]

\* The deque of an address never outgrows its cap.
CapPerIp == \A ip \in Ip : Len(logs[ip]) <= MAX_PER_IP

\* Entries are out of order by no more than the lag between stamp and lock.
SkewBounded ==
    \A ip \in Ip : \A i, j \in DOMAIN logs[ip] :
        i < j => logs[ip][i] <= logs[ip][j] + MaxLag

\* Looking at the last entry only, active_ips misses no client but those whose
\* fresh entries are all about to expire, and counts none without an entry to
\* show.
ActiveUpToLag ==
    \A ip \in Ip :
        /\ Active(ip) => get_logs(ip) # {}
        /\ ~Active(ip) => \A time \in get_logs(ip) : ~Fresh(time - MaxLag)

\* An insert only drops entries from the front of the deque of its address,
\* and it drops one that a client may still ask for only if MAX_PER_IP entries
\* remain, none of them older by more than the lag.
DropsOnlyAtCap(ip) ==
    LET k == Len(logs[ip]) + 1 - Len(logs'[ip]) IN
    /\ k >= 0
    /\ SubSeq(logs'[ip], 1, Len(logs'[ip]) - 1)
            = SubSeq(logs[ip], k + 1, Len(logs[ip]))
    /\ \A i \in 1 .. k :
          Fresh(logs[ip][i]) =>
            /\ Len(logs'[ip]) = MAX_PER_IP
            /\ \A j \in DOMAIN logs'[ip] : logs'[ip][j] + MaxLag >= logs[ip][i]

FreshLostOnlyAtCap ==
    [][\A ip \in Ip : logs'[ip] # logs[ip] => DropsOnlyAtCap(ip)]_vars
=============================================================================
