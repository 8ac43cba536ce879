-------------------------- MODULE QueryLog_proofs --------------------------
(***************************************************************************)
(* Theorems about QueryLogStore for any number of tasks and clients, any    *)
(* age, cap and lag, and about the pages made from it.                      *)
(***************************************************************************)
EXTENDS AdminPages, SequenceTheorems, WellFoundedInduction, TLAPS

\* Every set of natural numbers but the empty one has a least element.
LEMMA LeastNat ==
    ASSUME NEW T \in SUBSET Nat, T # {}
    PROVE  Min(T) \in T /\ \A y \in T : Min(T) <= y
<1> DEFINE less == {ss \in Nat \X Nat : ss[1] < ss[2]}
<1>1. IsWellFoundedOn(less, Nat)
  BY NatLessThanWellFounded DEF OpToRel
<1>2. PICK x \in T : \A y \in T : <<y, x>> \notin less
  <2> HIDE DEF less
  <2> QED
    BY <1>1, WFMin
<1>3. ASSUME NEW y \in T PROVE x <= y
  <2>1. y < x => <<y, x>> \in less
    OBVIOUS
  <2> QED
    BY <1>2, <2>1
<1> QED
  BY <1>3 DEF Min

\* Every set of natural numbers with an upper bound but the empty one has a
\* greatest element.
LEMMA GreatestUpTo ==
    ASSUME NEW n \in Nat, NEW T \in SUBSET (0 .. n), T # {}
    PROVE  Max(T) \in T /\ \A y \in T : y <= Max(T)
<1> DEFINE above == {m \in 0 .. n : \A y \in T : y <= m}
<1>1. n \in above /\ above \in SUBSET Nat
  OBVIOUS
<1>2. Min(above) \in above /\ \A m \in above : Min(above) <= m
  BY <1>1, LeastNat
<1>3. PICK m \in above : \A o \in above : m <= o
  BY <1>2
<1>4. m \in T
  <2>1. ASSUME m \notin T PROVE m - 1 \in above
    <3>1. \A y \in T : y \in Int /\ 0 <= y /\ y <= m /\ y # m
      BY <2>1, <1>3
    <3>2. m \in Nat /\ m <= n
      BY <1>3
    <3>3. PICK y \in T : TRUE
      OBVIOUS
    <3>4. m - 1 \in 0 .. n
      BY <3>1, <3>2, <3>3
    <3> QED
      BY <3>1, <3>2, <3>4
  <2> QED
    BY <2>1, <1>3
<1>5. \A y \in T : y <= m
  BY <1>3
<1> QED
  BY <1>4, <1>5 DEF Max

\* Nothing is stamped in the future, and nothing waits longer than the lag.
Recent ==
    /\ \A ip \in Ip : \A i \in DOMAIN logs[ip] : logs[ip][i] <= now
    /\ \A t \in Task : pending[t] # Nothing =>
            /\ pending[t].query_time <= now
            /\ now <= pending[t].query_time + MaxLag

IInv == TypeOK /\ CapPerIp /\ SkewBounded /\ Recent
-----------------------------------------------------------------------------
(***************************************************************************)
(* What one insert leaves of a deque: all but the first k entries.  A fresh *)
(* entry is among those only when the deque is full, and is then the only   *)
(* one.                                                                     *)
(***************************************************************************)
Keeps(entries, k) ==
    /\ Capped(Evicted(entries)) \in Seq(Nat)
    /\ Len(Capped(Evicted(entries))) = Len(entries) - k
    /\ \A i \in 1 .. Len(entries) - k : Capped(Evicted(entries))[i] = entries[i + k]
    /\ Len(entries) - k < MAX_PER_IP
    /\ \A i \in 1 .. k : Fresh(entries[i]) => k = 1 /\ Len(entries) = MAX_PER_IP

LEMMA EvictedKeeps ==
    ASSUME NEW entries \in Seq(Nat), now \in Nat
    PROVE  \E k \in 0 .. Len(entries) :
              /\ Evicted(entries) \in Seq(Nat)
              /\ Len(Evicted(entries)) = Len(entries) - k
              /\ \A i \in 1 .. Len(entries) - k : Evicted(entries)[i] = entries[i + k]
              /\ \A i \in 1 .. k : ~Fresh(entries[i])
<1> DEFINE fresh == {i \in DOMAIN entries : Fresh(entries[i])}
           n == Len(entries)
<1>1. n \in Nat /\ DOMAIN entries = 1 .. n
  BY LenProperties
<1>2. CASE fresh = {}
  <2>1. Evicted(entries) = <<>>
    BY <1>2 DEF Evicted
  <2>2. \A i \in 1 .. n : ~Fresh(entries[i])
    BY <1>1, <1>2
  <2>3. n \in 0 .. n /\ n - n = 0
    BY <1>1
  <2> HIDE DEF fresh
  <2> WITNESS n \in 0 .. Len(entries)
  <2> QED
    BY <1>1, <2>1, <2>2, <2>3
<1>3. CASE fresh # {}
  <2> DEFINE m == Min(fresh)
  <2>1. m \in fresh /\ \A y \in fresh : m <= y
    <3>1. fresh \in SUBSET Nat
      BY <1>1
    <3> HIDE DEF fresh
    <3> QED
      BY <3>1, <1>3, LeastNat
  <2>2. m \in 1 .. n
    BY <1>1, <2>1
  <2>3. Evicted(entries) = SubSeq(entries, m, n)
    BY <1>3 DEF Evicted
  <2>4. ASSUME NEW i \in 1 .. m - 1 PROVE ~Fresh(entries[i])
    <3>1. i \in 1 .. n /\ i < m /\ i \in Int /\ m \in Int
      <4> HIDE DEF m
      <4> QED
        BY <1>1, <2>2
    <3>2. i \notin fresh
      <4> HIDE DEF m, fresh
      <4> QED
        BY <2>1, <3>1
    <3> QED
      BY <1>1, <3>1, <3>2
  <2> HIDE DEF m, fresh
  <2>5. \A i \in m .. n : entries[i] \in Nat
    BY <1>1, <2>2, ElementOfSeq
  <2>6. /\ SubSeq(entries, m, n) \in Seq(Nat)
        /\ Len(SubSeq(entries, m, n)) = n - m + 1
        /\ \A i \in 1 .. n - m + 1 : SubSeq(entries, m, n)[i] = entries[m + i - 1]
    BY <1>1, <2>2, <2>5, SubSeqProperties
  <2>7. m - 1 \in 0 .. Len(entries)
    BY <1>1, <2>2
  <2> WITNESS m - 1 \in 0 .. Len(entries)
  <2> QED
    BY <1>1, <2>2, <2>3, <2>4, <2>6
<1> QED
  BY <1>2, <1>3

LEMMA InsertKeeps ==
    ASSUME NEW entries \in Seq(Nat), now \in Nat, Len(entries) <= MAX_PER_IP
    PROVE  \E k \in 0 .. Len(entries) : Keeps(entries, k)
<1>1. Len(entries) \in Nat
  BY LenProperties
<1>2. PICK k \in 0 .. Len(entries) :
        /\ Evicted(entries) \in Seq(Nat)
        /\ Len(Evicted(entries)) = Len(entries) - k
        /\ \A i \in 1 .. Len(entries) - k : Evicted(entries)[i] = entries[i + k]
        /\ \A i \in 1 .. k : ~Fresh(entries[i])
  BY EvictedKeeps
<1>3. CASE Len(Evicted(entries)) < MAX_PER_IP
  <2>1. Capped(Evicted(entries)) = Evicted(entries)
    BY <1>1, <1>2, <1>3, MaxPerIpAssumption DEF Capped
  <2>2. Keeps(entries, k)
    BY <2>1, <1>1, <1>2, <1>3 DEF Keeps
  <2> QED
    BY <2>2
<1>4. CASE Len(Evicted(entries)) >= MAX_PER_IP
  <2>1. k = 0 /\ Len(entries) = MAX_PER_IP
    BY <1>1, <1>2, <1>4, MaxPerIpAssumption
  <2>2. Evicted(entries) # <<>> /\ Capped(Evicted(entries)) = Tail(Evicted(entries))
    BY <1>2, <1>4, <2>1, MaxPerIpAssumption DEF Capped
  <2>3. /\ Tail(Evicted(entries)) \in Seq(Nat)
        /\ Len(Tail(Evicted(entries))) = Len(entries) - 1
        /\ \A i \in 1 .. Len(entries) - 1 :
              Tail(Evicted(entries))[i] = Evicted(entries)[i + 1]
    BY <1>2, <2>1, <2>2, HeadTailProperties
  <2>4. \A i \in 1 .. Len(entries) - 1 : Evicted(entries)[i + 1] = entries[i + 1]
    BY <1>1, <1>2, <2>1
  <2>5. Keeps(entries, 1)
    BY <1>1, <2>1, <2>2, <2>3, <2>4, MaxPerIpAssumption DEF Keeps
  <2>6. 1 \in 0 .. Len(entries)
    BY <1>1, <2>1, MaxPerIpAssumption
  <2> QED
    BY <2>5, <2>6
<1>5. Len(Evicted(entries)) < MAX_PER_IP \/ Len(Evicted(entries)) >= MAX_PER_IP
  BY <1>1, <1>2, MaxPerIpAssumption
<1> QED
  BY <1>3, <1>4, <1>5

LEMMA InitInv == Init => IInv
<1> SUFFICES ASSUME Init PROVE IInv
  OBVIOUS
<1>1. TypeOK
  BY MaxTimeAssumption DEF Init, TypeOK
<1>2. CapPerIp /\ SkewBounded /\ Recent
  BY MaxPerIpAssumption DEF Init, CapPerIp, SkewBounded, Recent
<1> QED
  BY <1>1, <1>2 DEF IInv

\* One insert, seen from the deque of the client it is for: all but the first
\* k entries stay, in their order, and the new one comes last.
Inserted(ip, q, k) ==
    LET old == logs[ip]
        new == logs'[ip]
    IN  /\ logs' = [logs EXCEPT ![ip] = new]
        /\ new \in Seq(Nat)
        /\ k <= Len(old) /\ Len(old) - k < MAX_PER_IP
        /\ Len(new) = Len(old) - k + 1
        /\ \A i \in 1 .. Len(old) - k : new[i] = old[i + k]
        /\ new[Len(old) - k + 1] = q
        /\ \A i \in 1 .. k : Fresh(old[i]) => k = 1 /\ Len(old) = MAX_PER_IP

LEMMA InsertDeque ==
    ASSUME IInv, NEW t \in Task, Insert(t)
    PROVE  \E ip \in Ip, q \in Nat, k \in Nat :
              /\ ip = pending[t].ip /\ q = pending[t].query_time
              /\ q <= now /\ now <= q + MaxLag
              /\ Inserted(ip, q, k)
<1> DEFINE ip == pending[t].ip
           q  == pending[t].query_time
           left == Capped(Evicted(logs[ip]))
<1>1. pending[t] \in [ip: Ip, query_time: Nat] /\ pending[t] # Nothing
  BY DEF IInv, TypeOK, Insert
<1>2. ip \in Ip /\ q \in Nat /\ q <= now /\ now <= q + MaxLag
  BY <1>1 DEF IInv, Recent
<1>3. now \in Nat /\ logs \in [Ip -> Seq(Nat)]
  BY MaxTimeAssumption DEF IInv, TypeOK
<1>4. logs[ip] \in Seq(Nat) /\ Len(logs[ip]) <= MAX_PER_IP /\ Len(logs[ip]) \in Nat
  BY <1>2, <1>3, LenProperties DEF IInv, CapPerIp
<1>5. logs' = [logs EXCEPT ![ip] = Append(left, q)]
  BY <1>3 DEF Insert
<1>6. logs'[ip] = Append(left, q)
  BY <1>2, <1>3, <1>5
<1> HIDE DEF ip, q
<1>7. PICK k \in 0 .. Len(logs[ip]) : Keeps(logs[ip], k)
  BY <1>3, <1>4, InsertKeeps
<1>8. /\ left \in Seq(Nat)
      /\ Len(left) = Len(logs[ip]) - k
      /\ \A i \in 1 .. Len(logs[ip]) - k : left[i] = logs[ip][i + k]
      /\ Len(logs[ip]) - k < MAX_PER_IP
      /\ \A i \in 1 .. k :
            Fresh(logs[ip][i]) => k = 1 /\ Len(logs[ip]) = MAX_PER_IP
  BY <1>7 DEF Keeps
<1> HIDE DEF left
<1>9. /\ Append(left, q) \in Seq(Nat)
      /\ Len(Append(left, q)) = Len(left) + 1
      /\ \A i \in 1 .. Len(left) : Append(left, q)[i] = left[i]
      /\ Append(left, q)[Len(left) + 1] = q
  <2>1. q \in Nat /\ left \in Seq(Nat)
    BY <1>2, <1>8
  <2> QED
    BY <2>1, AppendProperties
<1>10. k \in Nat /\ k <= Len(logs[ip])
  BY <1>4
<1>11. Inserted(ip, q, k)
  BY <1>5, <1>6, <1>8, <1>9, <1>10 DEF Inserted
<1> QED
  BY <1>2, <1>10, <1>11 DEF ip, q

LEMMA StepInv == IInv /\ [Next]_vars => IInv'
<1> SUFFICES ASSUME IInv, [Next]_vars PROVE IInv'
  OBVIOUS
<1>1. /\ now \in Nat /\ logs \in [Ip -> Seq(Nat)]
      /\ \A ip \in Ip :
            /\ Len(logs[ip]) \in Nat /\ DOMAIN logs[ip] = 1 .. Len(logs[ip])
            /\ \A i \in 1 .. Len(logs[ip]) : logs[ip][i] \in Nat
  BY MaxTimeAssumption, LenProperties, ElementOfSeq DEF IInv, TypeOK
<1>2. ASSUME NEW t \in Task, Insert(t) PROVE IInv'
  <2>1. PICK ip \in Ip, q \in Nat, k \in Nat :
          /\ ip = pending[t].ip /\ q = pending[t].query_time
          /\ q <= now /\ now <= q + MaxLag
          /\ Inserted(ip, q, k)
    BY <1>2, InsertDeque
  <2>deque. /\ k <= Len(logs[ip]) /\ Len(logs[ip]) - k < MAX_PER_IP
            /\ logs' = [logs EXCEPT ![ip] = logs'[ip]]
            /\ logs'[ip] \in Seq(Nat)
            /\ Len(logs'[ip]) = Len(logs[ip]) - k + 1
            /\ \A i \in 1 .. Len(logs[ip]) - k : logs'[ip][i] = logs[ip][i + k]
            /\ logs'[ip][Len(logs[ip]) - k + 1] = q
    BY <2>1 DEF Inserted
  <2>2. now' = now /\ pending' = [pending EXCEPT ![t] = Nothing]
    BY <1>2 DEF Insert
  <2>3. \A jp \in Ip \ {ip} : logs'[jp] = logs[jp]
    BY <1>1, <2>deque
  <2>4. DOMAIN logs'[ip] = 1 .. Len(logs[ip]) - k + 1
    BY <2>1, <2>deque, LenProperties
  <2>5. TypeOK'
    BY <1>1, <2>1, <2>deque, <2>2 DEF IInv, TypeOK
  <2>6. CapPerIp'
    <3>1. Len(logs'[ip]) <= MAX_PER_IP
      BY <1>1, <2>1, <2>deque, MaxPerIpAssumption
    <3> QED
      BY <2>3, <3>1 DEF IInv, CapPerIp
  <2>7. \A i \in DOMAIN logs'[ip] : logs'[ip][i] \in Nat /\ logs'[ip][i] <= now
    <3>1. ASSUME NEW i \in 1 .. Len(logs[ip]) - k
          PROVE  logs'[ip][i] \in Nat /\ logs'[ip][i] <= now
      <4>1. i + k \in 1 .. Len(logs[ip])
        BY <1>1, <2>1
      <4> QED
        BY <1>1, <2>1, <2>deque, <4>1 DEF IInv, Recent
    <3>2. logs'[ip][Len(logs[ip]) - k + 1] \in Nat /\ logs'[ip][Len(logs[ip]) - k + 1] <= now
      BY <2>1, <2>deque
    <3>3. \A i \in DOMAIN logs'[ip] :
            i \in 1 .. Len(logs[ip]) - k \/ i = Len(logs[ip]) - k + 1
      BY <1>1, <2>1, <2>deque, <2>4
    <3> QED
      BY <3>1, <3>2, <3>3
  <2>8. SkewBounded'
    <3>1. ASSUME NEW i \in DOMAIN logs'[ip], NEW j \in DOMAIN logs'[ip], i < j
          PROVE  logs'[ip][i] <= logs'[ip][j] + MaxLag
      <4>1. CASE j = Len(logs[ip]) - k + 1
        <5>1. logs'[ip][i] \in Nat /\ logs'[ip][i] <= now
          BY <2>7
        <5>2. logs'[ip][j] = q
          BY <2>deque, <4>1
        <5> QED
          BY <1>1, <2>1, <5>1, <5>2, MaxLagAssumption
      <4>2. CASE j # Len(logs[ip]) - k + 1
        <5>1. i \in 1 .. Len(logs[ip]) - k + 1 /\ j \in 1 .. Len(logs[ip]) - k + 1
          BY <2>4
        <5>len. Len(logs[ip]) \in Nat /\ k <= Len(logs[ip])
          BY <1>1, <2>deque
        <5>2. /\ i \in 1 .. Len(logs[ip]) - k /\ j \in 1 .. Len(logs[ip]) - k
              /\ i + k \in 1 .. Len(logs[ip]) /\ j + k \in 1 .. Len(logs[ip])
              /\ i + k < j + k
          BY <5>1, <5>len, <3>1, <4>2
        <5>3. logs[ip][i + k] <= logs[ip][j + k] + MaxLag
          BY <1>1, <5>2 DEF IInv, SkewBounded
        <5> QED
          BY <2>1, <2>deque, <5>2, <5>3
      <4> QED
        BY <4>1, <4>2
    <3> QED
      BY <2>3, <3>1 DEF IInv, SkewBounded
  <2>9. Recent'
    BY <1>1, <2>2, <2>3, <2>7 DEF IInv, Recent, TypeOK
  <2> QED
    BY <2>5, <2>6, <2>8, <2>9 DEF IInv
<1>3. ASSUME NEW t \in Task, NEW ip \in Ip, Stamp(t, ip) PROVE IInv'
  <2>1. /\ UNCHANGED <<now, logs>>
        /\ pending' = [pending EXCEPT ![t] = [ip |-> ip, query_time |-> now]]
    BY <1>3 DEF Stamp
  <2>2. TypeOK'
    BY <1>1, <2>1 DEF IInv, TypeOK
  <2>3. CapPerIp' /\ SkewBounded'
    BY <2>1 DEF IInv, CapPerIp, SkewBounded
  <2>4. Recent'
    BY <1>1, <2>1, MaxLagAssumption DEF IInv, Recent, TypeOK
  <2> QED
    BY <2>2, <2>3, <2>4 DEF IInv
<1>4. ASSUME Tick PROVE IInv'
  <2>1. /\ now < MaxTime /\ now' = now + 1 /\ UNCHANGED <<logs, pending>>
        /\ \A t \in Task : pending[t] # Nothing => now - pending[t].query_time < MaxLag
    BY <1>4 DEF Tick
  <2>2. TypeOK'
    BY <1>1, <2>1, MaxTimeAssumption DEF IInv, TypeOK
  <2>3. CapPerIp' /\ SkewBounded'
    BY <2>1 DEF IInv, CapPerIp, SkewBounded
  <2>4. Recent'
    <3>1. \A ip \in Ip : \A i \in DOMAIN logs[ip] : logs[ip][i] <= now'
      BY <1>1, <2>1 DEF IInv, Recent
    <3>2. ASSUME NEW t \in Task, pending[t] # Nothing
          PROVE  /\ pending[t].query_time <= now'
                 /\ now' <= pending[t].query_time + MaxLag
      <4>1. pending[t].query_time \in Nat /\ pending[t].query_time <= now
        BY <3>2 DEF IInv, Recent, TypeOK
      <4>2. now - pending[t].query_time < MaxLag
        BY <2>1, <3>2
      <4> QED
        BY <1>1, <2>1, <4>1, <4>2, MaxLagAssumption
    <3> QED
      BY <2>1, <3>1, <3>2 DEF Recent
  <2> QED
    BY <2>2, <2>3, <2>4 DEF IInv
<1>5. CASE UNCHANGED vars
  BY <1>5 DEF vars, IInv, TypeOK, CapPerIp, SkewBounded, Recent
<1> QED
  BY <1>2, <1>3, <1>4, <1>5 DEF Next

LEMMA Invariance == Spec => []IInv
  BY InitInv, StepInv, PTL DEF Spec

\* The state of the store is well formed.
THEOREM TypeCorrect == Spec => []TypeOK
<1>1. IInv => TypeOK
  BY DEF IInv
<1> QED
  BY <1>1, Invariance, PTL

\* However many tasks insert, and with any cap and age, no deque of the store
\* outgrows MAX_PER_IP.
THEOREM CapHolds == Spec => []CapPerIp
<1>1. IInv => CapPerIp
  BY DEF IInv
<1> QED
  BY <1>1, Invariance, PTL

\* Tasks that overtake one another between stamp and lock put entries out of
\* order by no more than the time they may take between the two.
THEOREM SkewHolds == Spec => []SkewBounded
<1>1. IInv => SkewBounded
  BY DEF IInv
<1> QED
  BY <1>1, Invariance, PTL
-----------------------------------------------------------------------------
LEMMA DropsStep ==
    ASSUME IInv, [Next]_vars, NEW ip \in Ip, logs'[ip] # logs[ip]
    PROVE  DropsOnlyAtCap(ip)
<1>1. PICK t \in Task : Insert(t)
  BY DEF Next, Stamp, Tick, vars
<1>2. PICK jp \in Ip, q \in Nat, k \in Nat :
        q <= now /\ now <= q + MaxLag /\ Inserted(jp, q, k)
  BY <1>1, InsertDeque
<1>3. jp = ip
  BY <1>2 DEF Inserted, IInv, TypeOK
<1> DEFINE old == logs[ip]
           new == logs'[ip]
           n   == Len(old)
<1>4. old \in Seq(Nat) /\ n \in Nat /\ now \in Nat
      /\ DOMAIN old = 1 .. n /\ \A i \in 1 .. n : old[i] \in Nat
  BY MaxTimeAssumption, LenProperties, ElementOfSeq DEF IInv, TypeOK
<1>5. /\ new \in Seq(Nat) /\ k <= n /\ n - k < MAX_PER_IP
      /\ Len(new) = n - k + 1
      /\ \A i \in 1 .. n - k : new[i] = old[i + k]
      /\ new[n - k + 1] = q
      /\ \A i \in 1 .. k : Fresh(old[i]) => k = 1 /\ n = MAX_PER_IP
  BY <1>2, <1>3 DEF Inserted
<1>6. \A i \in 1 .. n : old[i] <= now
  BY <1>4 DEF IInv, Recent
<1>7. \A i, j \in 1 .. n : i < j => old[i] <= old[j] + MaxLag
  BY <1>4 DEF IInv, SkewBounded
<1>8. DOMAIN new = 1 .. n - k + 1
  BY <1>5, LenProperties
<1> HIDE DEF old, new, n
<1>9. SubSeq(new, 1, n - k) = SubSeq(old, k + 1, n)
  <2>1. \A i \in 1 .. n - k + 1 : new[i] \in Nat
    BY <1>5, ElementOfSeq
  <2>2. /\ SubSeq(new, 1, n - k) \in Seq(Nat)
        /\ Len(SubSeq(new, 1, n - k)) = n - k
        /\ \A i \in 1 .. n - k : SubSeq(new, 1, n - k)[i] = new[i]
    <3>1. 1 \in Int /\ n - k \in Int /\ \A i \in 1 .. n - k : new[i] \in Nat
      BY <1>4, <1>5, <2>1
    <3>2. /\ SubSeq(new, 1, n - k) \in Seq(Nat)
          /\ Len(SubSeq(new, 1, n - k)) = IF 1 <= n - k THEN n - k - 1 + 1 ELSE 0
          /\ \A i \in 1 .. n - k - 1 + 1 : SubSeq(new, 1, n - k)[i] = new[1 + i - 1]
      BY <3>1, <1>5, <2>1, SubSeqProperties
    <3>3. /\ (IF 1 <= n - k THEN n - k - 1 + 1 ELSE 0) = n - k /\ n - k - 1 + 1 = n - k
          /\ \A i \in 1 .. n - k : 1 + i - 1 = i
      BY <1>4, <1>5
    <3>4. \A i \in 1 .. n - k : SubSeq(new, 1, n - k)[i] = new[i]
      BY <3>2, <3>3
    <3> QED
      BY <3>2, <3>3, <3>4
  <2>3. /\ SubSeq(old, k + 1, n) \in Seq(Nat)
        /\ Len(SubSeq(old, k + 1, n)) = n - k
        /\ \A i \in 1 .. n - k : SubSeq(old, k + 1, n)[i] = old[i + k]
    <3> DEFINE m == k + 1
    <3>1. old \in Seq(Nat) /\ m \in Int /\ n \in Int /\ \A i \in m .. n : old[i] \in Nat
      <4>1. m \in Int /\ \A i \in m .. n : i \in 1 .. n
        BY <1>4
      <4> QED
        BY <1>4, <4>1
    <3>2. /\ SubSeq(old, m, n) \in Seq(Nat)
          /\ Len(SubSeq(old, m, n)) = IF m <= n THEN n - m + 1 ELSE 0
          /\ \A i \in 1 .. n - m + 1 : SubSeq(old, m, n)[i] = old[m + i - 1]
      <4> HIDE DEF m
      <4> QED
        BY <3>1, SubSeqProperties
    <3>3. /\ (IF m <= n THEN n - m + 1 ELSE 0) = n - k /\ n - m + 1 = n - k
          /\ \A i \in 1 .. n - k : m + i - 1 = i + k
      BY <1>4, <1>5
    <3> HIDE DEF m
    <3>4. Len(SubSeq(old, m, n)) = n - k
      BY <3>2, <3>3
    <3>5. \A i \in 1 .. n - k : SubSeq(old, m, n)[i] = old[i + k]
      BY <3>2, <3>3
    <3> QED
      BY <3>2, <3>4, <3>5 DEF m
  <2> DEFINE a == SubSeq(new, 1, n - k)
             b == SubSeq(old, k + 1, n)
  <2>4. /\ a \in Seq(Nat) /\ b \in Seq(Nat) /\ Len(a) = Len(b)
        /\ \A i \in 1 .. Len(a) : a[i] = b[i]
    BY <2>2, <2>3, <1>5
  <2> HIDE DEF a, b
  <2>5. a = b
    BY <2>4, SeqEqual
  <2> QED
    BY <2>5 DEF a, b
<1>10. ASSUME NEW i \in 1 .. k, Fresh(old[i])
       PROVE  /\ Len(new) = MAX_PER_IP
              /\ \A j \in DOMAIN new : new[j] + MaxLag >= old[i]
  <2>1. k = 1 /\ n = MAX_PER_IP /\ i = 1
    BY <1>5, <1>10
  <2>2. ASSUME NEW j \in 1 .. n - k + 1
        PROVE  new[j] + MaxLag >= old[1]
    <3>1. CASE j = n - k + 1
      <4>1. old[1] \in Nat /\ old[1] <= now
        <5>1. 1 \in 1 .. n
          BY <1>4, <1>5, <2>1
        <5> QED
          BY <1>4, <1>6, <5>1
      <4>2. new[j] = q
        BY <1>5, <3>1
      <4>3. old[1] <= q + MaxLag
        BY <1>2, <1>4, <4>1, MaxLagAssumption
      <4> QED
        BY <1>2, <4>1, <4>2, <4>3, MaxLagAssumption
    <3>2. CASE j \in 1 .. n - k
      <4>1. 1 \in 1 .. n /\ j + 1 \in 1 .. n /\ 1 < j + 1
        BY <1>4, <2>1, <3>2
      <4>2. old[1] <= old[j + 1] + MaxLag
        BY <1>7, <4>1
      <4>3. new[j] = old[j + 1]
        BY <1>5, <2>1, <3>2
      <4> QED
        BY <4>2, <4>3
    <3> QED
      BY <1>4, <1>5, <2>1, <3>1, <3>2
  <2> QED
    BY <1>4, <1>5, <1>8, <2>1, <2>2
<1>11. Len(new) - 1 = n - k /\ n + 1 - Len(new) = k /\ k >= 0
  BY <1>4, <1>5
<1> QED
  BY <1>9, <1>10, <1>11 DEF DropsOnlyAtCap, old, new, n

\* An insert never drops an entry that a client may still ask for unless its
\* deque is full, and what remains is then no older by more than the lag.
THEOREM LossOnlyAtCap == Spec => FreshLostOnlyAtCap
<1>1. IInv /\ [Next]_vars =>
        [\A ip \in Ip : logs'[ip] # logs[ip] => DropsOnlyAtCap(ip)]_vars
  BY DropsStep
<1> QED
  BY <1>1, Invariance, PTL DEF Spec, FreshLostOnlyAtCap
-----------------------------------------------------------------------------
(***************************************************************************)
(* The readers of the log.                                                  *)
(***************************************************************************)
\* The entry of a client inserted last, which is the one active_ips looks at.
Last(ip) == logs[ip][Len(logs[ip])]

\* No entry is younger than the last by more than the lag.
LEMMA LastIsYoung ==
    ASSUME IInv, NEW ip \in Ip, NEW i \in DOMAIN logs[ip]
    PROVE  /\ logs[ip] # <<>> /\ Last(ip) \in Nat /\ Len(logs[ip]) \in DOMAIN logs[ip]
           /\ logs[ip][i] \in Nat /\ logs[ip][i] <= now /\ logs[ip][i] <= Last(ip) + MaxLag
<1> DEFINE n == Len(logs[ip])
<1>1. n \in Nat /\ DOMAIN logs[ip] = 1 .. n /\ i \in 1 .. n /\ n \in 1 .. n
  BY LenProperties DEF IInv, TypeOK
<1>2. logs[ip][i] \in Nat /\ Last(ip) \in Nat
  BY <1>1, ElementOfSeq DEF IInv, TypeOK, Last
<1>3. logs[ip][i] <= now
  BY DEF IInv, Recent
<1>4. logs[ip][i] <= Last(ip) + MaxLag
  <2>1. CASE i = n
    BY <1>2, <2>1, MaxLagAssumption DEF Last
  <2>2. CASE i < n
    BY <1>1, <2>2 DEF IInv, SkewBounded, Last
  <2> QED
    BY <1>1, <2>1, <2>2
<1> QED
  BY <1>1, <1>2, <1>3, <1>4, EmptySeq

LEMMA ActiveStep == IInv => ActiveUpToLag
<1> SUFFICES ASSUME IInv, NEW ip \in Ip
             PROVE  /\ Active(ip) => get_logs(ip) # {}
                    /\ ~Active(ip) => \A time \in get_logs(ip) : ~Fresh(time - MaxLag)
  BY DEF ActiveUpToLag
<1>1. ASSUME Active(ip) PROVE get_logs(ip) # {}
  <2>1. Len(logs[ip]) \in DOMAIN logs[ip]
    BY <1>1, LenProperties, EmptySeq DEF Active, IInv, TypeOK
  <2> QED
    BY <1>1, <2>1 DEF Active, get_logs
<1>2. ASSUME ~Active(ip), NEW time \in get_logs(ip) PROVE ~Fresh(time - MaxLag)
  <2>1. PICK i \in DOMAIN logs[ip] : time = logs[ip][i]
    BY DEF get_logs
  <2>2. /\ logs[ip] # <<>> /\ Last(ip) \in Nat
        /\ time \in Nat /\ time <= Last(ip) + MaxLag
    BY <2>1, LastIsYoung
  <2>3. ~(Last(ip) >= now - MAX_AGE)
    BY <1>2, <2>2 DEF Active, Fresh, Last
  <2> QED
    BY <2>2, <2>3, MaxLagAssumption, MaxAgeAssumption, MaxTimeAssumption DEF Fresh, IInv, TypeOK
<1> QED
  BY <1>1, <1>2

\* A client whose last query is fresh is counted, one that is not counted has
\* no query to show but such as expire within the lag.
THEOREM CountedUpToLag == Spec => []ActiveUpToLag
  BY ActiveStep, Invariance, PTL

\* The pages only read the log.
THEOREM PagesOnlyRead == SpecA => Spec
<1>1. InitA => Init
  BY DEF InitA
<1>2. [NextA]_varsA => [Next]_vars
  BY DEF NextA, ActiveIps, Sent, GetLogs, varsA
<1> QED
  BY <1>1, <1>2, PTL DEF Spec, SpecA

\* The newest query on a page is in the log of the page's own client; unless it
\* is about to expire, the last entry of that client is older by no more than
\* the lag, so that active_ips counts it.
Backed(ip, time) ==
    \/ ~Fresh(time - MaxLag)
    \/ logs[ip] # <<>> /\ Last(ip) + MaxLag >= time

PageInv ==
    /\ viewer \in [Page -> {Nothing} \cup Ip]
    /\ newest \in [Page -> {Nothing} \cup Nat]
    /\ active \in [Page -> {Nothing} \cup SUBSET Ip]
    /\ \A p \in Page :
          /\ viewer[p] # Nothing =>
                newest[p] \in Nat /\ newest[p] <= now /\ Backed(viewer[p], newest[p])
          /\ active[p] # Nothing => viewer[p] # Nothing

\* Entries come in that are no older than any page, and expire no earlier.
LEMMA BackedStep ==
    ASSUME IInv, IInv', [Next]_vars, NEW ip \in Ip, NEW time \in Nat, time <= now,
           Backed(ip, time)
    PROVE  Backed(ip, time)' /\ time <= now'
<1>1. now \in Nat /\ now' \in Nat /\ logs \in [Ip -> Seq(Nat)]
  BY MaxTimeAssumption DEF IInv, TypeOK
<1>2. now' >= now /\ (now' # now => logs' = logs)
  BY <1>1 DEF Next, Insert, Stamp, Tick, vars
<1>3. CASE ~Fresh(time - MaxLag)
  <2>1. ~(time - MaxLag >= now' - MAX_AGE)
    <3>1. now \in Nat /\ now' \in Nat /\ now' >= now
      BY <1>1, <1>2
    <3>2. \A m, n \in Nat : n >= m /\ ~(time - MaxLag >= m - MAX_AGE)
                            => ~(time - MaxLag >= n - MAX_AGE)
      BY MaxLagAssumption, MaxAgeAssumption
    <3> QED
      BY <1>3, <3>1, <3>2 DEF Fresh
  <2> QED
    BY <1>1, <1>2, <2>1 DEF Backed, Fresh
<1>4. ASSUME logs[ip] # <<>>, Last(ip) + MaxLag >= time
      PROVE  logs'[ip] # <<>> /\ Last(ip)' + MaxLag >= time
  <2>1. CASE logs'[ip] = logs[ip]
    BY <1>4, <2>1 DEF Last
  <2>2. CASE logs'[ip] # logs[ip]
    <3>1. PICK t \in Task : Insert(t)
      BY <2>2 DEF Next, Stamp, Tick, vars
    <3>2. PICK jp \in Ip, q \in Nat, k \in Nat :
            q <= now /\ now <= q + MaxLag /\ Inserted(jp, q, k)
      BY <3>1, InsertDeque
    <3>3. jp = ip
      BY <1>1, <2>2, <3>2 DEF Inserted
    <3>4. /\ logs'[ip] \in Seq(Nat) /\ k <= Len(logs[ip])
          /\ Len(logs'[ip]) = Len(logs[ip]) - k + 1 /\ logs'[ip][Len(logs[ip]) - k + 1] = q
      BY <3>2, <3>3 DEF Inserted
    <3>5. Len(logs[ip]) \in Nat
      BY <1>1, LenProperties
    <3>6. Len(logs'[ip]) > 0
      BY <3>2, <3>4, <3>5
    <3>7. logs'[ip] # <<>> /\ Last(ip)' = q
      BY <3>4, <3>6, EmptySeq DEF Last
    <3> QED
      BY <1>1, <3>2, <3>7, MaxLagAssumption
  <2> QED
    BY <2>1, <2>2
<1>5. time <= now'
  BY <1>1, <1>2
<1> QED
  BY <1>3, <1>4, <1>5 DEF Backed

\* A page that a step leaves alone, as it does time and the log.
LEMMA PageKept ==
    ASSUME PageInv, UNCHANGED <<now, logs>>, NEW p \in Page,
           viewer'[p] = viewer[p], newest'[p] = newest[p]
    PROVE  viewer'[p] # Nothing =>
              /\ newest'[p] \in Nat /\ newest'[p] <= now'
              /\ Backed(viewer[p], newest[p])'
BY DEF PageInv, Backed, Fresh, Last

LEMMA PageStep == IInv /\ IInv' /\ PageInv /\ [NextA]_varsA => PageInv'
<1> SUFFICES ASSUME IInv, IInv', PageInv, [NextA]_varsA PROVE PageInv'
  OBVIOUS
<1>1. CASE [Next]_vars /\ UNCHANGED page
  <2>1. UNCHANGED <<viewer, newest, active>>
    BY <1>1 DEF page
  <2>2. ASSUME NEW p \in Page, viewer[p] # Nothing
        PROVE  newest[p] \in Nat /\ newest[p] <= now' /\ Backed(viewer[p], newest[p])'
    <3>1. /\ viewer[p] \in Ip
          /\ newest[p] \in Nat /\ newest[p] <= now /\ Backed(viewer[p], newest[p])
      BY <2>2 DEF PageInv
    <3>2. PICK ip \in Ip, time \in Nat :
             /\ ip = viewer[p] /\ viewer'[p] = ip
             /\ time = newest[p] /\ newest'[p] = time
      BY <2>1, <3>1
    <3>3. Backed(ip, time)' /\ time <= now'
      BY <1>1, <3>1, <3>2, BackedStep
    <3> QED
      BY <3>2, <3>3 DEF Backed, Last
  <2> QED
    BY <2>1, <2>2 DEF PageInv, Backed, Last
<1>2. ASSUME NEW p \in Page, NEW ip \in Ip, GetLogs(p, ip) PROVE PageInv'
  <2> DEFINE shown == get_logs(ip)
  <2>1. /\ viewer[p] = Nothing /\ shown # {} /\ UNCHANGED <<now, logs, active>>
        /\ viewer' = [viewer EXCEPT ![p] = ip]
        /\ newest' = [newest EXCEPT ![p] = Max(shown)]
    BY <1>2 DEF GetLogs, vars
  <2>2. \A time \in shown : \E i \in DOMAIN logs[ip] : time = logs[ip][i]
    BY DEF get_logs
  <2>3. now \in Nat
    BY MaxTimeAssumption DEF IInv, TypeOK
  <2>4. shown \in SUBSET (0 .. now)
    BY <2>2, <2>3, LastIsYoung
  <2>5. Max(shown) \in shown
    <3> HIDE DEF shown
    <3> QED
      BY <2>1, <2>3, <2>4, GreatestUpTo
  <2>6. PICK i \in DOMAIN logs[ip] : Max(shown) = logs[ip][i]
    BY <2>2, <2>5
  <2>7. PICK time \in 0 .. now : time = Max(shown)
    BY <2>4, <2>5
  <2> HIDE DEF shown
  <2>8. /\ logs[ip] # <<>> /\ Last(ip) \in Nat /\ time \in Nat /\ time <= now
        /\ time <= Last(ip) + MaxLag
    BY <2>6, <2>7, LastIsYoung
  <2>9. newest' = [newest EXCEPT ![p] = time]
    BY <2>1, <2>7
  <2>10. logs'[ip] # <<>> /\ Last(ip)' + MaxLag >= time
    BY <2>1, <2>8, MaxLagAssumption DEF Last
  <2>11. /\ viewer' \in [Page -> {Nothing} \cup Ip] /\ newest' \in [Page -> {Nothing} \cup Nat]
         /\ viewer'[p] = ip /\ newest'[p] = time
         /\ \A o \in Page \ {p} : viewer'[o] = viewer[o] /\ newest'[o] = newest[o]
    BY <2>1, <2>8, <2>9 DEF PageInv
  <2>12. ASSUME NEW o \in Page, viewer'[o] # Nothing
         PROVE  newest'[o] \in Nat /\ newest'[o] <= now' /\ Backed(viewer[o], newest[o])'
    <3>1. CASE o = p
      BY <2>1, <2>8, <2>10, <2>11, <3>1 DEF Backed, Last
    <3>2. CASE o # p
      BY <2>1, <2>11, <2>12, <3>2, PageKept
    <3> QED
      BY <3>1, <3>2
  <2>13. \A o \in Page : active'[o] # Nothing => viewer'[o] # Nothing
    BY <2>1, <2>11, NoIpAssumption DEF PageInv
  <2> QED
    BY <2>1, <2>11, <2>12, <2>13 DEF PageInv
<1>3. ASSUME NEW p \in Page, ActiveIps(p) PROVE PageInv'
  <2>1. /\ viewer[p] # Nothing /\ active' = [active EXCEPT ![p] = active_ips]
        /\ UNCHANGED <<now, logs, viewer, newest>>
    BY <1>3 DEF ActiveIps, vars
  <2>2. active' \in [Page -> {Nothing} \cup SUBSET Ip]
    BY <2>1 DEF PageInv, active_ips
  <2>3. \A o \in Page : active'[o] # Nothing => viewer'[o] # Nothing
    BY <2>1 DEF PageInv
  <2>4. \A o \in Page : viewer'[o] # Nothing =>
            newest'[o] \in Nat /\ newest'[o] <= now' /\ Backed(viewer[o], newest[o])'
    BY <2>1, PageKept
  <2> QED
    BY <2>1, <2>2, <2>3, <2>4 DEF PageInv
<1>4. ASSUME NEW p \in Page, Sent(p) PROVE PageInv'
  <2>1. /\ viewer' = [viewer EXCEPT ![p] = Nothing]
        /\ newest' = [newest EXCEPT ![p] = Nothing]
        /\ active' = [active EXCEPT ![p] = Nothing]
        /\ UNCHANGED <<now, logs>>
    BY <1>4 DEF Sent, vars
  <2>2. ASSUME NEW o \in Page, viewer'[o] # Nothing
        PROVE  newest'[o] \in Nat /\ newest'[o] <= now' /\ Backed(viewer[o], newest[o])'
    <3>1. viewer'[o] = viewer[o] /\ newest'[o] = newest[o]
      BY <2>1, <2>2 DEF PageInv
    <3> QED
      BY <2>1, <2>2, <3>1, PageKept
  <2>3. \A o \in Page : active'[o] # Nothing => viewer'[o] # Nothing
    BY <2>1 DEF PageInv
  <2> QED
    BY <2>1, <2>2, <2>3 DEF PageInv
<1> QED
  BY <1>1, <1>2, <1>3, <1>4 DEF NextA, varsA, page

LEMMA CountStep ==
    ASSUME IInv, IInv', PageInv, PageCountsViewer, [NextA]_varsA
    PROVE  PageCountsViewer'
<1>1. now \in Nat /\ now' \in Nat /\ now' >= now
  BY MaxTimeAssumption DEF IInv, TypeOK, NextA, Next, Insert, Stamp, Tick, vars, varsA,
     ActiveIps, Sent, GetLogs
<1> SUFFICES ASSUME NEW p \in Page, active'[p] # Nothing, Fresh(newest[p] - MaxLag)'
             PROVE  viewer'[p] \in active'[p]
  BY DEF PageCountsViewer
<1>2. CASE active'[p] = active[p] /\ viewer'[p] = viewer[p] /\ newest'[p] = newest[p]
  <2>1. newest[p] \in Nat
    BY <1>2 DEF PageInv
  <2>2. Fresh(newest[p] - MaxLag)
    BY <1>1, <1>2, <2>1, MaxLagAssumption, MaxAgeAssumption DEF Fresh
  <2> QED
    BY <1>2, <2>2 DEF PageCountsViewer
<1>3. CASE ActiveIps(p)
  <2>1. /\ viewer[p] # Nothing /\ active' = [active EXCEPT ![p] = active_ips]
        /\ UNCHANGED <<now, logs, viewer, newest>>
    BY <1>3 DEF ActiveIps, vars
  <2>2. PICK ip \in Ip : ip = viewer[p]
    BY <2>1 DEF PageInv
  <2>3. newest[p] \in Nat /\ Fresh(newest[p] - MaxLag) /\ Backed(ip, newest[p])
    BY <2>1, <2>2 DEF PageInv, Fresh
  <2>4. logs[ip] # <<>> /\ Last(ip) + MaxLag >= newest[p]
    BY <2>3 DEF Backed
  <2>5. Last(ip) \in Nat
    <3>1. Len(logs[ip]) \in DOMAIN logs[ip]
      BY <2>4, LenProperties, EmptySeq DEF IInv, TypeOK
    <3> QED
      BY <3>1, LastIsYoung
  <2>6. Fresh(Last(ip))
    BY <1>1, <2>3, <2>4, <2>5, MaxLagAssumption, MaxAgeAssumption DEF Fresh
  <2>7. ip \in active_ips
    BY <2>4, <2>6 DEF active_ips, Active, Last
  <2> QED
    BY <2>1, <2>2, <2>7 DEF PageInv
<1>4. ASSUME NEW o \in Page, o # p, ActiveIps(o)
      PROVE  active'[p] = active[p] /\ viewer'[p] = viewer[p] /\ newest'[p] = newest[p]
  BY <1>4 DEF ActiveIps, PageInv
<1>5. ASSUME NEW o \in Page, NEW ip \in Ip, GetLogs(o, ip)
      PROVE  active'[p] = active[p] /\ viewer'[p] = viewer[p] /\ newest'[p] = newest[p]
  BY <1>5 DEF GetLogs, PageInv
<1>6. ASSUME NEW o \in Page, Sent(o)
      PROVE  active'[p] = active[p] /\ viewer'[p] = viewer[p] /\ newest'[p] = newest[p]
  BY <1>6 DEF Sent, PageInv
<1> QED
  BY <1>2, <1>3, <1>4, <1>5, <1>6 DEF NextA, varsA, page

LEMMA PageInvariance == SpecA => [](IInv /\ PageInv /\ PageCountsViewer)
<1>1. InitA => IInv /\ PageInv /\ PageCountsViewer
  BY InitInv DEF InitA, PageInv, PageCountsViewer
<1>2. IInv /\ [NextA]_varsA => IInv'
  <2>1. [NextA]_varsA => [Next]_vars
    BY DEF NextA, ActiveIps, Sent, GetLogs, varsA
  <2> QED
    BY <2>1, StepInv
<1>3. IInv /\ PageInv /\ PageCountsViewer /\ [NextA]_varsA => (IInv /\ PageInv /\ PageCountsViewer)'
  BY <1>2, PageStep, CountStep
<1> QED
  BY <1>1, <1>3, PTL DEF SpecA

\* The client that a page is made for is among those the page counts, whatever
\* is logged by whom between the two looks at the log, unless the queries the
\* page lists expire within the lag.
THEOREM ViewerCounted == SpecA => []PageCountsViewer
  BY PageInvariance, PTL
=============================================================================
