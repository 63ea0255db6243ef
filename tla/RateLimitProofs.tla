---------------------------- MODULE RateLimitProofs ----------------------------
(* Theorems of RateLimit, for every value of its constants. *)
EXTENDS RateLimit, FiniteSetTheorems, TLAPS

USE HandlersType, MaxReqsType, MaxWindowsType, NoneIsNoRequest

-----------------------------------------------------------------------------
(* Types. *)

\* A counter that exists was created.
Typed == TypeOK /\ \A ip \in IPs : count[ip] > 0 => window[ip] > 0

LEMMA InitTyped == Init => Typed
<1> SUFFICES ASSUME Init
             PROVE  Typed
  OBVIOUS
<1>1. allowed \in [IPs -> [1..MaxWindows -> Nat]] /\ window \in [IPs -> 0..MaxWindows]
  BY DEF Init
<1>2. \A ip \in IPs : count[ip] = 0
  BY DEF Init
<1> QED BY <1>1, <1>2 DEF Init, Typed, TypeOK

\* The window that a request of ip counts in.
Opened(ip) == IF count[ip] = 0 THEN window[ip] + 1 ELSE window[ip]

LEMMA IncrFacts ==
    ASSUME Typed, NEW h \in Handlers, Incr(h)
    PROVE  \E ip \in IPs, n \in Nat, w \in 1..MaxWindows :
             /\ pc[h] = "idle" /\ req[h] = None
             /\ n = count[ip] + 1 /\ w = Opened(ip)
             /\ count' = [count EXCEPT ![ip] = n]
             /\ window' = [window EXCEPT ![ip] = w]
             /\ req' = [req EXCEPT ![h] = [ip |-> ip, n |-> n, window |-> w]]
             /\ pc' = [pc EXCEPT ![h] = IF FirstRequest(n) THEN "expire" ELSE "decide"]
             /\ UNCHANGED <<expiring, allowed, faulty>>
<1>1. PICK ip \in IPs :
        /\ Opened(ip) <= MaxWindows
        /\ count' = [count EXCEPT ![ip] = count[ip] + 1]
        /\ window' = [window EXCEPT ![ip] = Opened(ip)]
        /\ req' = [req EXCEPT ![h] = [ip |-> ip, n |-> count[ip] + 1, window |-> Opened(ip)]]
        /\ pc' = [pc EXCEPT ![h] = IF FirstRequest(count[ip] + 1) THEN "expire" ELSE "decide"]
  BY DEF Incr, Counted, Opened
<1>2. count[ip] \in Nat /\ window[ip] \in 0..MaxWindows /\ (count[ip] > 0 => window[ip] > 0)
  BY DEF Typed, TypeOK
<1>3. count[ip] + 1 \in Nat /\ Opened(ip) \in 1..MaxWindows
  BY <1>1, <1>2 DEF Opened
<1>4. pc[h] = "idle" /\ req[h] = None /\ UNCHANGED <<expiring, allowed, faulty>>
  BY DEF Incr, Typed, TypeOK
<1> QED BY <1>1, <1>3, <1>4

LEMMA NextTyped ==
    ASSUME Typed, [Next]_vars
    PROVE  Typed'
<1> USE DEF Typed, TypeOK
<1>1. CASE UNCHANGED vars
  BY <1>1 DEF vars
<1>2. ASSUME NEW h \in Handlers, Incr(h)
      PROVE  Typed'
  <2>1. PICK ip \in IPs, n \in Nat, w \in 1..MaxWindows :
           /\ count' = [count EXCEPT ![ip] = n]
           /\ window' = [window EXCEPT ![ip] = w]
           /\ req' = [req EXCEPT ![h] = [ip |-> ip, n |-> n, window |-> w]]
           /\ pc' = [pc EXCEPT ![h] = IF FirstRequest(n) THEN "expire" ELSE "decide"]
           /\ UNCHANGED <<expiring, allowed, faulty>>
    BY <1>2, IncrFacts
  <2>5. [ip |-> ip, n |-> n, window |-> w] \in Request
    BY DEF Request
  <2>2. count' \in [IPs -> Nat] /\ window' \in [IPs -> 0..MaxWindows]
    BY <2>1
  <2>3. /\ pc' \in [Handlers -> {"idle", "expire", "decide"}]
        /\ req' \in [Handlers -> Request \cup {None}]
        /\ \A g \in Handlers : pc'[g] = "idle" <=> req'[g] = None
    BY <2>1, <2>5
  <2>4. \A i \in IPs : count'[i] > 0 => window'[i] > 0
    BY <2>1
  <2> QED BY <2>1, <2>2, <2>3, <2>4
<1>3. ASSUME NEW h \in Handlers, Expire(h) \/ LoseExpire(h)
      PROVE  Typed'
  <2>1. \A ip : (count[ip] > 0) \in BOOLEAN
    OBVIOUS
  <2>2. expiring' \in [IPs -> BOOLEAN]
    BY <1>3, <2>1 DEF Expire, LoseExpire
  <2> QED BY <1>3, <2>2 DEF Expire, LoseExpire
<1>4. ASSUME NEW h \in Handlers, Decide(h)
      PROVE  Typed'
  <2>1. req[h].ip \in IPs /\ req[h].window \in 1..MaxWindows
    BY <1>4 DEF Decide, Request
  <2>2. allowed' \in [IPs -> [1..MaxWindows -> Nat]]
    <3>1. CASE OverLimit(req[h].n)
      BY <1>4, <3>1 DEF Decide
    <3>2. CASE ~OverLimit(req[h].n)
      <4>1. allowed' = [allowed EXCEPT ![req[h].ip][req[h].window] = @ + 1]
        BY <1>4, <3>2 DEF Decide
      <4> QED BY <2>1, <4>1
    <3> QED BY <3>1, <3>2
  <2> QED BY <1>4, <2>2 DEF Decide, Finish
<1>5. ASSUME NEW h \in Handlers, Fail(h)
      PROVE  Typed'
  BY <1>5 DEF Fail, Finish
<1>6. ASSUME NEW ip \in IPs, ExpireKey(ip)
      PROVE  Typed'
  BY <1>6 DEF ExpireKey
<1>7. CASE RedisRestart
  BY <1>7 DEF RedisRestart
<1> QED BY <1>1, <1>2, <1>3, <1>4, <1>5, <1>6, <1>7 DEF Next

\* Types; and a handler has local variables exactly while it serves a request
\* (rate_limit.go Allow), for any number of addresses and handlers.
THEOREM TypesHold == Spec => []TypeOK
<1>1. Typed => TypeOK
  BY DEF Typed
<1> QED BY <1>1, InitTyped, NextTyped, PTL DEF Spec

-----------------------------------------------------------------------------
(* The limit. *)

\* The requests of a window that Allow is still to let through.
Granted(h, ip, w) == /\ req[h] # None
                     /\ req[h].ip = ip /\ req[h].window = w /\ ~OverLimit(req[h].n)
Pending(ip, w)    == {h \in Handlers : Granted(h, ip, w)}
Admitted(ip, w)   == allowed[ip][w] + Cardinality(Pending(ip, w))

\* A window is used up by its admissions, all of which the counter has counted while
\* the window is the current one, and no window is used before it is opened.
Used(ip, w) ==
    /\ Admitted(ip, w) <= MaxReqs
    /\ w = window[ip] /\ count[ip] > 0 => Admitted(ip, w) <= count[ip]
    /\ w > window[ip] => Admitted(ip, w) = 0

AllUsed == \A ip \in IPs, w \in 1..MaxWindows : Used(ip, w)

LEMMA PendingFinite ==
    \A ip, w : IsFiniteSet(Pending(ip, w)) /\ Cardinality(Pending(ip, w)) \in Nat
<1> TAKE ip, w
<1>1. Pending(ip, w) \in SUBSET Handlers
  BY DEF Pending
<1> QED BY <1>1, FS_Subset, FS_CardinalityType

\* The same admissions, whatever else changes.
LEMMA SameUsed ==
    ASSUME Typed, NEW ip \in IPs, NEW w \in 1..MaxWindows, Used(ip, w),
           Admitted(ip, w)' <= Admitted(ip, w), Admitted(ip, w)' \in Nat,
           window'[ip] = window[ip], count'[ip] \in {0, count[ip]}
    PROVE  Used(ip, w)'
<1>1. Admitted(ip, w) \in Nat /\ count[ip] \in Nat /\ window[ip] \in Nat
  BY PendingFinite DEF Typed, TypeOK, Admitted
<1> QED BY <1>1 DEF Used

LEMMA InitUsed == Init => AllUsed
<1> SUFFICES ASSUME Init, NEW ip \in IPs, NEW w \in 1..MaxWindows
             PROVE  Used(ip, w)
  BY DEF AllUsed
<1>1. Pending(ip, w) = {}
  BY DEF Init, Pending, Granted
<1>2. Admitted(ip, w) = 0 /\ count[ip] = 0
  BY <1>1, FS_EmptySet DEF Init, Admitted
<1> QED BY <1>2 DEF Used

\* One handler starts to serve a request.
LEMMA IncrUsed ==
    ASSUME Typed, AllUsed, NEW h \in Handlers, Incr(h)
    PROVE  AllUsed'
<1>1. PICK ip \in IPs, n \in Nat, v \in 1..MaxWindows :
         /\ req[h] = None
         /\ n = count[ip] + 1 /\ v = Opened(ip)
         /\ count' = [count EXCEPT ![ip] = n]
         /\ window' = [window EXCEPT ![ip] = v]
         /\ req' = [req EXCEPT ![h] = [ip |-> ip, n |-> n, window |-> v]]
         /\ UNCHANGED allowed
  BY IncrFacts
<1>0. [ip |-> ip, n |-> n, window |-> v] # None
  BY DEF Request
<1>2. /\ count[ip] \in Nat /\ window[ip] \in Nat
      /\ count'[ip] = n /\ window'[ip] = v
      /\ req'[h] # None /\ req'[h].ip = ip /\ req'[h].window = v /\ req'[h].n = n
      /\ \A g \in Handlers : g # h => req'[g] = req[g]
  BY <1>0, <1>1 DEF Typed, TypeOK
<1>3. \A j \in IPs, w \in 1..MaxWindows :
         Pending(j, w)' = IF j = ip /\ w = v /\ ~OverLimit(n) THEN Pending(j, w) \cup {h} ELSE Pending(j, w)
  BY <1>1, <1>2 DEF Pending, Granted, OverLimit
<1>4. \A j \in IPs, w \in 1..MaxWindows : h \notin Pending(j, w)
  BY <1>1 DEF Pending, Granted
<1>5. \A j \in IPs, w \in 1..MaxWindows :
         Admitted(j, w)' = IF j = ip /\ w = v /\ ~OverLimit(n) THEN Admitted(j, w) + 1 ELSE Admitted(j, w)
  <2> SUFFICES ASSUME NEW j \in IPs, NEW w \in 1..MaxWindows
               PROVE  Admitted(j, w)' = IF j = ip /\ w = v /\ ~OverLimit(n)
                                          THEN Admitted(j, w) + 1 ELSE Admitted(j, w)
    OBVIOUS
  <2>1. Cardinality(Pending(j, w) \cup {h}) = Cardinality(Pending(j, w)) + 1
    BY <1>4, PendingFinite, FS_AddElement
  <2>2. allowed[j][w] \in Nat /\ Cardinality(Pending(j, w)) \in Nat
    BY PendingFinite DEF Typed, TypeOK
  <2>3. Admitted(j, w)' = allowed[j][w] + Cardinality(Pending(j, w)')
    BY <1>1 DEF Admitted
  <2>4. CASE j = ip /\ w = v /\ ~OverLimit(n)
    <3>1. Pending(j, w)' = Pending(j, w) \cup {h}
      BY <1>3, <2>4
    <3> QED BY <2>1, <2>2, <2>3, <2>4, <3>1 DEF Admitted
  <2>5. CASE ~(j = ip /\ w = v /\ ~OverLimit(n))
    <3>1. Pending(j, w)' = Pending(j, w)
      BY <1>3, <2>5
    <3> QED BY <2>3, <2>5, <3>1 DEF Admitted
  <2> QED BY <2>4, <2>5
<1>6. \A j \in IPs, w \in 1..MaxWindows : Admitted(j, w) \in Nat
  BY PendingFinite DEF Admitted, Typed, TypeOK
<1> SUFFICES ASSUME NEW j \in IPs, NEW w \in 1..MaxWindows
             PROVE  Used(j, w)'
  BY DEF AllUsed
<1>7. CASE j # ip
  <2>1. Admitted(j, w)' = Admitted(j, w) /\ window'[j] = window[j] /\ count'[j] = count[j]
    BY <1>1, <1>5, <1>7 DEF Typed, TypeOK
  <2> QED BY <1>6, <2>1, SameUsed DEF AllUsed
<1>8. CASE j = ip /\ w = v
  <2>1. Used(ip, v)
    BY <1>2 DEF AllUsed
  <2>2. Admitted(ip, v) <= count[ip]
    <3>1. CASE count[ip] = 0
      BY <1>1, <1>2, <1>6, <2>1, <3>1 DEF Used, Opened
    <3>2. CASE count[ip] # 0
      BY <1>1, <1>2, <2>1, <3>2 DEF Used, Opened
    <3> QED BY <3>1, <3>2
  <2>3. Admitted(ip, v)' <= n
    BY <1>1, <1>2, <1>5, <1>6, <2>2
  <2>4. Admitted(ip, v)' <= MaxReqs
    <3>1. CASE OverLimit(n)
      BY <1>5, <1>2, <2>1, <3>1 DEF Used
    <3>2. CASE ~OverLimit(n)
      BY <1>2, <1>5, <1>6, <2>3, <3>2 DEF OverLimit
    <3> QED BY <3>1, <3>2
  <2> QED BY <1>2, <1>8, <2>3, <2>4 DEF Used
<1>9. CASE j = ip /\ w # v
  <2>1. Admitted(ip, w)' = Admitted(ip, w) /\ v >= window[ip] /\ Used(ip, w)
    BY <1>1, <1>2, <1>5, <1>9 DEF AllUsed, Opened
  <2> QED BY <1>2, <1>6, <1>9, <2>1 DEF Used
<1> QED BY <1>7, <1>8, <1>9

\* One handler ends.
LEMMA EndUsed ==
    ASSUME Typed, Typed', AllUsed, NEW h \in Handlers, Decide(h) \/ Fail(h)
    PROVE  AllUsed'
<1>1. /\ req[h] \in Request /\ req' = [req EXCEPT ![h] = None]
      /\ UNCHANGED <<count, window>>
  BY DEF Decide, Fail, Finish, Typed, TypeOK
<1> DEFINE i == req[h].ip
           v == req[h].window
<1>2. i \in IPs /\ v \in 1..MaxWindows
  BY <1>1 DEF Request
<1>3. \A j \in IPs, w \in 1..MaxWindows : Pending(j, w)' = Pending(j, w) \ {h}
  BY <1>1 DEF Pending, Granted, Typed, TypeOK
<1>4. h \in Pending(i, v) <=> ~OverLimit(req[h].n)
  BY <1>1 DEF Pending, Granted
<1> SUFFICES ASSUME NEW j \in IPs, NEW w \in 1..MaxWindows
             PROVE  Used(j, w)'
  BY DEF AllUsed
<1>5. /\ allowed[j][w] \in Nat /\ allowed'[j][w] \in Nat
      /\ Cardinality(Pending(j, w)) \in Nat /\ Cardinality(Pending(j, w)') \in Nat
      /\ Cardinality(Pending(j, w)') = IF h \in Pending(j, w) THEN Cardinality(Pending(j, w)) - 1
                                                            ELSE Cardinality(Pending(j, w))
  <2>1. allowed[j][w] \in Nat /\ allowed'[j][w] \in Nat
    BY DEF Typed, TypeOK
  <2>2. IsFiniteSet(Pending(j, w)) /\ Cardinality(Pending(j, w)) \in Nat
    BY PendingFinite
  <2>3. /\ IsFiniteSet(Pending(j, w) \ {h})
        /\ Cardinality(Pending(j, w) \ {h}) = IF h \in Pending(j, w) THEN Cardinality(Pending(j, w)) - 1
                                                                   ELSE Cardinality(Pending(j, w))
    BY <2>2, FS_RemoveElement
  <2>4. Cardinality(Pending(j, w) \ {h}) \in Nat
    BY <2>3, FS_CardinalityType
  <2> QED BY <1>3, <2>1, <2>2, <2>3, <2>4
<1>6. allowed'[j][w] <= IF h \in Pending(j, w) THEN allowed[j][w] + 1 ELSE allowed[j][w]
  <2>1. CASE Fail(h) \/ OverLimit(req[h].n)
    BY <1>5, <2>1 DEF Fail, Decide
  <2>2. CASE Decide(h) /\ ~OverLimit(req[h].n)
    <3>1. allowed' = [allowed EXCEPT ![i][v] = @ + 1]
      BY <2>2 DEF Decide
    <3>2. CASE j = i /\ w = v
      BY <1>2, <1>4, <1>5, <2>2, <3>1, <3>2 DEF Typed, TypeOK
    <3>3. CASE ~(j = i /\ w = v)
      BY <1>2, <1>5, <3>1, <3>3 DEF Typed, TypeOK
    <3> QED BY <3>2, <3>3
  <2> QED BY <2>1, <2>2
<1>7. Admitted(j, w)' <= Admitted(j, w) /\ Admitted(j, w)' \in Nat
  BY <1>5, <1>6 DEF Admitted
<1> QED BY <1>1, <1>7, SameUsed DEF AllUsed

LEMMA NextUsed ==
    ASSUME Typed, Typed', AllUsed, [Next]_vars
    PROVE  AllUsed'
<1>1. ASSUME UNCHANGED <<window, allowed, req>>,
             \A ip \in IPs : count'[ip] \in {0, count[ip]}
      PROVE  AllUsed'
  <2> SUFFICES ASSUME NEW ip \in IPs, NEW w \in 1..MaxWindows
               PROVE  Used(ip, w)'
    BY DEF AllUsed
  <2>1. Admitted(ip, w)' = Admitted(ip, w)
    BY <1>1 DEF Admitted, Pending, Granted
  <2>2. Admitted(ip, w) \in Nat
    BY PendingFinite DEF Admitted, Typed, TypeOK
  <2> QED BY <1>1, <2>1, <2>2, SameUsed DEF AllUsed
<1>2. CASE UNCHANGED vars
  BY <1>1, <1>2 DEF vars
<1>3. ASSUME NEW h \in Handlers, Expire(h) \/ LoseExpire(h)
      PROVE  AllUsed'
  BY <1>1, <1>3 DEF Expire, LoseExpire
<1>4. ASSUME NEW ip \in IPs, ExpireKey(ip)
      PROVE  AllUsed'
  BY <1>1, <1>4 DEF ExpireKey, Typed, TypeOK
<1>5. CASE RedisRestart
  BY <1>1, <1>5 DEF RedisRestart
<1> QED BY <1>2, <1>3, <1>4, <1>5, IncrUsed, EndUsed DEF Next

\* Allow says yes to at most maxReqs requests of an address per window, for any number of
\* addresses, concurrent handlers and any limit, however INCR, EXPIRE and the decisions
\* interleave, and also when EXPIRE or the counter is lost (rate_limit.go Allow).
THEOREM LimitHolds == Spec => []WindowLimit
<1>1. Typed /\ AllUsed => WindowLimit
  <2> SUFFICES ASSUME Typed, AllUsed, NEW ip \in IPs, NEW w \in 1..MaxWindows
               PROVE  allowed[ip][w] <= MaxReqs
    BY DEF WindowLimit
  <2>1. allowed[ip][w] \in Nat /\ Cardinality(Pending(ip, w)) \in Nat
    BY PendingFinite DEF Typed, TypeOK
  <2> QED BY <2>1 DEF AllUsed, Used, Admitted
<1> QED BY <1>1, InitTyped, NextTyped, InitUsed, NextUsed, PTL DEF Spec

-----------------------------------------------------------------------------
(* Every window has an end in sight. *)

\* As long as nothing fails, a counter has a TTL, or the request that opened the window is
\* about to set one.
Closing ==
    ~faulty => \A ip \in IPs : count[ip] > 0 =>
        expiring[ip] \/ \E h \in Handlers : pc[h] = "expire" /\ req[h].ip = ip

LEMMA NextClosing ==
    ASSUME Typed, Closing, [Next]_vars
    PROVE  Closing'
<1> SUFFICES ASSUME ~faulty', NEW ip \in IPs, count'[ip] > 0, ~expiring'[ip]
             PROVE  \E h \in Handlers : pc'[h] = "expire" /\ req'[h].ip = ip
  BY DEF Closing
<1>0. ~faulty
  BY DEF Next, vars, Incr, Expire, Decide, Fail, LoseExpire, ExpireKey, RedisRestart
<1>1. CASE UNCHANGED vars
  BY <1>0, <1>1 DEF vars, Closing
<1>2. ASSUME NEW h \in Handlers, Incr(h)
      PROVE  \E g \in Handlers : pc'[g] = "expire" /\ req'[g].ip = ip
  <2>1. PICK i \in IPs, n \in Nat, w \in 1..MaxWindows :
          /\ pc[h] = "idle"
          /\ n = count[i] + 1
          /\ count' = [count EXCEPT ![i] = n]
          /\ req' = [req EXCEPT ![h] = [ip |-> i, n |-> n, window |-> w]]
          /\ pc' = [pc EXCEPT ![h] = IF FirstRequest(n) THEN "expire" ELSE "decide"]
          /\ UNCHANGED expiring
    BY <1>2, IncrFacts
  <2>2. CASE i = ip /\ count[ip] = 0
    <3>1. pc'[h] = "expire" /\ req'[h].ip = ip
      BY <2>1, <2>2 DEF FirstRequest, Typed, TypeOK
    <3> QED BY <3>1
  <2>3. CASE ~(i = ip /\ count[ip] = 0)
    <3>1. count[ip] > 0 /\ ~expiring[ip]
      BY <2>1, <2>3 DEF Typed, TypeOK
    <3>2. PICK g \in Handlers : pc[g] = "expire" /\ req[g].ip = ip
      BY <1>0, <3>1 DEF Closing
    <3>3. pc'[g] = "expire" /\ req'[g].ip = ip
      BY <2>1, <3>2 DEF Typed, TypeOK
    <3> QED BY <3>3
  <2> QED BY <2>2, <2>3
<1>3. ASSUME NEW h \in Handlers, Expire(h)
      PROVE  \E g \in Handlers : pc'[g] = "expire" /\ req'[g].ip = ip
  <2>1. req[h] \in Request /\ req[h].ip \in IPs
    BY <1>3 DEF Expire, Typed, TypeOK, Request
  <2>2. req[h].ip # ip
    BY <1>3, <2>1 DEF Expire, Typed, TypeOK
  <2>3. count[ip] > 0 /\ ~expiring[ip]
    BY <1>3, <2>2 DEF Expire, Typed, TypeOK
  <2>4. PICK g \in Handlers : pc[g] = "expire" /\ req[g].ip = ip
    BY <1>0, <2>3 DEF Closing
  <2>5. pc'[g] = "expire" /\ req'[g].ip = ip
    BY <1>3, <2>2, <2>4 DEF Expire, Typed, TypeOK
  <2> QED BY <2>5
<1>4. ASSUME NEW h \in Handlers, Decide(h)
      PROVE  \E g \in Handlers : pc'[g] = "expire" /\ req'[g].ip = ip
  <2>1. PICK g \in Handlers : pc[g] = "expire" /\ req[g].ip = ip
    BY <1>0, <1>4 DEF Decide, Closing
  <2>2. pc'[g] = "expire" /\ req'[g].ip = ip
    BY <1>4, <2>1 DEF Decide, Finish, Typed, TypeOK
  <2> QED BY <2>2
<1>5. ASSUME NEW i \in IPs, ExpireKey(i)
      PROVE  \E g \in Handlers : pc'[g] = "expire" /\ req'[g].ip = ip
  <2>1. count[ip] > 0 /\ ~expiring[ip]
    BY <1>5 DEF ExpireKey, Typed, TypeOK
  <2> QED BY <1>0, <1>5, <2>1 DEF ExpireKey, Closing
<1> QED
  BY <1>0, <1>1, <1>2, <1>3, <1>4, <1>5 DEF Next, Fail, LoseExpire, RedisRestart

\* What WindowEnds rests on: as long as nothing fails, no counter is left without a TTL
\* (rate_limit_service.go Allow), for any number of addresses and handlers.
THEOREM WindowsClose == Spec => []Closing
<1>1. Init => Closing
  BY DEF Init, Closing
<1> QED BY <1>1, InitTyped, NextTyped, NextClosing, PTL DEF Spec
=============================================================================
