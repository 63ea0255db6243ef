------------------------------ MODULE RateLimit ------------------------------
(***************************************************************************)
(* The fixed-window limit on POST /api/vote/request-otp: one Redis counter *)
(* per address, incremented by the middleware of every request, with a TTL *)
(* of one hour set by the request that created the counter.                *)
(***************************************************************************)
EXTENDS Naturals, FiniteSets

CONSTANTS
    IPs, Handlers,
    MaxReqs,        \* maxReqs, from RATE_LIMIT_MAX
    MaxWindows,     \* bound of the model: windows opened per address
    None

ASSUME HandlersType   == IsFiniteSet(Handlers)
ASSUME MaxReqsType    == MaxReqs \in Nat \ {0}
ASSUME MaxWindowsType == MaxWindows \in Nat

VARIABLES
    count,      \* Redis ratelimit:<ip>, 0 when the key is absent
    expiring,   \* whether that key has a TTL
    window,     \* history: how often the key was created
    allowed,    \* history: requests Allow let through, by address and window
    faulty,     \* whether calls fail, goroutines die and Redis restarts: set once
    pc, req     \* handler -> next step; [ip, n, window] or None

vars == <<count, expiring, window, allowed, faulty, pc, req>>

Request == [ip : IPs, n : Nat, window : 1..MaxWindows]

ASSUME NoneIsNoRequest == None \notin Request

Init ==
    /\ count = [ip \in IPs |-> 0]
    /\ expiring = [ip \in IPs |-> FALSE]
    /\ window = [ip \in IPs |-> 0]
    /\ allowed = [ip \in IPs |-> [w \in 1..MaxWindows |-> 0]]
    /\ faulty \in BOOLEAN
    /\ pc = [h \in Handlers |-> "idle"]
    /\ req = [h \in Handlers |-> None]

-----------------------------------------------------------------------------
(* Mutated forms: the reply keeps the locals, the decision uses the counter as it
   was before INCR, and no request is the first one. *)
FinishKeepsRequest(h) == pc' = [pc EXCEPT ![h] = "idle"] /\ UNCHANGED req
CountBefore(ip)       == count[ip]
NoFirst(n)            == n = 0

-----------------------------------------------------------------------------
\* Bound of the model: all counts from MaxReqs + 1 on are refused alike.
CountCap == MaxReqs + 2

OverLimit(n)    == n > MaxReqs
FirstRequest(n) == n = 1

Finish(h) == pc' = [pc EXCEPT ![h] = "idle"] /\ req' = [req EXCEPT ![h] = None]

\* INCR creates the key, without a TTL, when it is absent.
Counted(ip) == count[ip] + 1

Incr(h) ==
    /\ pc[h] = "idle"
    /\ \E ip \in IPs :
         LET n == Counted(ip)
             w == IF count[ip] = 0 THEN window[ip] + 1 ELSE window[ip]
         IN  /\ w <= MaxWindows
             /\ count[ip] < CountCap
             /\ count' = [count EXCEPT ![ip] = @ + 1]
             /\ window' = [window EXCEPT ![ip] = w]
             /\ req' = [req EXCEPT ![h] = [ip |-> ip, n |-> n, window |-> w]]
             /\ pc' = [pc EXCEPT ![h] = IF FirstRequest(n) THEN "expire" ELSE "decide"]
    /\ UNCHANGED <<expiring, allowed, faulty>>

Expire(h) ==
    /\ pc[h] = "expire"
    /\ expiring' = [expiring EXCEPT ![req[h].ip] = count[req[h].ip] > 0]
    /\ pc' = [pc EXCEPT ![h] = "decide"]
    /\ UNCHANGED <<count, window, allowed, req, faulty>>

Decide(h) ==
    /\ pc[h] = "decide"
    /\ allowed' = IF OverLimit(req[h].n)
                    THEN allowed
                    ELSE [allowed EXCEPT ![req[h].ip][req[h].window] = @ + 1]
    /\ Finish(h)
    /\ UNCHANGED <<count, expiring, window, faulty>>

\* The TTL runs out.
ExpireKey(ip) ==
    /\ expiring[ip]
    /\ count' = [count EXCEPT ![ip] = 0]
    /\ expiring' = [expiring EXCEPT ![ip] = FALSE]
    /\ UNCHANGED <<window, allowed, pc, req, faulty>>

\* The process dies, or the reply to INCR is lost: the middleware then lets the
\* request through undecided.  (An INCR that never ran changes nothing here.)
Fail(h) ==
    /\ faulty
    /\ pc[h] # "idle"
    /\ Finish(h)
    /\ UNCHANGED <<count, expiring, window, allowed, faulty>>

\* EXPIRE fails; Allow does not look.
LoseExpire(h) ==
    /\ faulty
    /\ pc[h] = "expire"
    /\ pc' = [pc EXCEPT ![h] = "decide"]
    /\ UNCHANGED <<count, expiring, window, allowed, req, faulty>>

RedisRestart ==
    /\ faulty
    /\ count' = [ip \in IPs |-> 0]
    /\ expiring' = [ip \in IPs |-> FALSE]
    /\ UNCHANGED <<window, allowed, pc, req, faulty>>

Next ==
    \/ \E h \in Handlers : Incr(h) \/ Expire(h) \/ Decide(h) \/ Fail(h) \/ LoseExpire(h)
    \/ \E ip \in IPs : ExpireKey(ip)
    \/ RedisRestart

Spec == Init /\ [][Next]_vars

\* Every started request goes on, and time passes.
FairSpec ==
    /\ Spec
    /\ \A h \in Handlers : WF_vars(Expire(h) \/ Decide(h))
    /\ \A ip \in IPs : WF_vars(ExpireKey(ip))

-----------------------------------------------------------------------------
(* Properties. *)

\* Types; and a handler has local variables exactly while it serves a request.
TypeOK ==
    /\ count \in [IPs -> Nat]
    /\ expiring \in [IPs -> BOOLEAN]
    /\ window \in [IPs -> 0..MaxWindows]
    /\ allowed \in [IPs -> [1..MaxWindows -> Nat]]
    /\ faulty \in BOOLEAN
    /\ pc \in [Handlers -> {"idle", "expire", "decide"}]
    /\ req \in [Handlers -> Request \cup {None}]
    /\ \A h \in Handlers : pc[h] = "idle" <=> req[h] = None

\* Allow says yes to at most maxReqs requests of one address per window, even when
\* all are counted before the first one is decided, and when EXPIRE or the counter
\* is lost.  (What the middleware lets through because Redis fails is not Allow's.)
WindowLimit == \A ip \in IPs, w \in 1..MaxWindows : allowed[ip][w] <= MaxReqs

\* Every window ends: an address that is refused now is served again, as the reply
\* of rate_limit_middleware.go:26 promises -- as long as nothing fails: a counter
\* whose EXPIRE was lost stays for ever.
WindowEnds == \A ip \in IPs : ~faulty /\ count[ip] > 0 ~> count[ip] = 0
=============================================================================
