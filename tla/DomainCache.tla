----------------------------- MODULE DomainCache -----------------------------
(***************************************************************************)
(* The e-mail domains that the administrator allows: a table in MariaDB, a *)
(* set in Redis that answers the voters, and a flag that says whether the  *)
(* set was loaded.  A process is one request or one background WarmCache;  *)
(* one action is one statement or one Redis command: the pipeline of       *)
(* WarmCache is not a transaction.                                         *)
(***************************************************************************)
EXTENDS Naturals, FiniteSets

CONSTANTS
    Domains, Processes,
    MaxRows,        \* bound of the model: rows ever inserted
    Faults,         \* whether calls fail, processes die and Redis restarts
    None

ASSUME MaxRowsType == MaxRows \in Nat
ASSUME FaultsType  == Faults \in BOOLEAN

Row == [id : 1..MaxRows, domain : Domains]

VARIABLES
    rows,       \* custom_email_domains
    nextId,     \* its AUTO_INCREMENT
    cached,     \* Redis set of custom domains
    warmed,     \* whether Redis holds the flag
    pc, loc,    \* process -> next step; local variables, or None
    suspects,   \* history: domains whose place in the set a race or a lost call
                \* may have left wrong
    listed,     \* history: process -> whether its domain was in the table, at the
                \* moments of its request
    excused     \* history: process -> whether at some moment of its request its
                \* domain was suspect or being changed, or Redis restarted

vars == <<rows, nextId, cached, warmed, pc, loc, suspects, listed, excused>>

Locals == [domain : Domains \cup {None}, id : 0..MaxRows, read : SUBSET Domains,
           answer : BOOLEAN \cup {None}]

ASSUME NoneIsNoLocals == None \notin Locals

-----------------------------------------------------------------------------
(* Mutated forms: a deleted domain stays in the set, the flag is not looked at,
   and the reply keeps the locals. *)
RemoveNothing(d)     == cached
AlwaysWarm           == TRUE
FinishKeepsLocals(p) == pc' = [pc EXCEPT ![p] = "idle"] /\ UNCHANGED loc

-----------------------------------------------------------------------------
Listed == {r.domain : r \in rows}

Init ==
    /\ rows = {}
    /\ nextId = 1
    /\ cached = {}
    /\ warmed \in BOOLEAN       \* whether WarmCache succeeded at start-up
    /\ pc = [p \in Processes |-> "idle"]
    /\ loc = [p \in Processes |-> None]
    /\ suspects = {}
    /\ listed = [p \in Processes |-> {}]
    /\ excused = [p \in Processes |-> FALSE]

Goto(p, step) == pc' = [pc EXCEPT ![p] = step]

Finish(p) == pc' = [pc EXCEPT ![p] = "idle"] /\ loc' = [loc EXCEPT ![p] = None]

\* Somebody is between the two halves of a change of d, or is reloading the set.
InFlight(d, at, l) ==
    \E p \in Processes :
        \/ at[p] \in {"del", "add", "mark"}
        \/ at[p] \in {"sadd", "srem"} /\ l[p].domain = d

\* History, written by every action after everything else.
Watch ==
    /\ listed' = [p \in Processes |->
         IF pc'[p] = "idle" THEN {}
                            ELSE listed[p] \cup {loc'[p].domain \in {r.domain : r \in rows'}}]
    /\ excused' = [p \in Processes |->
         /\ pc'[p] # "idle"
         /\ \/ excused[p]
            \/ loc'[p].domain \in suspects'
            \/ InFlight(loc'[p].domain, pc', loc')
            \/ warmed /\ ~warmed']

Start(p, step, d, i) ==
    /\ pc[p] = "idle"
    /\ loc' = [loc EXCEPT ![p] = [domain |-> d, id |-> i, read |-> {}, answer |-> None]]
    /\ Goto(p, step)
    /\ UNCHANGED <<rows, nextId, cached, warmed, suspects>>
    /\ Watch

-----------------------------------------------------------------------------
(* POST /api/admin/email-domains *)

BeginInsert(p) == \E d \in Domains : Start(p, "insert", d, 0)

InsertRow(p) ==
    /\ pc[p] = "insert"
    /\ LET d == loc[p].domain IN
         \/ /\ d \in Listed
            /\ Finish(p)
            /\ UNCHANGED <<rows, nextId, suspects>>
         \/ /\ d \notin Listed
            /\ nextId <= MaxRows
            /\ rows' = rows \cup {[id |-> nextId, domain |-> d]}
            /\ nextId' = nextId + 1
            /\ suspects' = IF InFlight(d, pc, loc) THEN suspects \cup {d} ELSE suspects
            /\ Goto(p, "sadd")
            /\ UNCHANGED loc
    /\ UNCHANGED <<cached, warmed>>
    /\ Watch

\* Its error is only logged.
AddToSet(p) ==
    /\ pc[p] = "sadd"
    /\ \/ cached' = cached \cup {loc[p].domain} /\ UNCHANGED suspects
       \/ Faults /\ suspects' = suspects \cup {loc[p].domain} /\ UNCHANGED cached
    /\ Finish(p)
    /\ UNCHANGED <<rows, nextId, warmed>>
    /\ Watch

-----------------------------------------------------------------------------
(* DELETE /api/admin/email-domains/:id *)

BeginDelete(p) == \E i \in 1..(nextId - 1) : Start(p, "select", None, i)

SelectRow(p) ==
    /\ pc[p] = "select"
    /\ \/ \E r \in rows : /\ r.id = loc[p].id
                          /\ loc' = [loc EXCEPT ![p].domain = r.domain]
                          /\ Goto(p, "delete")
       \/ (\A r \in rows : r.id # loc[p].id) /\ Finish(p)
    /\ UNCHANGED <<rows, nextId, cached, warmed, suspects>>
    /\ Watch

DeleteRow(p) ==
    /\ pc[p] = "delete"
    /\ LET d == loc[p].domain
           r == [id |-> loc[p].id, domain |-> d]
       IN  \/ /\ r \in rows
              /\ rows' = rows \ {r}
              /\ suspects' = IF InFlight(d, pc, loc) THEN suspects \cup {d} ELSE suspects
              /\ Goto(p, "srem")
              /\ UNCHANGED loc
           \/ /\ r \notin rows
              /\ Finish(p)
              /\ UNCHANGED <<rows, suspects>>
    /\ UNCHANGED <<nextId, cached, warmed>>
    /\ Watch

Without(d) == cached \ {d}

\* Its error is only logged.
RemoveFromSet(p) ==
    /\ pc[p] = "srem"
    /\ \/ cached' = Without(loc[p].domain) /\ UNCHANGED suspects
       \/ Faults /\ suspects' = suspects \cup {loc[p].domain} /\ UNCHANGED cached
    /\ Finish(p)
    /\ UNCHANGED <<rows, nextId, warmed>>
    /\ Watch

-----------------------------------------------------------------------------
(* IsDomainAllowed, in POST /api/vote/request-otp. *)

BeginLookup(p) == \E d \in Domains : Start(p, "exists", d, 0)

UseSet == warmed

\* Without the flag, or without Redis, the table answers.
AskFlag(p) ==
    /\ pc[p] = "exists"
    /\ \/ UseSet /\ Goto(p, "member")
       \/ (~UseSet \/ Faults) /\ Goto(p, "lookup")
    /\ UNCHANGED <<rows, nextId, cached, warmed, loc, suspects>>
    /\ Watch

AskSet(p) ==
    /\ pc[p] = "member"
    /\ loc' = [loc EXCEPT ![p].answer = loc[p].domain \in cached]
    /\ Goto(p, "reply")
    /\ UNCHANGED <<rows, nextId, cached, warmed, suspects>>
    /\ Watch

\* The goroutine that reloads the set goes on after the answer.
AskTable(p) ==
    /\ pc[p] = "lookup"
    /\ loc' = [loc EXCEPT ![p].answer = loc[p].domain \in Listed]
    /\ Goto(p, "getAll")
    /\ UNCHANGED <<rows, nextId, cached, warmed, suspects>>
    /\ Watch

Reply(p) ==
    /\ pc[p] = "reply"
    /\ Finish(p)
    /\ UNCHANGED <<rows, nextId, cached, warmed, suspects>>
    /\ Watch

-----------------------------------------------------------------------------
(* WarmCache: read the table, then DEL, SADD unless there is nothing, SET. *)

GetAll(p) ==
    /\ pc[p] = "getAll"
    /\ loc' = [loc EXCEPT ![p].read = Listed]
    /\ Goto(p, "del")
    /\ UNCHANGED <<rows, nextId, cached, warmed, suspects>>
    /\ Watch

EmptySet(p) ==
    /\ pc[p] = "del"
    /\ cached' = {}
    /\ Goto(p, IF loc[p].read = {} THEN "mark" ELSE "add")
    /\ UNCHANGED <<rows, nextId, warmed, loc, suspects>>
    /\ Watch

FillSet(p) ==
    /\ pc[p] = "add"
    /\ cached' = cached \cup loc[p].read
    /\ Goto(p, "mark")
    /\ UNCHANGED <<rows, nextId, warmed, loc, suspects>>
    /\ Watch

SetFlag(p) ==
    /\ pc[p] = "mark"
    /\ warmed' = TRUE
    /\ Finish(p)
    /\ UNCHANGED <<rows, nextId, cached, suspects>>
    /\ Watch

-----------------------------------------------------------------------------
(* Faults. *)

\* The process dies, or a call whose error it returns fails.  What is left
\* half done: one domain, or the set that was emptied and not filled.
HalfDone(p) ==
    CASE pc[p] \in {"sadd", "srem"} -> {loc[p].domain}
      [] pc[p] = "add"              -> Listed
      [] OTHER                      -> {}

Fail(p) ==
    /\ Faults
    /\ pc[p] # "idle"
    /\ suspects' = suspects \cup HalfDone(p)
    /\ Finish(p)
    /\ UNCHANGED <<rows, nextId, cached, warmed>>
    /\ Watch

\* Redis comes back empty; the pipelines that were under way fail.
RedisRestart ==
    /\ Faults
    /\ cached' = {}
    /\ warmed' = FALSE
    /\ LET cut(p) == pc[p] \in {"add", "mark"}
       IN  /\ pc' = [p \in Processes |-> IF cut(p) THEN "idle" ELSE pc[p]]
           /\ loc' = [p \in Processes |-> IF cut(p) THEN None ELSE loc[p]]
    /\ UNCHANGED <<rows, nextId, suspects>>
    /\ Watch

-----------------------------------------------------------------------------
Admin(p) ==
    \/ BeginInsert(p) \/ InsertRow(p) \/ AddToSet(p)
    \/ BeginDelete(p) \/ SelectRow(p) \/ DeleteRow(p) \/ RemoveFromSet(p)

Lookup(p) == BeginLookup(p) \/ AskFlag(p) \/ AskSet(p) \/ AskTable(p) \/ Reply(p)

WarmCache(p) == GetAll(p) \/ EmptySet(p) \/ FillSet(p) \/ SetFlag(p)

Next ==
    \/ \E p \in Processes : Admin(p) \/ Lookup(p) \/ WarmCache(p) \/ Fail(p)
    \/ RedisRestart

Spec == Init /\ [][Next]_vars

-----------------------------------------------------------------------------
(* Properties. *)

\* Types; domains are UNIQUE; a process has local variables exactly while it works.
TypeOK ==
    /\ rows \subseteq Row
    /\ \A r, s \in rows : r.domain = s.domain \/ r.id = s.id => r = s
    /\ nextId \in 1..(MaxRows + 1)
    /\ cached \subseteq Domains
    /\ warmed \in BOOLEAN
    /\ pc \in [Processes -> {"idle", "insert", "sadd", "select", "delete", "srem", "exists",
                             "member", "lookup", "reply", "getAll", "del", "add", "mark"}]
    /\ loc \in [Processes -> Locals \cup {None}]
    /\ \A p \in Processes : pc[p] = "idle" <=> loc[p] = None
    /\ suspects \subseteq Domains
    /\ listed \in [Processes -> SUBSET BOOLEAN]
    /\ excused \in [Processes -> BOOLEAN]

\* With the flag, the set agrees with the table on every domain that nobody is
\* changing, but for those that lost a call or were changed while another change
\* of them, or a reload, was under way (custom_domain_repo.go Insert, Delete,
\* WarmCache).
SetMatchesTable ==
    warmed => \A d \in Domains \ suspects :
        InFlight(d, pc, loc) \/ (d \in cached <=> d \in Listed)

\* A voter's domain is judged by the table as it was at some moment of the request,
\* unless Redis restarted, or the domain was suspect or being changed, meanwhile.
LookupJustified ==
    \A p \in Processes : pc[p] # "idle" /\ loc[p].answer # None =>
        loc[p].answer \in listed[p] \/ excused[p]

=============================================================================
