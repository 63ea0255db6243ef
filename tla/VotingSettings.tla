--------------------------- MODULE VotingSettings ---------------------------
(***************************************************************************)
(* The one row of voting_settings, its read-through cache in Redis (no     *)
(* TTL, deleted by every update) and the clock.  A process is one HTTP     *)
(* request; one action is one call to Redis or MariaDB.                    *)
(***************************************************************************)
EXTENDS Naturals, Sequences

CONSTANTS
    Processes,
    MaxTime,        \* bound of the model: the clock stops here
    Faults,         \* whether calls to Redis or MariaDB fail
    None

ASSUME MaxTimeType == MaxTime \in Nat
ASSUME FaultsType  == Faults \in BOOLEAN

Instants == 0..MaxTime
Settings == [is_open : BOOLEAN, ends_at : Instants \cup {None}, custom_only : BOOLEAN]

ASSUME NoneIsNoSettings == None \notin Settings

\* What a request does: the gate of the voter endpoints, GET /api/voting-status,
\* PUT /api/admin/voting-settings and PUT /api/admin/email-domains/mode.
Kinds == {"gate", "status", "update", "mode"}

VARIABLES
    row,        \* the row in MariaDB
    cache,      \* Redis voting:settings, or None
    now,        \* the clock
    pc, loc,    \* process -> next step; local variables, or None
    overlap,    \* history: the cache was filled from a row older than the table's,
                \* or a deletion of it was lost, since it was last right
    seenOpen    \* history: process -> during its request the cache or the row was
                \* open with its deadline ahead

vars == <<row, cache, now, pc, loc, overlap, seenOpen>>

\* todo: the calls still to make; read: the settings in hand; found: whether
\* IsVotingOpen said yes.
Locals == [kind : Kinds, todo : Seq({"GetStatus", "IsVotingOpen"}),
           read : Settings \cup {None}, found : BOOLEAN]

-----------------------------------------------------------------------------
(* Mutated forms: the deadline is not looked at, a new domain mode leaves the cache
   alone, and the reply keeps the locals. *)
IgnoreDeadline(s)    == s.is_open
ModeKeepsCache(kind) == IF kind = "mode" THEN "reply" ELSE "invalidate"
FinishKeepsLocals(p) == pc' = [pc EXCEPT ![p] = "idle"] /\ UNCHANGED loc

-----------------------------------------------------------------------------
\* IsVotingOpen, given what GetStatus returned.
IsVotingOpen(s) == s.is_open /\ (s.ends_at = None \/ now <= s.ends_at)

\* The calls that read the settings, in order: for an update, those of the payload
\* it publishes.
CallsOf(kind) ==
    CASE kind = "gate"   -> <<"IsVotingOpen">>
      [] kind = "status" -> <<"GetStatus", "IsVotingOpen">>
      [] kind = "update" -> <<"IsVotingOpen", "GetStatus">>
      [] kind = "mode"   -> <<>>

Init ==
    /\ row = [is_open |-> TRUE, ends_at |-> None, custom_only |-> FALSE]
    /\ cache = None
    /\ now = 0
    /\ pc = [p \in Processes |-> "idle"]
    /\ loc = [p \in Processes |-> None]
    /\ overlap = FALSE
    /\ seenOpen = [p \in Processes |-> FALSE]

Goto(p, step) == pc' = [pc EXCEPT ![p] = step]

Finish(p) == pc' = [pc EXCEPT ![p] = "idle"] /\ loc' = [loc EXCEPT ![p] = None]

\* History, written by every action after everything else.
OpenSomewhere(r, c, t) ==
    \E s \in {r, c} \ {None} : s.is_open /\ (s.ends_at = None \/ t <= s.ends_at)

Watch ==
    seenOpen' = [p \in Processes |->
        pc'[p] # "idle" /\ (seenOpen[p] \/ OpenSomewhere(row', cache', now'))]

GotoNext(p, todo) == Goto(p, IF todo = <<>> THEN "reply" ELSE "get")

\* GetStatus returns s; IsVotingOpen looks at the clock next.
Return(p, s) ==
    IF Head(loc[p].todo) = "IsVotingOpen"
      THEN loc' = [loc EXCEPT ![p].read = s] /\ Goto(p, "clock")
      ELSE /\ loc' = [loc EXCEPT ![p].todo = Tail(@), ![p].read = None]
           /\ GotoNext(p, Tail(loc[p].todo))

-----------------------------------------------------------------------------
Begin(p) ==
    /\ pc[p] = "idle"
    /\ \E k \in Kinds :
         /\ loc' = [loc EXCEPT ![p] = [kind |-> k, todo |-> CallsOf(k), read |-> None,
                                    found |-> FALSE]]
         /\ Goto(p, IF k \in {"update", "mode"} THEN "write" ELSE "get")
    /\ UNCHANGED <<row, cache, now, overlap>>
    /\ Watch

\* Both kinds of update delete the cached copy next.
AfterWrite(kind) == "invalidate"

\* UpdateSettings and UpdateCustomDomainsOnly each write their own columns.
WriteRow(p) ==
    /\ pc[p] = "write"
    /\ \/ /\ loc[p].kind = "update"
          /\ \E o \in BOOLEAN, t \in Instants \cup {None} :
               row' = [row EXCEPT !.is_open = o, !.ends_at = t]
       \/ /\ loc[p].kind = "mode"
          /\ \E b \in BOOLEAN : row' = [row EXCEPT !.custom_only = b]
    /\ Goto(p, AfterWrite(loc[p].kind))
    /\ UNCHANGED <<cache, now, loc, overlap>>
    /\ Watch

Invalidate(p) ==
    /\ pc[p] = "invalidate"
    /\ \/ cache' = None /\ overlap' = FALSE
       \/ Faults /\ cache' = cache /\ overlap' = TRUE    \* only logged
    /\ GotoNext(p, loc[p].todo)
    /\ UNCHANGED <<row, now, loc>>
    /\ Watch

\* fromRedis: a miss, or an error, sends the call to MariaDB.
ReadCache(p) ==
    /\ pc[p] = "get"
    /\ \/ cache # None /\ Return(p, cache)
       \/ (cache = None \/ Faults) /\ Goto(p, "read") /\ UNCHANGED loc
    /\ UNCHANGED <<row, cache, now, overlap>>
    /\ Watch

ReadRow(p) ==
    /\ pc[p] = "read"
    /\ loc' = [loc EXCEPT ![p].read = row]
    /\ Goto(p, "fill")
    /\ UNCHANGED <<row, cache, now, overlap>>
    /\ Watch

\* toRedis: whatever it read is stored, without a TTL; its error is ignored.
FillCache(p) ==
    /\ pc[p] = "fill"
    /\ \/ cache' = loc[p].read /\ overlap' = (loc[p].read # row)
       \/ Faults /\ UNCHANGED <<cache, overlap>>
    /\ Return(p, loc[p].read)
    /\ UNCHANGED <<row, now>>
    /\ Watch

Judge(p) ==
    /\ pc[p] = "clock"
    /\ loc' = [loc EXCEPT ![p].read = None, ![p].todo = Tail(@),
                          ![p].found = IsVotingOpen(loc[p].read)]
    /\ GotoNext(p, Tail(loc[p].todo))
    /\ UNCHANGED <<row, cache, now, overlap>>
    /\ Watch

Reply(p) ==
    /\ pc[p] = "reply"
    /\ Finish(p)
    /\ UNCHANGED <<row, cache, now, overlap>>
    /\ Watch

WriteFails(p) ==
    /\ Faults
    /\ pc[p] = "write"
    /\ Finish(p)
    /\ UNCHANGED <<row, cache, now, overlap>>
    /\ Watch

\* The gate and the first call of a status reply answer 500; the callers of the
\* others ignore the error and go on with "not open".
ErrorEnds(p) ==
    \/ loc[p].kind = "gate"
    \/ loc[p].kind = "status" /\ Head(loc[p].todo) = "GetStatus"

ReadFails(p) ==
    /\ Faults
    /\ pc[p] = "read"
    /\ \/ ErrorEnds(p) /\ Finish(p)
       \/ /\ ~ErrorEnds(p)
          /\ loc' = [loc EXCEPT ![p].todo = Tail(@)]
          /\ GotoNext(p, Tail(loc[p].todo))
    /\ UNCHANGED <<row, cache, now, overlap>>
    /\ Watch

\* The process dies, an update between its write and its deletion included; or the
\* write succeeds and its reply is lost, so that the update answers 500.
Crash(p) ==
    /\ Faults
    /\ pc[p] # "idle"
    /\ Finish(p)
    /\ overlap' = (overlap \/ pc[p] = "invalidate")
    /\ UNCHANGED <<row, cache, now>>
    /\ Watch

RedisRestart ==
    /\ Faults
    /\ cache' = None
    /\ overlap' = FALSE
    /\ UNCHANGED <<row, now, pc, loc>>
    /\ Watch

Tick ==
    /\ now < MaxTime
    /\ now' = now + 1
    /\ UNCHANGED <<row, cache, pc, loc, overlap>>
    /\ Watch

Act(p) ==
    \/ Begin(p) \/ WriteRow(p) \/ Invalidate(p) \/ ReadCache(p) \/ ReadRow(p)
    \/ FillCache(p) \/ Judge(p) \/ Reply(p)
    \/ WriteFails(p) \/ ReadFails(p) \/ Crash(p)

Next == (\E p \in Processes : Act(p)) \/ RedisRestart \/ Tick

Spec == Init /\ [][Next]_vars

-----------------------------------------------------------------------------
(* Properties. *)

\* Types; and a process has local variables exactly while it serves a request.
TypeOK ==
    /\ row \in Settings
    /\ cache \in Settings \cup {None}
    /\ now \in Instants
    /\ pc \in [Processes -> {"idle", "write", "invalidate", "get", "read", "fill", "clock", "reply"}]
    /\ loc \in [Processes -> Locals \cup {None}]
    /\ \A p \in Processes :
         IF pc[p] = "idle"
           THEN loc[p] = None
           ELSE /\ loc[p] \in Locals
                /\ pc[p] \in {"fill", "clock"} <=> loc[p].read # None
                /\ pc[p] \in {"get", "read", "fill", "clock"} => loc[p].todo # <<>>
    /\ overlap \in BOOLEAN
    /\ seenOpen \in [Processes -> BOOLEAN]

\* A cache that differs from the row is about to be deleted, unless a fill
\* straddled an update or a deletion was lost: those are the only two ways to it.
StaleOnlyByOverlap ==
    cache \notin {None, row} => overlap \/ \E p \in Processes : pc[p] = "invalidate"

\* A request that found voting open did so on settings that were, in the cache or
\* in the table, open with the deadline ahead at some moment of the request.
OpenAnswerJustified ==
    \A p \in Processes : pc[p] # "idle" => (loc[p].found => seenOpen[p])

=============================================================================
