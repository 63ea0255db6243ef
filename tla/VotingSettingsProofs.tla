------------------------- MODULE VotingSettingsProofs -------------------------
(* Theorems of VotingSettings, for every value of its constants. *)
EXTENDS VotingSettings, TLAPS

USE MaxTimeType, NoneIsNoSettings

Calls == {"GetStatus", "IsVotingOpen"}

LEMMA CallSeqs ==
    /\ \A k \in Kinds : CallsOf(k) \in Seq(Calls) /\ (k \in {"gate", "status"} => CallsOf(k) # <<>>)
    /\ \A s \in Seq(Calls) : s # <<>> => Head(s) \in Calls /\ Tail(s) \in Seq(Calls)
<1>1. ASSUME NEW k \in Kinds
      PROVE  CallsOf(k) \in Seq(Calls) /\ (k \in {"gate", "status"} => CallsOf(k) # <<>>)
  <2>1. /\ <<>> \in Seq(Calls) /\ <<"IsVotingOpen">> \in Seq(Calls) \ {<<>>}
        /\ <<"GetStatus", "IsVotingOpen">> \in Seq(Calls) \ {<<>>}
        /\ <<"IsVotingOpen", "GetStatus">> \in Seq(Calls) \ {<<>>}
    BY DEF Calls
  <2>2. /\ k = "gate" => CallsOf(k) = <<"IsVotingOpen">>
        /\ k = "status" => CallsOf(k) = <<"GetStatus", "IsVotingOpen">>
        /\ k = "update" => CallsOf(k) = <<"IsVotingOpen", "GetStatus">>
        /\ k = "mode" => CallsOf(k) = <<>>
    BY DEF CallsOf
  <2> QED BY <2>1, <2>2 DEF Kinds
<1>2. ASSUME NEW s \in Seq(Calls), s # <<>>
      PROVE  Head(s) \in Calls /\ Tail(s) \in Seq(Calls)
  BY <1>2
<1> QED BY <1>1, <1>2

-----------------------------------------------------------------------------
(* Types. *)

LEMMA InitTyped == Init => TypeOK
<1>1. 0 \in Instants /\ [is_open |-> TRUE, ends_at |-> None, custom_only |-> FALSE] \in Settings
  BY DEF Settings, Instants
<1> QED BY <1>1 DEF Init, TypeOK

\* A process that leaves its locals as Return does keeps its types.
LEMMA ReturnTyped ==
    ASSUME TypeOK, NEW p \in Processes, pc[p] \in {"get", "fill"},
           NEW s \in Settings, Return(p, s)
    PROVE  /\ pc' \in [Processes -> {"idle", "write", "invalidate", "get", "read", "fill", "clock", "reply"}]
           /\ loc' \in [Processes -> Locals \cup {None}]
           /\ \A q \in Processes : q # p => pc'[q] = pc[q] /\ loc'[q] = loc[q]
           /\ loc'[p] \in Locals
           /\ \/ pc'[p] = "clock" /\ loc'[p].read = s /\ loc'[p].todo = loc[p].todo
              \/ pc'[p] \in {"get", "reply"} /\ loc'[p].read = None
                 /\ (pc'[p] = "get" => loc'[p].todo # <<>>)
           /\ loc'[p].found = loc[p].found
<1>1. loc[p] \in Locals /\ loc[p].todo # <<>>
  BY DEF TypeOK
<1>2. CASE Head(loc[p].todo) = "IsVotingOpen"
  <2>1. loc' = [loc EXCEPT ![p] = [loc[p] EXCEPT !.read = s]] /\ pc' = [pc EXCEPT ![p] = "clock"]
    BY <1>2 DEF Return, Goto
  <2>2. [loc[p] EXCEPT !.read = s] \in Locals
    BY <1>1 DEF Locals
  <2> QED BY <1>1, <2>1, <2>2 DEF TypeOK, Locals
<1>3. CASE Head(loc[p].todo) # "IsVotingOpen"
  <2>1. Tail(loc[p].todo) \in Seq(Calls)
    BY <1>1, CallSeqs DEF Locals, Calls
  <2>2. /\ loc' = [loc EXCEPT ![p] = [loc[p] EXCEPT !.todo = Tail(loc[p].todo), !.read = None]]
        /\ pc' = [pc EXCEPT ![p] = IF Tail(loc[p].todo) = <<>> THEN "reply" ELSE "get"]
    BY <1>3 DEF Return, Goto, GotoNext
  <2>3. [loc[p] EXCEPT !.todo = Tail(loc[p].todo), !.read = None] \in Locals
    BY <1>1, <2>1 DEF Locals, Calls
  <2> QED BY <1>1, <2>2, <2>3 DEF TypeOK, Locals
<1> QED BY <1>2, <1>3

LEMMA WatchTyped == ASSUME Watch PROVE seenOpen' \in [Processes -> BOOLEAN]
<1>1. \A p \in Processes : (pc'[p] # "idle" /\ (seenOpen[p] \/ OpenSomewhere(row', cache', now'))) \in BOOLEAN
  OBVIOUS
<1> QED BY <1>1 DEF Watch

LEMMA NextTyped ==
    ASSUME TypeOK, [Next]_vars
    PROVE  TypeOK'
<1> USE DEF TypeOK, Goto, Finish
<1>1. CASE UNCHANGED vars
  BY <1>1 DEF vars
<1>2. ASSUME NEW p \in Processes, Begin(p)
      PROVE  TypeOK'
  <2>1. PICK k \in Kinds :
           /\ loc' = [loc EXCEPT ![p] = [kind |-> k, todo |-> CallsOf(k), read |-> None,
                                      found |-> FALSE]]
           /\ Goto(p, IF k \in {"update", "mode"} THEN "write" ELSE "get")
    BY <1>2 DEF Begin
  <2>2. CallsOf(k) \in Seq(Calls) /\ (k \in {"gate", "status"} => CallsOf(k) # <<>>)
    BY CallSeqs
  <2>3. loc'[p] \in Locals /\ loc'[p].read = None /\ loc'[p].todo = CallsOf(k)
    BY <2>1, <2>2 DEF Locals, Calls
  <2>4. seenOpen' \in [Processes -> BOOLEAN]
    BY <1>2, WatchTyped DEF Begin
  <2> QED BY <1>2, <2>1, <2>2, <2>3, <2>4 DEF Begin, Kinds
<1>3. ASSUME NEW p \in Processes, WriteRow(p)
      PROVE  TypeOK'
  <2>1. seenOpen' \in [Processes -> BOOLEAN]
    BY <1>3, WatchTyped DEF WriteRow
  <2>2. row' \in Settings
    BY <1>3 DEF WriteRow, Settings
  <2> QED BY <1>3, <2>1, <2>2 DEF WriteRow, AfterWrite
<1>4. ASSUME NEW p \in Processes, Invalidate(p)
      PROVE  TypeOK'
  <2>1. seenOpen' \in [Processes -> BOOLEAN]
    BY <1>4, WatchTyped DEF Invalidate
  <2>2. cache' \in Settings \cup {None} /\ overlap' \in BOOLEAN
    BY <1>4 DEF Invalidate
  <2> QED BY <1>4, <2>1, <2>2 DEF Invalidate, GotoNext
<1>5. ASSUME NEW p \in Processes, ReadCache(p)
      PROVE  TypeOK'
  <2>1. seenOpen' \in [Processes -> BOOLEAN]
    BY <1>5, WatchTyped DEF ReadCache
  <2>2. CASE cache # None /\ Return(p, cache)
    <3>1. cache \in Settings
      BY <2>2
    <3> QED BY <1>5, <2>1, <2>2, <3>1, ReturnTyped DEF ReadCache
  <2>3. CASE Goto(p, "read") /\ UNCHANGED loc
    BY <1>5, <2>1, <2>3 DEF ReadCache
  <2> QED BY <1>5, <2>2, <2>3 DEF ReadCache
<1>6. ASSUME NEW p \in Processes, ReadRow(p)
      PROVE  TypeOK'
  <2>1. seenOpen' \in [Processes -> BOOLEAN]
    BY <1>6, WatchTyped DEF ReadRow
  <2>2. loc'[p] \in Locals /\ loc'[p].read = row /\ loc'[p].todo = loc[p].todo
    BY <1>6 DEF ReadRow, Locals
  <2> QED BY <1>6, <2>1, <2>2 DEF ReadRow
<1>7. ASSUME NEW p \in Processes, FillCache(p)
      PROVE  TypeOK'
  <2>1. seenOpen' \in [Processes -> BOOLEAN]
    BY <1>7, WatchTyped DEF FillCache
  <2>2. loc[p].read \in Settings /\ Return(p, loc[p].read) /\ pc[p] = "fill"
    BY <1>7 DEF FillCache, Locals
  <2>3. cache' \in Settings \cup {None} /\ overlap' \in BOOLEAN
    BY <1>7, <2>2 DEF FillCache
  <2> QED BY <1>7, <2>1, <2>2, <2>3, ReturnTyped DEF FillCache
<1>8. ASSUME NEW p \in Processes, Judge(p)
      PROVE  TypeOK'
  <2>1. seenOpen' \in [Processes -> BOOLEAN]
    BY <1>8, WatchTyped DEF Judge
  <2>2. loc[p] \in Locals /\ loc[p].todo # <<>> /\ loc[p].read \in Settings
    BY <1>8 DEF Judge, Locals
  <2>3. Tail(loc[p].todo) \in Seq(Calls) /\ IsVotingOpen(loc[p].read) \in BOOLEAN
    BY <2>2, CallSeqs DEF Locals, Calls, IsVotingOpen, Settings
  <2>4. loc'[p] \in Locals /\ loc'[p].read = None /\ loc'[p].todo = Tail(loc[p].todo)
    BY <1>8, <2>2, <2>3 DEF Judge, Locals, Calls
  <2> QED BY <1>8, <2>1, <2>4 DEF Judge, GotoNext
<1>9. ASSUME NEW p \in Processes, Reply(p) \/ WriteFails(p) \/ Crash(p)
      PROVE  TypeOK'
  <2>1. seenOpen' \in [Processes -> BOOLEAN] /\ overlap' \in BOOLEAN
    BY <1>9, WatchTyped DEF Reply, WriteFails, Crash
  <2> QED BY <1>9, <2>1 DEF Reply, WriteFails, Crash
<1>10. ASSUME NEW p \in Processes, ReadFails(p)
       PROVE  TypeOK'
  <2>1. seenOpen' \in [Processes -> BOOLEAN]
    BY <1>10, WatchTyped DEF ReadFails
  <2>2. CASE Finish(p)
    BY <1>10, <2>1, <2>2 DEF ReadFails
  <2>3. CASE loc' = [loc EXCEPT ![p].todo = Tail(@)] /\ GotoNext(p, Tail(loc[p].todo))
    <3>1. loc[p] \in Locals /\ loc[p].todo # <<>> /\ loc[p].read = None
      BY <1>10 DEF ReadFails
    <3>2. Tail(loc[p].todo) \in Seq(Calls)
      BY <3>1, CallSeqs DEF Locals, Calls
    <3>3. loc'[p] \in Locals /\ loc'[p].read = None /\ loc'[p].todo = Tail(loc[p].todo)
      BY <2>3, <3>1, <3>2 DEF Locals, Calls
    <3> QED BY <1>10, <2>1, <2>3, <3>3 DEF ReadFails, GotoNext
  <2> QED BY <1>10, <2>2, <2>3 DEF ReadFails
<1>11. CASE RedisRestart \/ Tick
  <2>1. seenOpen' \in [Processes -> BOOLEAN]
    BY <1>11, WatchTyped DEF RedisRestart, Tick
  <2>2. CASE RedisRestart
    BY <2>1, <2>2 DEF RedisRestart
  <2>3. CASE Tick
    <3>1. now' \in Instants
      BY <2>3 DEF Tick, Instants
    <3> QED BY <2>1, <2>3, <3>1 DEF Tick
  <2> QED BY <1>11, <2>2, <2>3
<1> QED
  BY <1>1, <1>2, <1>3, <1>4, <1>5, <1>6, <1>7, <1>8, <1>9, <1>10, <1>11 DEF Next, Act

\* Types; and a request has a reading in hand exactly between the call that made it and
\* the one that uses it (voting_settings_service.go).
THEOREM TypesHold == Spec => []TypeOK
BY InitTyped, NextTyped, PTL DEF Spec

-----------------------------------------------------------------------------
(* The cache. *)

LEMMA NextStale ==
    ASSUME TypeOK, StaleOnlyByOverlap, [Next]_vars
    PROVE  StaleOnlyByOverlap'
<1> USE DEF TypeOK, StaleOnlyByOverlap, Goto, Finish
<1>1. CASE UNCHANGED vars
  BY <1>1 DEF vars
<1>2. ASSUME UNCHANGED <<row, cache, overlap>>,
             \A p \in Processes : pc[p] = "invalidate" => pc'[p] = "invalidate"
      PROVE  StaleOnlyByOverlap'
  BY <1>2
<1>3. ASSUME NEW p \in Processes,
             Begin(p) \/ ReadRow(p) \/ Judge(p) \/ Reply(p) \/ WriteFails(p) \/ ReadFails(p)
      PROVE  StaleOnlyByOverlap'
  BY <1>2, <1>3 DEF Begin, ReadRow, Judge, Reply, WriteFails, ReadFails, GotoNext
<1>4. ASSUME NEW p \in Processes, WriteRow(p)
      PROVE  StaleOnlyByOverlap'
  <2>1. pc'[p] = "invalidate"
    BY <1>4 DEF WriteRow, AfterWrite
  <2> QED BY <2>1
<1>5. ASSUME NEW p \in Processes, Invalidate(p)
      PROVE  StaleOnlyByOverlap'
  BY <1>5 DEF Invalidate
<1>6. ASSUME NEW p \in Processes, ReadCache(p)
      PROVE  StaleOnlyByOverlap'
  BY <1>2, <1>6 DEF ReadCache, Return, GotoNext
<1>7. ASSUME NEW p \in Processes, FillCache(p)
      PROVE  StaleOnlyByOverlap'
  <2>1. \A q \in Processes : pc[q] = "invalidate" => pc'[q] = "invalidate"
    BY <1>7 DEF FillCache, Return, GotoNext
  <2>2. CASE cache' = loc[p].read /\ overlap' = (loc[p].read # row)
    BY <1>7, <2>2 DEF FillCache
  <2>3. CASE UNCHANGED <<cache, overlap>>
    BY <1>2, <1>7, <2>1, <2>3 DEF FillCache
  <2> QED BY <1>7, <2>2, <2>3 DEF FillCache
<1>8. ASSUME NEW p \in Processes, Crash(p)
      PROVE  StaleOnlyByOverlap'
  BY <1>8 DEF Crash
<1>9. CASE RedisRestart \/ Tick
  BY <1>9 DEF RedisRestart, Tick
<1> QED BY <1>1, <1>3, <1>4, <1>5, <1>6, <1>7, <1>8, <1>9 DEF Next, Act

\* A cached copy that differs from the row is about to be deleted, unless a fill straddled
\* an update or a deletion was lost, for any number of concurrent requests (GetStatus,
\* UpdateSettings, UpdateCustomDomainsOnly).
THEOREM StaleByOverlapOnly == Spec => []StaleOnlyByOverlap
<1>1. Init => StaleOnlyByOverlap
  BY DEF Init, StaleOnlyByOverlap
<1> QED BY <1>1, TypesHold, NextStale, PTL DEF Spec

-----------------------------------------------------------------------------
(* The answers. *)

OpenAt(s, t) == s.is_open /\ (s.ends_at = None \/ t <= s.ends_at)

\* Settings in hand that are still open were seen open.
ReadingSeen ==
    \A p \in Processes : pc[p] \in {"fill", "clock"} /\ OpenAt(loc[p].read, now) => seenOpen[p]

Justified == ReadingSeen /\ OpenAnswerJustified

\* Only the process that moves can break it, and it cannot while it learns nothing new.
LEMMA Unmoved ==
    ASSUME TypeOK, TypeOK', Justified, Watch, now' = now,
           NEW q \in Processes, pc'[q] # "idle" => pc[q] # "idle",
           pc'[q] \in {"fill", "clock"} => pc[q] \in {"fill", "clock"} /\ loc'[q].read = loc[q].read,
           pc'[q] # "idle" => loc'[q].found = loc[q].found
    PROVE  /\ pc'[q] \in {"fill", "clock"} /\ OpenAt(loc'[q].read, now') => seenOpen'[q]
           /\ pc'[q] # "idle" => (loc'[q].found => seenOpen'[q])
BY DEF Justified, ReadingSeen, OpenAnswerJustified, Watch

LEMMA NextJustified ==
    ASSUME TypeOK, TypeOK', Justified, [Next]_vars
    PROVE  Justified'
<1>1. CASE UNCHANGED vars
  BY <1>1 DEF vars, Justified, ReadingSeen, OpenAnswerJustified, OpenAt
<1> DEFINE Fine(q) == /\ pc'[q] \in {"fill", "clock"} /\ OpenAt(loc'[q].read, now') => seenOpen'[q]
                      /\ pc'[q] # "idle" => (loc'[q].found => seenOpen'[q])
<1> SUFFICES ASSUME Next, NEW q \in Processes
             PROVE  Fine(q)
  BY <1>1 DEF Justified, ReadingSeen, OpenAnswerJustified, OpenAt
<1>2. ASSUME NEW p \in Processes, Act(p), q # p
      PROVE  Fine(q)
  <2>1. pc'[q] = pc[q] /\ loc'[q] = loc[q] /\ now' = now /\ Watch
    BY <1>2 DEF TypeOK, Act, Begin, WriteRow, Invalidate, ReadCache, ReadRow, FillCache, Judge,
                Reply, WriteFails, ReadFails, Crash, Return, Goto, GotoNext, Finish
  <2> QED BY <2>1, Unmoved
<1>3. ASSUME Begin(q)
      PROVE  Fine(q)
  <2>1. pc'[q] \in {"write", "get"} /\ loc'[q].found = FALSE
    BY <1>3 DEF Begin, Goto, TypeOK
  <2> QED BY <2>1
<1>4. ASSUME WriteRow(q) \/ Invalidate(q) \/ Reply(q) \/ WriteFails(q) \/ Crash(q)
      PROVE  Fine(q)
  <2>1. /\ pc'[q] \notin {"fill", "clock"} /\ Watch /\ now' = now /\ pc[q] # "idle"
        /\ pc'[q] # "idle" => loc'[q] = loc[q]
    BY <1>4 DEF WriteRow, AfterWrite, Invalidate, Reply, WriteFails, Crash, Goto, GotoNext,
                Finish, TypeOK
  <2> QED BY <2>1, Unmoved
<1>5. ASSUME ReadFails(q)
      PROVE  Fine(q)
  <2>1. /\ pc'[q] \notin {"fill", "clock"} /\ Watch /\ now' = now /\ pc[q] # "idle"
        /\ pc'[q] # "idle" => loc'[q].found = loc[q].found
    <3>1. CASE Finish(q)
      BY <1>5, <3>1 DEF ReadFails, Finish, TypeOK
    <3>2. CASE loc' = [loc EXCEPT ![q].todo = Tail(@)] /\ GotoNext(q, Tail(loc[q].todo))
      <4>1. loc[q] \in Locals
        BY <1>5 DEF ReadFails, TypeOK
      <4> QED BY <1>5, <3>2, <4>1 DEF ReadFails, Goto, GotoNext, TypeOK, Locals
    <3> QED BY <1>5, <3>1, <3>2 DEF ReadFails
  <2> QED BY <2>1, Unmoved
<1>6. ASSUME NEW s \in Settings, pc[q] \in {"get", "fill"}, Return(q, s), Watch, now' = now,
             OpenAt(s, now) => seenOpen[q] \/ OpenSomewhere(row', cache', now')
      PROVE  Fine(q)
  <2>1. /\ loc'[q].found = loc[q].found /\ pc[q] # "idle"
        /\ pc'[q] = "clock" => loc'[q].read = s
        /\ pc'[q] # "fill"
    BY <1>6, ReturnTyped
  <2> QED BY <1>6, <2>1 DEF Watch, Justified, OpenAnswerJustified
<1>7. ASSUME ReadCache(q)
      PROVE  Fine(q)
  <2>1. CASE cache # None /\ Return(q, cache)
    <3>1. cache \in Settings /\ UNCHANGED <<cache, now>>
      BY <1>7, <2>1 DEF TypeOK, ReadCache
    <3>2. OpenAt(cache, now) => OpenSomewhere(row', cache', now')
      BY <2>1, <3>1 DEF OpenAt, OpenSomewhere
    <3> QED BY <1>7, <2>1, <3>1, <3>2, <1>6 DEF ReadCache
  <2>2. CASE Goto(q, "read") /\ UNCHANGED loc
    <3>1. pc'[q] = "read" /\ pc[q] = "get" /\ Watch /\ now' = now
      BY <1>7, <2>2 DEF ReadCache, Goto, TypeOK
    <3> QED BY <2>2, <3>1, Unmoved
  <2> QED BY <1>7, <2>1, <2>2 DEF ReadCache
<1>8. ASSUME ReadRow(q)
      PROVE  Fine(q)
  <2>1. /\ pc[q] = "read" /\ pc'[q] = "fill" /\ UNCHANGED <<row, now>> /\ Watch
        /\ loc[q] \in Locals /\ row \in Settings
    BY <1>8 DEF ReadRow, Goto, TypeOK
  <2>2. loc'[q].read = row /\ loc'[q].found = loc[q].found
    BY <1>8, <2>1 DEF ReadRow, TypeOK, Locals
  <2>3. OpenAt(row, now) => OpenSomewhere(row', cache', now')
    BY <2>1 DEF OpenAt, OpenSomewhere
  <2> QED BY <2>1, <2>2, <2>3 DEF Watch, Justified, OpenAnswerJustified
<1>9. ASSUME FillCache(q)
      PROVE  Fine(q)
  <2>1. /\ pc[q] = "fill" /\ loc[q].read \in Settings /\ Return(q, loc[q].read)
        /\ Watch /\ now' = now
    BY <1>9 DEF FillCache, TypeOK, Locals
  <2>2. OpenAt(loc[q].read, now) => seenOpen[q]
    BY <2>1 DEF Justified, ReadingSeen
  <2> QED BY <2>1, <2>2, <1>6
<1>10. ASSUME Judge(q)
       PROVE  Fine(q)
  <2>1. /\ pc[q] = "clock" /\ loc[q] \in Locals /\ pc'[q] \in {"get", "reply"} /\ Watch
    BY <1>10 DEF Judge, TypeOK, Goto, GotoNext
  <2>2. loc'[q].found = IsVotingOpen(loc[q].read)
    BY <1>10, <2>1 DEF Judge, TypeOK, Locals
  <2>3. loc'[q].found => seenOpen[q]
    BY <2>1, <2>2 DEF IsVotingOpen, OpenAt, Justified, ReadingSeen
  <2> QED BY <2>1, <2>3 DEF Watch
<1>11. CASE RedisRestart
  <2>1. UNCHANGED <<pc, loc, now>> /\ Watch
    BY <1>11 DEF RedisRestart
  <2> QED BY <2>1, Unmoved
<1>12. CASE Tick
  <2>1. UNCHANGED <<pc, loc>> /\ Watch /\ now' = now + 1 /\ now \in Nat
    BY <1>12 DEF Tick, TypeOK, Instants
  <2>2. ASSUME pc[q] \in {"fill", "clock"}, OpenAt(loc[q].read, now')
        PROVE  OpenAt(loc[q].read, now)
    <3>1. loc[q].read \in Settings
      BY <2>2 DEF TypeOK, Locals
    <3> QED BY <2>1, <2>2, <3>1 DEF OpenAt, Settings, Instants
  <2> QED BY <2>1, <2>2 DEF Watch, Justified, ReadingSeen, OpenAnswerJustified
<1> QED BY <1>2, <1>3, <1>4, <1>5, <1>7, <1>8, <1>9, <1>10, <1>11, <1>12 DEF Next, Act

\* A request that found voting open did so on settings that were open, in the cache or in
\* the table, with the deadline ahead, at some moment of the request, however requests,
\* updates, faults and the clock interleave (IsVotingOpen, GetStatus).
THEOREM OpenAnswersJustified == Spec => []OpenAnswerJustified
<1>1. Init => Justified
  BY DEF Init, Justified, ReadingSeen, OpenAnswerJustified
<1>2. Justified => OpenAnswerJustified
  BY DEF Justified
<1> QED BY <1>1, <1>2, TypesHold, NextJustified, PTL DEF Spec

=============================================================================
