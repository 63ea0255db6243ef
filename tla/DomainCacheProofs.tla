--------------------------- MODULE DomainCacheProofs ---------------------------
(* Theorems of DomainCache, for every value of its constants. *)
EXTENDS DomainCache, TLAPS

USE MaxRowsType, NoneIsNoLocals

-----------------------------------------------------------------------------
(* Types.  Identifiers are given out once, and all but a deletion that has not yet seen
   its row know their domain. *)

Steps == {"insert", "sadd", "select", "delete", "srem", "exists",
          "member", "lookup", "reply", "getAll", "del", "add", "mark"}

ProcessesOK ==
    /\ pc \in [Processes -> Steps \cup {"idle"}]
    /\ loc \in [Processes -> Locals \cup {None}]
    /\ \A p \in Processes : pc[p] = "idle" <=> loc[p] = None
    /\ \A p \in Processes : pc[p] \notin {"idle", "select"} => loc[p].domain \in Domains

TablesOK ==
    /\ rows \subseteq Row
    /\ \A r, s \in rows : r.domain = s.domain \/ r.id = s.id => r = s
    /\ \A r \in rows : r.id < nextId
    /\ nextId \in 1..(MaxRows + 1)
    /\ cached \subseteq Domains
    /\ warmed \in BOOLEAN
    /\ suspects \subseteq Domains

HistoryOK == listed \in [Processes -> SUBSET BOOLEAN] /\ excused \in [Processes -> BOOLEAN]

Typed == ProcessesOK /\ TablesOK /\ HistoryOK

\* What process p goes on with: a step and its locals.
Fits(step, l) == \/ step = "idle" /\ l = None
                 \/ step \in Steps /\ l \in Locals /\ (step # "select" => l.domain \in Domains)

Moves(p, step, l) == pc' = [pc EXCEPT ![p] = step] /\ loc' = [loc EXCEPT ![p] = l]

LEMMA MovesTyped ==
    ASSUME ProcessesOK, NEW p \in Processes, NEW step, NEW l, Fits(step, l), Moves(p, step, l)
    PROVE  ProcessesOK'
BY DEF ProcessesOK, Fits, Moves, Steps

LEMMA LocalsKept == ASSUME ProcessesOK, NEW p \in Processes PROVE loc = [loc EXCEPT ![p] = loc[p]]
BY DEF ProcessesOK

LEMMA WatchTyped == ASSUME HistoryOK, Watch PROVE HistoryOK'
<1>1. \A p \in Processes : (/\ pc'[p] # "idle"
                             /\ \/ excused[p]
                                \/ loc'[p].domain \in suspects'
                                \/ InFlight(loc'[p].domain, pc', loc')
                                \/ warmed /\ ~warmed') \in BOOLEAN
  OBVIOUS
<1>2. excused' \in [Processes -> BOOLEAN]
  BY <1>1 DEF Watch
<1>3. listed' \in [Processes -> SUBSET BOOLEAN]
  <2>1. \A p \in Processes : (loc'[p].domain \in {r.domain : r \in rows'}) \in BOOLEAN
    OBVIOUS
  <2> QED BY <2>1 DEF Watch, HistoryOK
<1> QED BY <1>2, <1>3 DEF HistoryOK

\* The locals after a step.
LEMMA Updated ==
    ASSUME NEW l \in Locals
    PROVE  /\ \A d \in Domains : /\ [l EXCEPT !.domain = d] \in Locals
                                 /\ [l EXCEPT !.domain = d].domain = d
                                 /\ [l EXCEPT !.domain = d].answer = l.answer
           /\ \A a \in BOOLEAN : /\ [l EXCEPT !.answer = a] \in Locals
                                 /\ [l EXCEPT !.answer = a].domain = l.domain
                                 /\ [l EXCEPT !.answer = a].answer = a
           /\ \A s \in SUBSET Domains : /\ [l EXCEPT !.read = s] \in Locals
                                        /\ [l EXCEPT !.read = s].domain = l.domain
                                        /\ [l EXCEPT !.read = s].read = s
                                        /\ [l EXCEPT !.read = s].answer = l.answer
BY DEF Locals

LEMMA ListedType == TablesOK => Listed \subseteq Domains
BY DEF TablesOK, Listed, Row

Still == UNCHANGED <<rows, nextId, cached, warmed, suspects>>

(* The steps of process p by what they do, with the step and the locals that it goes on with. *)

Quiet(p, step) ==
    /\ Still
    /\ pc[p] \notin {"sadd", "srem", "add", "mark"}
    /\ step \notin {"sadd", "srem", "del", "add", "mark"}

Reads(p, step, l) == Still /\ pc[p] = "getAll" /\ step = "del" /\ l.read = Listed

\* A change of d is suspect while d is in flight.
Suspected(d) == suspects' = IF InFlight(d, pc, loc) THEN suspects \cup {d} ELSE suspects

Inserts(p, step, l) ==
    /\ pc[p] = "insert" /\ step = "sadd" /\ l = loc[p]
    /\ loc[p].domain \notin Listed
    /\ nextId <= MaxRows
    /\ rows' = rows \cup {[id |-> nextId, domain |-> loc[p].domain]}
    /\ nextId' = nextId + 1
    /\ Suspected(loc[p].domain)
    /\ UNCHANGED <<cached, warmed>>

Deletes(p, step, l) ==
    /\ pc[p] = "delete" /\ step = "srem" /\ l = loc[p]
    /\ \E r \in rows : r.domain = loc[p].domain /\ rows' = rows \ {r}
    /\ Suspected(loc[p].domain)
    /\ UNCHANGED <<nextId, cached, warmed>>

EndsChange(p, step) ==
    /\ pc[p] \in {"sadd", "srem"} /\ step = "idle"
    /\ \/ /\ cached' = IF pc[p] = "sadd" THEN cached \cup {loc[p].domain} ELSE cached \ {loc[p].domain}
          /\ UNCHANGED suspects
       \/ suspects' = suspects \cup {loc[p].domain} /\ UNCHANGED cached
    /\ UNCHANGED <<rows, nextId, warmed>>

Empties(p, step, l) ==
    /\ pc[p] = "del" /\ step = (IF loc[p].read = {} THEN "mark" ELSE "add") /\ l = loc[p]
    /\ cached' = {}
    /\ UNCHANGED <<rows, nextId, warmed, suspects>>

Fills(p, step, l) ==
    /\ pc[p] = "add" /\ step = "mark" /\ l = loc[p]
    /\ cached' = cached \cup loc[p].read
    /\ UNCHANGED <<rows, nextId, warmed, suspects>>

Abandons(p, step) ==
    /\ pc[p] = "add" /\ step = "idle"
    /\ suspects' = suspects \cup Listed
    /\ UNCHANGED <<rows, nextId, cached, warmed>>

Flags(p, step) ==
    /\ pc[p] = "mark" /\ step = "idle"
    /\ warmed' \in {warmed, TRUE}
    /\ UNCHANGED <<rows, nextId, cached, suspects>>

LEMMA Kinds ==
    ASSUME Typed, NEW p \in Processes, Admin(p) \/ Lookup(p) \/ WarmCache(p) \/ Fail(p)
    PROVE  \E step \in Steps \cup {"idle"}, l \in Locals \cup {None} :
             /\ Moves(p, step, l) /\ Fits(step, l)
             /\ \/ Quiet(p, step) \/ Reads(p, step, l) \/ Inserts(p, step, l) \/ Deletes(p, step, l)
                \/ EndsChange(p, step) \/ Empties(p, step, l) \/ Fills(p, step, l)
                \/ Abandons(p, step) \/ Flags(p, step)
<1> USE DEF Quiet, Reads, Suspected, Inserts, Deletes, EndsChange, Empties, Fills, Abandons, Flags
<1>1. ProcessesOK /\ TablesOK
  BY DEF Typed
<1>2. loc = [loc EXCEPT ![p] = loc[p]]
  BY <1>1, LocalsKept
<1>3. CASE \E d \in Domains \cup {None}, i \in 0..MaxRows, step \in {"insert", "select", "exists"} :
             (step # "select" => d \in Domains) /\ Start(p, step, d, i)
  <2>1. PICK d \in Domains \cup {None}, i \in 0..MaxRows, step \in {"insert", "select", "exists"} :
           (step # "select" => d \in Domains) /\ Start(p, step, d, i)
    BY <1>3
  <2> DEFINE l == [domain |-> d, id |-> i, read |-> {}, answer |-> None]
  <2>2. l \in Locals /\ l.domain = d
    BY DEF Locals
  <2>3. Moves(p, step, l) /\ Still /\ pc[p] = "idle" /\ step \in Steps \ {"idle"}
    BY <2>1 DEF Start, Goto, Moves, Still, Steps
  <2> QED BY <2>1, <2>2, <2>3 DEF Fits, Steps
<1>4. ASSUME Finish(p)
      PROVE  Moves(p, "idle", None) /\ Fits("idle", None)
  BY <1>4 DEF Finish, Moves, Fits
<1>5. ASSUME NEW step, Goto(p, step), UNCHANGED loc
      PROVE  Moves(p, step, loc[p])
  BY <1>2, <1>5 DEF Goto, Moves
<1>6. ASSUME pc[p] # "idle"
      PROVE  /\ loc[p] \in Locals
             /\ pc[p] # "select" => loc[p].domain \in Domains /\ \A step \in Steps : Fits(step, loc[p])
  BY <1>1, <1>6 DEF ProcessesOK, Fits
<1>7. CASE InsertRow(p)
  <2>1. pc[p] = "insert"
    BY <1>7 DEF InsertRow
  <2>2. CASE Finish(p) /\ Still
    BY <1>4, <2>1, <2>2
  <2>3. CASE ~(Finish(p) /\ Still)
    <3>1. Goto(p, "sadd") /\ UNCHANGED loc
      BY <1>7, <2>3 DEF InsertRow, Still
    <3>2. Moves(p, "sadd", loc[p]) /\ Fits("sadd", loc[p])
      BY <1>5, <1>6, <2>1, <3>1 DEF Steps
    <3>3. /\ loc[p].domain \notin Listed
          /\ nextId <= MaxRows
          /\ rows' = rows \cup {[id |-> nextId, domain |-> loc[p].domain]}
          /\ nextId' = nextId + 1
          /\ suspects' = IF InFlight(loc[p].domain, pc, loc)
                         THEN suspects \cup {loc[p].domain} ELSE suspects
          /\ UNCHANGED <<cached, warmed>>
      BY <1>7, <2>3 DEF InsertRow, Still
    <3>4. "sadd" \in Steps /\ loc[p] \in Locals
      BY <1>6, <2>1 DEF Steps
    <3> QED BY <2>1, <3>2, <3>3, <3>4
  <2> QED BY <2>2, <2>3
<1>8. CASE AddToSet(p) \/ RemoveFromSet(p)
  BY <1>4, <1>8 DEF AddToSet, RemoveFromSet, Without
<1>9. CASE SelectRow(p)
  <2>1. pc[p] = "select" /\ loc[p] \in Locals /\ Still
    BY <1>6, <1>9 DEF SelectRow, Still
  <2>2. CASE Finish(p)
    BY <1>4, <2>1, <2>2
  <2>3. CASE ~Finish(p)
    <3>1. PICK r \in rows : loc' = [loc EXCEPT ![p] = [loc[p] EXCEPT !.domain = r.domain]] /\ Goto(p, "delete")
      BY <1>9, <2>3 DEF SelectRow
    <3>2. r.domain \in Domains
      BY <1>1 DEF TablesOK, Row
    <3>3. Moves(p, "delete", [loc[p] EXCEPT !.domain = r.domain]) /\ Fits("delete", [loc[p] EXCEPT !.domain = r.domain])
      BY <2>1, <3>1, <3>2, Updated DEF Moves, Goto, Fits, Steps
    <3> QED BY <2>1, <3>2, <3>3, Updated DEF Steps
  <2> QED BY <2>2, <2>3
<1>10. CASE DeleteRow(p)
  <2>1. pc[p] = "delete"
    BY <1>10 DEF DeleteRow
  <2>2. CASE Finish(p) /\ Still
    BY <1>4, <2>1, <2>2
  <2>3. CASE ~(Finish(p) /\ Still)
    <3>1. Goto(p, "srem") /\ UNCHANGED loc
      BY <1>10, <2>3 DEF DeleteRow, Still
    <3>2. Moves(p, "srem", loc[p]) /\ Fits("srem", loc[p])
      BY <1>5, <1>6, <2>1, <3>1 DEF Steps
    <3>3. /\ \E r \in rows : r.domain = loc[p].domain /\ rows' = rows \ {r}
          /\ suspects' = IF InFlight(loc[p].domain, pc, loc)
                         THEN suspects \cup {loc[p].domain} ELSE suspects
          /\ UNCHANGED <<nextId, cached, warmed>>
      BY <1>10, <2>3 DEF DeleteRow, Still
    <3>4. "srem" \in Steps /\ loc[p] \in Locals
      BY <1>6, <2>1 DEF Steps
    <3> QED BY <2>1, <3>2, <3>3, <3>4
  <2> QED BY <2>2, <2>3
<1>11. CASE AskFlag(p)
  <2>1. PICK step \in {"member", "lookup"} : Goto(p, step) /\ UNCHANGED loc
    BY <1>11 DEF AskFlag
  <2>2. pc[p] = "exists" /\ Still /\ step \in Steps
    BY <1>11 DEF AskFlag, Still, Steps
  <2>3. Moves(p, step, loc[p]) /\ Fits(step, loc[p]) /\ loc[p] \in Locals
    BY <1>5, <1>6, <2>1, <2>2
  <2>4. step \notin {"sadd", "srem", "del", "add", "mark"} /\ pc[p] \notin {"sadd", "srem", "add", "mark"}
    BY <2>1, <2>2
  <2> QED BY <2>2, <2>3, <2>4
<1>12. CASE AskSet(p) \/ AskTable(p)
  <2>1. PICK step \in {"reply", "getAll"}, a \in BOOLEAN :
           Goto(p, step) /\ loc' = [loc EXCEPT ![p] = [loc[p] EXCEPT !.answer = a]]
    <3>1. (loc[p].domain \in cached) \in BOOLEAN /\ (loc[p].domain \in Listed) \in BOOLEAN
      OBVIOUS
    <3>2. "reply" \in {"reply", "getAll"} /\ "getAll" \in {"reply", "getAll"}
      OBVIOUS
    <3>3. CASE AskSet(p)
      BY <3>1, <3>2, <3>3, Zenon DEF AskSet
    <3>4. CASE AskTable(p)
      BY <3>1, <3>2, <3>4, Zenon DEF AskTable
    <3> QED BY <1>12, <3>3, <3>4
  <2>2. pc[p] \in {"member", "lookup"} /\ Still /\ step \in Steps
    BY <1>12 DEF AskSet, AskTable, Still, Steps
  <2>3. [loc[p] EXCEPT !.answer = a] \in Locals /\ [loc[p] EXCEPT !.answer = a].domain = loc[p].domain
    BY <1>6, <2>2, Updated
  <2>4. Moves(p, step, [loc[p] EXCEPT !.answer = a]) /\ Fits(step, [loc[p] EXCEPT !.answer = a])
    BY <1>6, <2>1, <2>2, <2>3 DEF Moves, Goto, Fits
  <2> QED BY <2>1, <2>2, <2>3, <2>4
<1>13. CASE Reply(p)
  BY <1>4, <1>13 DEF Reply, Still
<1>14. CASE GetAll(p)
  <2>1. pc[p] = "getAll" /\ Still /\ Goto(p, "del") /\ loc' = [loc EXCEPT ![p] = [loc[p] EXCEPT !.read = Listed]]
    BY <1>14 DEF GetAll, Still
  <2>2. /\ [loc[p] EXCEPT !.read = Listed] \in Locals
        /\ [loc[p] EXCEPT !.read = Listed].domain = loc[p].domain
        /\ [loc[p] EXCEPT !.read = Listed].read = Listed
    BY <1>1, <1>6, <2>1, Updated, ListedType
  <2>3. Moves(p, "del", [loc[p] EXCEPT !.read = Listed]) /\ Fits("del", [loc[p] EXCEPT !.read = Listed])
    BY <1>6, <2>1, <2>2 DEF Moves, Goto, Fits, Steps
  <2>4. "del" \in Steps
    BY DEF Steps
  <2> QED BY <2>1, <2>2, <2>3, <2>4
<1>15. CASE EmptySet(p)
  <2> DEFINE step == IF loc[p].read = {} THEN "mark" ELSE "add"
  <2>1. /\ pc[p] = "del" /\ Goto(p, step) /\ UNCHANGED loc /\ step \in Steps
        /\ cached' = {} /\ UNCHANGED <<rows, nextId, warmed, suspects>>
    BY <1>15 DEF EmptySet, Steps
  <2> QED BY <1>5, <1>6, <2>1
<1>16. CASE FillSet(p)
  <2>1. /\ pc[p] = "add" /\ Goto(p, "mark") /\ UNCHANGED loc /\ "mark" \in Steps
        /\ cached' = cached \cup loc[p].read /\ UNCHANGED <<rows, nextId, warmed, suspects>>
    BY <1>16 DEF FillSet, Steps
  <2> QED BY <1>5, <1>6, <2>1
<1>17. CASE SetFlag(p)
  BY <1>4, <1>17 DEF SetFlag
<1>18. CASE Fail(p)
  <2>1. /\ pc[p] # "idle" /\ UNCHANGED <<rows, nextId, cached, warmed>>
        /\ suspects' = suspects \cup HalfDone(p) /\ Moves(p, "idle", None) /\ Fits("idle", None)
    BY <1>4, <1>18 DEF Fail
  <2>2. CASE pc[p] \in {"sadd", "srem"}
    BY <2>1, <2>2 DEF HalfDone
  <2>3. CASE pc[p] = "add"
    BY <2>1, <2>3 DEF HalfDone
  <2>4. CASE pc[p] \notin {"sadd", "srem", "add"}
    <3>1. suspects' = suspects
      BY <2>1, <2>4 DEF HalfDone
    <3> QED BY <2>1, <2>4, <3>1 DEF Still
  <2> QED BY <2>2, <2>3, <2>4
<1>19. CASE BeginInsert(p) \/ BeginDelete(p) \/ BeginLookup(p)
  <2>1. \A i \in 1..(nextId - 1) : i \in 0..MaxRows
    BY <1>1 DEF TablesOK
  <2>2. CASE BeginInsert(p) \/ BeginLookup(p)
    <3>1. PICK d \in Domains, step \in {"insert", "exists"} : Start(p, step, d, 0)
      BY <2>2 DEF BeginInsert, BeginLookup
    <3>2. 0 \in 0..MaxRows
      OBVIOUS
    <3> QED BY <1>3, <3>1, <3>2
  <2>3. CASE BeginDelete(p)
    BY <1>3, <2>1, <2>3 DEF BeginDelete
  <2> QED BY <1>19, <2>2, <2>3
<1> QED BY <1>7, <1>8, <1>9, <1>10, <1>11, <1>12, <1>13, <1>14, <1>15, <1>16, <1>17, <1>18, <1>19
        DEF Admin, Lookup, WarmCache

\* Every step is one of a process or a restart of Redis, and it writes the history.
LEMMA Takers ==
    ASSUME [Next]_vars
    PROVE  \/ UNCHANGED vars
           \/ Watch /\ \E p \in Processes : Admin(p) \/ Lookup(p) \/ WarmCache(p) \/ Fail(p)
           \/ Watch /\ RedisRestart
<1>1. ASSUME NEW p \in Processes, Admin(p)
      PROVE  Watch
  BY <1>1 DEF Admin, BeginInsert, Start, InsertRow, AddToSet, BeginDelete, SelectRow, DeleteRow, RemoveFromSet
<1>2. ASSUME NEW p \in Processes, Lookup(p)
      PROVE  Watch
  BY <1>2 DEF Lookup, BeginLookup, Start, AskFlag, AskSet, AskTable, Reply
<1>3. ASSUME NEW p \in Processes, WarmCache(p) \/ Fail(p)
      PROVE  Watch
  BY <1>3 DEF WarmCache, GetAll, EmptySet, FillSet, SetFlag, Fail
<1>4. RedisRestart => Watch
  BY DEF RedisRestart
<1> QED BY <1>1, <1>2, <1>3, <1>4 DEF Next

LEMMA RestartTyped ==
    ASSUME ProcessesOK, RedisRestart
    PROVE  /\ ProcessesOK'
           /\ \A q \in Processes : IF pc[q] \in {"add", "mark"} THEN pc'[q] = "idle" /\ loc'[q] = None
                                                               ELSE pc'[q] = pc[q] /\ loc'[q] = loc[q]
           /\ cached' = {} /\ warmed' = FALSE /\ UNCHANGED <<rows, nextId, suspects>>
BY DEF ProcessesOK, RedisRestart, Steps

LEMMA InitTyped == Init => Typed
BY DEF Init, Typed, ProcessesOK, TablesOK, HistoryOK, Steps

LEMMA TablesTyped ==
    ASSUME Typed, NEW p \in Processes, Admin(p) \/ Lookup(p) \/ WarmCache(p) \/ Fail(p)
    PROVE  ProcessesOK' /\ TablesOK'
<1>1. ProcessesOK /\ TablesOK
  BY DEF Typed
<1>2. pc[p] \notin {"idle", "select"} => loc[p].domain \in Domains /\ loc[p] \in Locals
  BY <1>1 DEF ProcessesOK
<1>3. PICK step \in Steps \cup {"idle"}, l \in Locals \cup {None} :
         /\ Moves(p, step, l) /\ Fits(step, l)
         /\ \/ Quiet(p, step) \/ Reads(p, step, l) \/ Inserts(p, step, l) \/ Deletes(p, step, l)
            \/ EndsChange(p, step) \/ Empties(p, step, l) \/ Fills(p, step, l)
            \/ Abandons(p, step) \/ Flags(p, step)
  BY Kinds
<1>4. ProcessesOK'
  BY <1>1, <1>3, MovesTyped
<1>5. TablesOK'
  <2>1. CASE Quiet(p, step) \/ Reads(p, step, l)
    BY <1>1, <2>1 DEF Quiet, Reads, Still, TablesOK
  <2>2. CASE Inserts(p, step, l)
    <3>1. loc[p].domain \in Domains /\ nextId \in 1..MaxRows
      BY <1>1, <1>2, <2>2 DEF Inserts, TablesOK
    <3>2. \A r \in rows : r.domain # loc[p].domain /\ r.id # nextId
      BY <1>1, <2>2 DEF Inserts, Listed, TablesOK
    <3>3. [id |-> nextId, domain |-> loc[p].domain] \in Row
      BY <3>1 DEF Row
    <3>4. /\ rows' \subseteq Row /\ nextId' \in 1..(MaxRows + 1)
          /\ \A r \in rows' : r.id < nextId'
      BY <1>1, <2>2, <3>1, <3>3 DEF Inserts, TablesOK, Row
    <3>5. \A r, s \in rows' : r.domain = s.domain \/ r.id = s.id => r = s
      BY <1>1, <2>2, <3>2 DEF Inserts, TablesOK
    <3>6. suspects' \subseteq Domains
      BY <1>1, <2>2, <3>1 DEF Inserts, Suspected, TablesOK
    <3> QED BY <1>1, <2>2, <3>4, <3>5, <3>6 DEF Inserts, TablesOK
  <2>3. CASE Deletes(p, step, l) \/ EndsChange(p, step) \/ Empties(p, step, l) \/ Fills(p, step, l)
             \/ Abandons(p, step) \/ Flags(p, step)
    <3>1. pc[p] \notin {"idle", "select"}
      BY <2>3 DEF Deletes, EndsChange, Empties, Fills, Abandons, Flags
    <3>2. loc[p].domain \in Domains /\ loc[p].read \subseteq Domains /\ Listed \subseteq Domains
      BY <1>1, <1>2, <3>1, ListedType DEF Locals
    <3>3. rows' \subseteq rows /\ nextId' = nextId
      BY <2>3 DEF Deletes, EndsChange, Empties, Fills, Abandons, Flags
    <3>4. cached' \subseteq Domains
      BY <1>1, <2>3, <3>2 DEF Deletes, EndsChange, Empties, Fills, Abandons, Flags, TablesOK
    <3>5. suspects' \subseteq Domains
      BY <1>1, <2>3, <3>2 DEF Deletes, EndsChange, Empties, Fills, Abandons, Flags, Suspected, TablesOK
    <3>6. warmed' \in BOOLEAN
      BY <1>1, <2>3 DEF Deletes, EndsChange, Empties, Fills, Abandons, Flags, TablesOK
    <3> QED BY <1>1, <3>3, <3>4, <3>5, <3>6 DEF TablesOK
  <2> QED BY <1>3, <2>1, <2>2, <2>3
<1> QED BY <1>4, <1>5

LEMMA NextTyped ==
    ASSUME Typed, [Next]_vars
    PROVE  Typed'
<1>1. CASE UNCHANGED vars
  BY <1>1 DEF vars, Typed, ProcessesOK, TablesOK, HistoryOK
<1>2. ASSUME Watch, NEW p \in Processes, Admin(p) \/ Lookup(p) \/ WarmCache(p) \/ Fail(p)
      PROVE  Typed'
  BY <1>2, TablesTyped, WatchTyped DEF Typed
<1>3. CASE Watch /\ RedisRestart
  <2>1. ProcessesOK' /\ HistoryOK'
    BY <1>3, RestartTyped, WatchTyped DEF Typed
  <2>2. TablesOK'
    BY <1>3, RestartTyped DEF Typed, TablesOK
  <2> QED BY <2>1, <2>2 DEF Typed
<1> QED BY <1>1, <1>2, <1>3, Takers

\* Domains stay UNIQUE, and a process has local variables exactly while it works, for any
\* number of concurrent requests (Insert, Delete, IsDomainAllowed, WarmCache).
THEOREM TypesHold == Spec => []TypeOK
<1>1. Typed => TypeOK
  BY DEF Typed, ProcessesOK, TablesOK, HistoryOK, TypeOK, Steps
<1> QED BY <1>1, InitTyped, NextTyped, PTL DEF Spec

-----------------------------------------------------------------------------
(* The set and the table.  Of a domain that is not suspect: who changes it has changed the
   table already, who reloads the set has read what the table still says, the set does not
   hold what the table does not while it is reloaded, it holds what the table does once a
   reload is about to set the flag unless another is about to fill it, and with the flag and
   without any of these they agree. *)

ChangeSeen(p, d) == loc[p].domain = d => (pc[p] = "sadd" => d \in Listed) /\ (pc[p] = "srem" => d \notin Listed)

ReadSeen(p, d) == pc[p] \in {"del", "add", "mark"} => (d \in loc[p].read <=> d \in Listed)

Emptied(p, d) == pc[p] \in {"add", "mark"} /\ d \in cached => d \in Listed

Filled(p, d) == pc[p] = "mark" /\ d \in Listed => d \in cached \/ \E q \in Processes : pc[q] = "add"

Underway(p, d) == pc[p] \in {"add", "mark"} \/ (pc[p] \in {"sadd", "srem"} /\ loc[p].domain = d)

Agrees(d) == warmed /\ (\A p \in Processes : ~Underway(p, d)) => (d \in cached <=> d \in Listed)

Sound(d) ==
    d \notin suspects =>
        /\ \A p \in Processes : ChangeSeen(p, d) /\ ReadSeen(p, d) /\ Emptied(p, d) /\ Filled(p, d)
        /\ Agrees(d)

\* Process p moves, and the others stay.
LEMMA Moved ==
    ASSUME ProcessesOK, NEW p \in Processes, NEW step, NEW l, Moves(p, step, l)
    PROVE  \A q \in Processes : IF q = p THEN pc'[q] = step /\ loc'[q] = l
                                         ELSE pc'[q] = pc[q] /\ loc'[q] = loc[q]
BY DEF ProcessesOK, Moves

\* The table says the same of d, unless d is inserted or deleted.
LEMMA ListedMoves ==
    ASSUME TablesOK, NEW p, NEW step, NEW l, NEW d
    PROVE  /\ rows' = rows => Listed' = Listed
           /\ Inserts(p, step, l) => (d \in Listed' <=> d \in Listed \/ d = loc[p].domain)
           /\ Deletes(p, step, l) => (d \in Listed' <=> d \in Listed /\ d # loc[p].domain)
<1>1. rows' = rows => Listed' = Listed
  BY DEF Listed
<1>2. ASSUME Inserts(p, step, l)
      PROVE  d \in Listed' <=> d \in Listed \/ d = loc[p].domain
  <2>1. [id |-> nextId, domain |-> loc[p].domain].domain = loc[p].domain
    OBVIOUS
  <2> QED BY <1>2, <2>1 DEF Inserts, Listed
<1>3. ASSUME Deletes(p, step, l)
      PROVE  d \in Listed' <=> d \in Listed /\ d # loc[p].domain
  <2>1. PICK r \in rows : r.domain = loc[p].domain /\ rows' = rows \ {r}
    BY <1>3 DEF Deletes
  <2>2. \A s \in rows : s.domain = r.domain => s = r
    BY <2>1 DEF TablesOK
  <2> QED BY <2>1, <2>2 DEF Listed
<1> QED BY <1>1, <1>2, <1>3

LEMMA KindsSound ==
    ASSUME Typed, NEW p \in Processes, NEW step \in Steps \cup {"idle"}, NEW l \in Locals \cup {None},
           Moves(p, step, l), NEW d \in Domains, Sound(d), d \notin suspects', d \notin suspects,
           \/ Quiet(p, step) \/ Reads(p, step, l) \/ Inserts(p, step, l) \/ Deletes(p, step, l)
           \/ EndsChange(p, step) \/ Empties(p, step, l) \/ Fills(p, step, l)
           \/ Abandons(p, step) \/ Flags(p, step)
    PROVE  Sound(d)'
<1>1. ProcessesOK /\ TablesOK
  BY DEF Typed
<1>2. \A q \in Processes : IF q = p THEN pc'[q] = step /\ loc'[q] = l
                                    ELSE pc'[q] = pc[q] /\ loc'[q] = loc[q]
  BY <1>1, Moved
<1>3. /\ rows' = rows => Listed' = Listed
      /\ Inserts(p, step, l) => (d \in Listed' <=> d \in Listed \/ d = loc[p].domain)
      /\ Deletes(p, step, l) => (d \in Listed' <=> d \in Listed /\ d # loc[p].domain)
  BY <1>1, ListedMoves
<1> USE DEF Sound, ChangeSeen, ReadSeen, Emptied, Filled, Underway, Agrees
<1>4. CASE Quiet(p, step)
  BY <1>2, <1>3, <1>4 DEF Quiet, Still
<1>5. CASE Reads(p, step, l)
  BY <1>2, <1>3, <1>5 DEF Reads, Still
<1>6. CASE Inserts(p, step, l)
  <2>1. CASE d # loc[p].domain
    BY <1>2, <1>3, <1>6, <2>1 DEF Inserts
  <2>2. CASE d = loc[p].domain
    <3>1. /\ d \in Listed'
          /\ \A q \in Processes : pc[q] \notin {"del", "add", "mark"} /\ (pc[q] \in {"sadd", "srem"} => loc[q].domain # d)
      BY <1>3, <1>6, <2>2 DEF Inserts, Suspected, InFlight
    <3> QED BY <1>2, <1>6, <2>2, <3>1 DEF Inserts
  <2> QED BY <2>1, <2>2
<1>7. CASE Deletes(p, step, l)
  <2>1. CASE d # loc[p].domain
    BY <1>2, <1>3, <1>7, <2>1 DEF Deletes
  <2>2. CASE d = loc[p].domain
    <3>1. /\ d \notin Listed'
          /\ \A q \in Processes : pc[q] \notin {"del", "add", "mark"} /\ (pc[q] \in {"sadd", "srem"} => loc[q].domain # d)
      BY <1>3, <1>7, <2>2 DEF Deletes, Suspected, InFlight
    <3> QED BY <1>2, <1>7, <2>2, <3>1 DEF Deletes
  <2> QED BY <2>1, <2>2
<1>8. CASE EndsChange(p, step)
  <2>1. CASE d # loc[p].domain
    BY <1>2, <1>3, <1>8, <2>1 DEF EndsChange
  <2>2. CASE d = loc[p].domain
    BY <1>2, <1>3, <1>8, <2>2 DEF EndsChange
  <2> QED BY <2>1, <2>2
<1>9. CASE Empties(p, step, l)
  BY <1>2, <1>3, <1>9 DEF Empties
<1>10. CASE Fills(p, step, l)
  BY <1>2, <1>3, <1>10 DEF Fills
<1>11. CASE Abandons(p, step)
  BY <1>2, <1>3, <1>11 DEF Abandons
<1>12. CASE Flags(p, step)
  BY <1>2, <1>3, <1>12 DEF Flags
<1> QED BY <1>4, <1>5, <1>6, <1>7, <1>8, <1>9, <1>10, <1>11, <1>12

LEMMA NextSound ==
    ASSUME Typed, NEW d \in Domains, Sound(d), [Next]_vars
    PROVE  Sound(d)'
<1> SUFFICES ASSUME d \notin suspects'
             PROVE  Sound(d)'
  BY DEF Sound
<1>1. CASE UNCHANGED vars
  BY <1>1 DEF vars, Sound, ChangeSeen, ReadSeen, Emptied, Filled, Underway, Agrees, Listed
<1>2. ASSUME NEW p \in Processes, Admin(p) \/ Lookup(p) \/ WarmCache(p) \/ Fail(p)
      PROVE  Sound(d)'
  <2>1. PICK step \in Steps \cup {"idle"}, l \in Locals \cup {None} :
         /\ Moves(p, step, l)
         /\ \/ Quiet(p, step) \/ Reads(p, step, l) \/ Inserts(p, step, l) \/ Deletes(p, step, l)
            \/ EndsChange(p, step) \/ Empties(p, step, l) \/ Fills(p, step, l)
            \/ Abandons(p, step) \/ Flags(p, step)
    BY <1>2, Kinds
  <2>2. d \notin suspects
    BY <2>1 DEF Quiet, Reads, Still, Inserts, Deletes, Suspected, EndsChange, Empties, Fills, Abandons, Flags
  <2> QED BY <2>1, <2>2, KindsSound
<1>3. CASE RedisRestart
  <2>1. /\ \A q \in Processes : IF pc[q] \in {"add", "mark"} THEN pc'[q] = "idle" /\ loc'[q] = None
                                                             ELSE pc'[q] = pc[q] /\ loc'[q] = loc[q]
        /\ cached' = {} /\ warmed' = FALSE /\ UNCHANGED <<rows, suspects>>
    BY <1>3, RestartTyped DEF Typed
  <2>2. Listed' = Listed
    BY <2>1 DEF Listed
  <2> QED BY <2>1, <2>2 DEF Sound, ChangeSeen, ReadSeen, Emptied, Filled, Underway, Agrees
<1> QED BY <1>1, <1>2, <1>3, Takers

AllSound == \A d \in Domains : Sound(d)

LEMMA InitSound == Init => AllSound
BY DEF Init, AllSound, Sound, ChangeSeen, ReadSeen, Emptied, Filled, Underway, Agrees, Listed

\* With the flag, the set agrees with the table on every domain that nobody is changing,
\* but for those that lost a call or were changed while another change of them, or a
\* reload, was under way, for any number of requests and domains (custom_domain_repo.go).
THEOREM SetAgrees == Spec => []SetMatchesTable
<1>1. AllSound => SetMatchesTable
  BY DEF AllSound, Sound, Agrees, Underway, SetMatchesTable, InFlight
<1>2. Typed /\ AllSound /\ [Next]_vars => AllSound'
  BY NextSound DEF AllSound
<1> QED BY <1>1, <1>2, InitTyped, NextTyped, InitSound, PTL DEF Spec

-----------------------------------------------------------------------------
(* The answers.  Who asks the set has seen the flag, or Redis restarted since. *)

Justified(p) ==
    /\ pc[p] = "member" => warmed \/ excused[p]
    /\ pc[p] # "idle" /\ loc[p].answer # None => loc[p].answer \in listed[p] \/ excused[p]

\* What the history gains for a process that goes on.
LEMMA Watched ==
    ASSUME Watch, NEW p \in Processes, pc'[p] # "idle"
    PROVE  /\ listed[p] \subseteq listed'[p]
           /\ (loc'[p].domain \in Listed') \in listed'[p]
           /\ \/ excused[p]
              \/ loc'[p].domain \in suspects'
              \/ InFlight(loc'[p].domain, pc', loc')
              \/ warmed /\ ~warmed'
              => excused'[p]
<1>1. listed'[p] = listed[p] \cup {loc'[p].domain \in Listed'}
  BY DEF Watch, Listed
<1>2. \/ excused[p]
      \/ loc'[p].domain \in suspects'
      \/ InFlight(loc'[p].domain, pc', loc')
      \/ warmed /\ ~warmed'
      => excused'[p]
  BY DEF Watch
<1> QED BY <1>1, <1>2

\* A process that goes on with its answer.
LEMMA AnswerKept ==
    ASSUME Watch, NEW p \in Processes, Justified(p), pc'[p] # "idle" => pc[p] # "idle",
           pc'[p] # "idle" => loc'[p].answer = loc[p].answer,
           pc'[p] = "member" => pc[p] = "member" \/ warmed
    PROVE  Justified(p)'
BY Watched DEF Justified

\* How a process comes by an answer.
LEMMA AnswerSteps ==
    ASSUME Typed, NEW p \in Processes, Admin(p) \/ Lookup(p) \/ WarmCache(p) \/ Fail(p)
    PROVE  \/ pc'[p] = "idle"
           \/ pc'[p] # "member" /\ loc'[p].answer = None
           \/ /\ pc[p] # "idle" /\ loc'[p].answer = loc[p].answer
              /\ pc'[p] = "member" => warmed
           \/ AskSet(p)
           \/ AskTable(p)
<1>1. ProcessesOK /\ TablesOK /\ Listed \subseteq Domains
  BY ListedType DEF Typed
<1>2. pc[p] # "idle" => loc[p] \in Locals
  BY <1>1 DEF ProcessesOK
<1>3. Finish(p) => pc'[p] = "idle"
  BY <1>1 DEF Finish, ProcessesOK
<1>4. \A step : Goto(p, step) => pc'[p] = step
  BY <1>1 DEF Goto, ProcessesOK
<1>5. CASE BeginInsert(p) \/ BeginDelete(p) \/ BeginLookup(p)
  <2>1. PICK step, d, i : step \in {"insert", "select", "exists"} /\ Start(p, step, d, i)
    BY <1>5 DEF BeginInsert, BeginDelete, BeginLookup
  <2> QED BY <1>1, <1>4, <2>1 DEF Start, ProcessesOK
<1>6. CASE InsertRow(p) \/ DeleteRow(p)
  BY <1>3, <1>4, <1>6 DEF InsertRow, DeleteRow
<1>7. CASE AddToSet(p) \/ RemoveFromSet(p) \/ Reply(p) \/ SetFlag(p) \/ Fail(p)
  BY <1>3, <1>7 DEF AddToSet, RemoveFromSet, Reply, SetFlag, Fail
<1>8. CASE SelectRow(p)
  <2>1. pc[p] = "select" /\ loc[p] \in Locals
    BY <1>2, <1>8 DEF SelectRow
  <2>2. CASE Finish(p)
    BY <1>3, <2>2
  <2>3. CASE ~Finish(p)
    <3>1. PICK r \in rows : loc' = [loc EXCEPT ![p] = [loc[p] EXCEPT !.domain = r.domain]] /\ Goto(p, "delete")
      BY <1>8, <2>3 DEF SelectRow
    <3>2. r.domain \in Domains
      BY <1>1 DEF TablesOK, Row
    <3>3. loc'[p].answer = loc[p].answer
      BY <1>1, <2>1, <3>1, <3>2, Updated DEF ProcessesOK
    <3> QED BY <1>4, <2>1, <3>1, <3>3
  <2> QED BY <2>2, <2>3
<1>9. CASE AskFlag(p)
  <2>1. \/ warmed /\ Goto(p, "member")
        \/ Goto(p, "lookup")
    BY <1>9 DEF AskFlag, UseSet
  <2>2. pc[p] = "exists" /\ UNCHANGED loc
    BY <1>9 DEF AskFlag
  <2> QED BY <1>4, <2>1, <2>2
<1>10. CASE GetAll(p)
  <2>1. pc[p] = "getAll" /\ Goto(p, "del") /\ loc' = [loc EXCEPT ![p] = [loc[p] EXCEPT !.read = Listed]]
    BY <1>10 DEF GetAll
  <2>2. [loc[p] EXCEPT !.read = Listed].answer = loc[p].answer
    BY <1>1, <1>2, <2>1, Updated
  <2> QED BY <1>1, <1>4, <2>1, <2>2 DEF ProcessesOK
<1>11. CASE EmptySet(p) \/ FillSet(p)
  <2>1. PICK step \in {"add", "mark"} : Goto(p, step) /\ UNCHANGED loc /\ pc[p] # "idle"
    BY <1>11 DEF EmptySet, FillSet
  <2> QED BY <1>4, <2>1
<1> QED BY <1>5, <1>6, <1>7, <1>8, <1>9, <1>10, <1>11 DEF Admin, Lookup, WarmCache

LEMMA NextJustified ==
    ASSUME Typed, AllSound, NEW q \in Processes, Justified(q), [Next]_vars
    PROVE  Justified(q)'
<1>1. ProcessesOK /\ TablesOK
  BY DEF Typed
<1>2. CASE UNCHANGED vars
  BY <1>2 DEF vars, Justified
<1>3. ASSUME Watch, NEW p \in Processes, Admin(p) \/ Lookup(p) \/ WarmCache(p) \/ Fail(p)
      PROVE  Justified(q)'
  <2>1. CASE q # p
    <3>1. pc'[q] = pc[q] /\ loc'[q] = loc[q]
      BY <1>1, <1>3, <2>1, Kinds, Moved
    <3> QED BY <1>3, <3>1, AnswerKept
  <2>2. CASE q = p /\ (pc'[p] = "idle" \/ (pc'[p] # "member" /\ loc'[p].answer = None))
    BY <2>2 DEF Justified
  <2>3. CASE q = p /\ pc[p] # "idle" /\ loc'[p].answer = loc[p].answer /\ (pc'[p] = "member" => warmed)
    BY <1>3, <2>3, AnswerKept
  <2>4. CASE q = p /\ (AskSet(p) \/ AskTable(p))
    <3>1. PICK step \in {"reply", "getAll"} : Goto(p, step) /\ Still /\ pc[p] # "idle"
      BY <2>4 DEF AskSet, AskTable, Still
    <3>2. Listed' = Listed /\ pc'[p] = step
      BY <1>1, <3>1 DEF Still, Listed, Goto, ProcessesOK
    <3>3. loc[p] \in Locals
      BY <1>1, <3>1 DEF ProcessesOK
    <3>4. ASSUME NEW a \in BOOLEAN, loc' = [loc EXCEPT ![p] = [loc[p] EXCEPT !.answer = a]]
          PROVE  loc'[p].answer = a /\ loc'[p].domain = loc[p].domain
      BY <1>1, <3>3, <3>4, Updated DEF ProcessesOK
    <3>5. /\ (loc'[p].domain \in Listed') \in listed'[p]
          /\ excused[p] \/ loc'[p].domain \in suspects' \/ InFlight(loc'[p].domain, pc', loc') => excused'[p]
      BY <1>3, <3>1, <3>2, Watched
    <3>6. CASE AskTable(p)
      <4>1. loc'[p].answer = (loc[p].domain \in Listed) /\ loc'[p].domain = loc[p].domain
        <5>1. (loc[p].domain \in Listed) \in BOOLEAN
          OBVIOUS
        <5>2. loc' = [loc EXCEPT ![p] = [loc[p] EXCEPT !.answer = (loc[p].domain \in Listed)]]
          BY <3>6 DEF AskTable
        <5> QED BY <3>4, <5>1, <5>2
      <4> QED BY <2>4, <3>1, <3>2, <3>5, <4>1 DEF Justified
    <3>7. CASE AskSet(p)
      <4>1. loc'[p].answer = (loc[p].domain \in cached) /\ loc'[p].domain = loc[p].domain
        <5>1. (loc[p].domain \in cached) \in BOOLEAN
          OBVIOUS
        <5>2. loc' = [loc EXCEPT ![p] = [loc[p] EXCEPT !.answer = (loc[p].domain \in cached)]]
          BY <3>7 DEF AskSet
        <5> QED BY <3>4, <5>1, <5>2
      <4>2. pc[p] = "member" /\ pc'[p] = "reply" /\ loc[p].domain \in Domains
        <5>1. pc[p] = "member" /\ Goto(p, "reply")
          BY <3>7 DEF AskSet
        <5> QED BY <1>1, <5>1 DEF Goto, ProcessesOK
      <4>3. CASE excused[p] \/ loc[p].domain \in suspects
        BY <2>4, <3>1, <3>5, <4>1, <4>2, <4>3 DEF Justified, Still
      <4>4. CASE \E r \in Processes : Underway(r, loc[p].domain)
        <5>1. \A r \in Processes : r # p => pc'[r] = pc[r] /\ loc'[r] = loc[r]
          BY <1>1, <1>3, Kinds, Moved
        <5>2. InFlight(loc'[p].domain, pc', loc')
          BY <4>1, <4>2, <4>4, <5>1 DEF Underway, InFlight
        <5> QED BY <2>4, <3>5, <4>2, <5>2 DEF Justified
      <4>5. CASE ~excused[p] /\ loc[p].domain \notin suspects /\ \A r \in Processes : ~Underway(r, loc[p].domain)
        <5>1. warmed
          BY <2>4, <4>2, <4>5 DEF Justified
        <5>2. loc[p].domain \in cached <=> loc[p].domain \in Listed
          BY <4>2, <4>5, <5>1 DEF AllSound, Sound, Agrees
        <5>3. loc'[p].answer = (loc'[p].domain \in Listed')
          BY <3>2, <4>1, <5>2
        <5> QED BY <2>4, <3>5, <4>2, <5>3 DEF Justified
      <4> QED BY <4>3, <4>4, <4>5
    <3> QED BY <2>4, <3>6, <3>7
  <2> QED BY <1>3, <2>1, <2>2, <2>3, <2>4, AnswerSteps
<1>4. CASE Watch /\ RedisRestart
  <2>1. \/ pc'[q] = "idle"
        \/ pc'[q] = pc[q] /\ loc'[q] = loc[q]
    BY <1>1, <1>4, RestartTyped
  <2>2. ~warmed'
    BY <1>1, <1>4, RestartTyped
  <2>3. CASE pc'[q] = "idle"
    BY <2>3 DEF Justified
  <2>4. CASE pc'[q] # "idle" /\ pc'[q] = pc[q] /\ loc'[q] = loc[q]
    <3>1. listed[q] \subseteq listed'[q] /\ (excused[q] \/ warmed => excused'[q])
      BY <1>4, <2>2, <2>4, Watched
    <3> QED BY <2>4, <3>1 DEF Justified
  <2> QED BY <2>1, <2>3, <2>4
<1> QED BY <1>2, <1>3, <1>4, Takers

AllJustified == \A p \in Processes : Justified(p)

\* A voter's domain is judged by the table as it was at some moment of the request, unless
\* Redis restarted, or the domain was suspect or being changed, meanwhile, for any number
\* of requests and domains (IsDomainAllowed).
THEOREM LookupsJustified == Spec => []LookupJustified
<1>1. AllJustified => LookupJustified
  BY DEF AllJustified, Justified, LookupJustified
<1>2. Init => AllJustified
  BY DEF Init, AllJustified, Justified
<1>3. Typed /\ AllSound /\ AllJustified /\ [Next]_vars => AllJustified'
  BY NextJustified DEF AllJustified
<1>4. Typed /\ AllSound /\ [Next]_vars => AllSound'
  BY NextSound DEF AllSound
<1> QED BY <1>1, <1>2, <1>3, <1>4, InitTyped, NextTyped, InitSound, PTL DEF Spec

===============================================================================
