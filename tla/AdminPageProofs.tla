---------------------------- MODULE AdminPageProofs ----------------------------
(* Theorems of AdminPage, for every value of its constants. *)
EXTENDS AdminPage, SequenceTheorems, TLAPS

USE ListBounds, NoneIsNew, NoneIsNoCall

-----------------------------------------------------------------------------
(* Tables. *)

Content == Texts \cup {None}

LEMMA TablesAreSeqs == \A t : t \in Tables <=> t \in Seq(Content) /\ Len(t) <= MaxRows
<1> TAKE t
<1>1. ASSUME t \in Tables
      PROVE  t \in Seq(Content) /\ Len(t) <= MaxRows
  <2>1. PICK n \in 0..MaxRows : t \in [1..n -> Content]
    BY <1>1 DEF Tables, Content
  <2> QED BY <2>1
<1>2. ASSUME t \in Seq(Content), Len(t) <= MaxRows
      PROVE  t \in Tables
  <2>1. t \in [1..Len(t) -> Content] /\ Len(t) \in 0..MaxRows
    BY <1>2
  <2> QED BY <2>1 DEF Tables, Content
<1> QED BY <1>1, <1>2

LEMMA InsertedTable ==
    ASSUME rows \in Tables, NEW text \in Content, Len(Inserted(text)) <= MaxRows
    PROVE  Inserted(text) \in Tables /\ Len(Inserted(text)) = Len(rows) + 1
<1>1. rows \in Seq(Content)
  BY TablesAreSeqs
<1>2. Append(rows, text) \in Seq(Content) /\ Len(Append(rows, text)) = Len(rows) + 1
  BY <1>1 DEF Content
<1> QED BY <1>2, TablesAreSeqs DEF Inserted

LEMMA ExceptTable ==
    ASSUME rows \in Tables, NEW id, NEW text \in Content
    PROVE  [rows EXCEPT ![id] = text] \in Tables /\ Len([rows EXCEPT ![id] = text]) = Len(rows)
<1>1. PICK n \in 0..MaxRows : rows \in [1..n -> Content]
  BY DEF Tables, Content
<1>2. [rows EXCEPT ![id] = text] \in [1..n -> Content]
  BY <1>1
<1>3. \A t \in [1..n -> Content] : Len(t) = n
  OBVIOUS
<1> QED BY <1>1, <1>2, <1>3 DEF Tables, Content

-----------------------------------------------------------------------------
(* The lists.  A list on the page that is outdated and not excused is about to be renewed:
   by a change that was made, whose answer is followed by a new list, or by a list that is
   not older than the table. *)

Proper(c) ==
    call[c] # None =>
        /\ call[c].kind # "list" => call[c].goal = call[c].kind
        /\ call[c].kind = "list" /\ call[c].status = "ok" =>
             call[c].answer \in List /\ call[c].answer.version <= version

Renews(c) ==
    /\ call[c] # None
    /\ Made(c) \/ (call[c].kind = "list" /\ (call[c].status # "ok" \/ call[c].answer.version = version))

Renewed == shown.version # version => excused \/ \E c \in Slots : Renews(c)

ListInv ==
    /\ ListTypeOK
    /\ \A c \in Slots : Proper(c)
    /\ shown.version <= version
    /\ Renewed

LEMMA AskedType ==
    ASSUME NEW kind \in Changes \cup {"list"}, NEW goal \in Changes \cup {"mount"},
           NEW id \in Ids \cup {None}, NEW text \in Content
    PROVE  /\ Asks(kind, goal, id, text) \in Call
           /\ Asks(kind, goal, id, text) # None
           /\ Asks(kind, goal, id, text).kind = kind
           /\ Asks(kind, goal, id, text).goal = goal
           /\ Asks(kind, goal, id, text).id = id
           /\ Asks(kind, goal, id, text).text = text
           /\ Asks(kind, goal, id, text).status = "pending"
           /\ Asks(kind, goal, id, text).answer = None
<1>1. Asks(kind, goal, id, text) \in Call
  BY DEF Asks, Call, Statuses, Content
<1> QED BY <1>1 DEF Asks

LEMMA RefetchedCall ==
    ASSUME NEW c \in Slots, call[c] \in Call
    PROVE  /\ Refetch(c) \in Call /\ Refetch(c) # None
           /\ Refetch(c).kind = "list" /\ Refetch(c).goal = call[c].goal /\ Refetch(c).status = "pending"
<1>1. ASSUME NEW goal \in Changes \cup {"mount"}
      PROVE  /\ Asks("list", goal, None, None) \in Call
             /\ Asks("list", goal, None, None) # None
             /\ Asks("list", goal, None, None).kind = "list"
             /\ Asks("list", goal, None, None).goal = goal
             /\ Asks("list", goal, None, None).status = "pending"
  BY AskedType DEF Content
<1>2. call[c].goal \in Changes \cup {"mount"}
  BY DEF Call
<1> QED BY <1>1, <1>2 DEF Refetch

LEMMA EmptyList == <<>> \in Tables /\ [rows |-> <<>>, version |-> 0] \in List
<1>1. <<>> \in Seq(Content) /\ Len(<<>>) <= MaxRows
  OBVIOUS
<1>2. <<>> \in Tables
  BY <1>1, TablesAreSeqs
<1>3. 0 \in 0..MaxChanges
  OBVIOUS
<1> QED BY <1>2, <1>3 DEF List

LEMMA MountedCalls ==
    ASSUME call' \in Mounting
    PROVE  \E c \in Slots :
             /\ call'[c] = Asks("list", "mount", None, None)
             /\ call' \in [Slots -> Call \cup {None}]
             /\ \A d \in Slots \ {c} : call'[d] = None
<1>1. PICK c \in Slots :
        call' = [d \in Slots |-> IF d = c THEN Asks("list", "mount", None, None) ELSE None]
  BY DEF Mounting
<1>2. Asks("list", "mount", None, None) \in Call
  BY AskedType DEF Changes, Content
<1> QED BY <1>1, <1>2

\* Call c moves to what is left of it, and the others stay.
LEMMA CallMoves ==
    ASSUME call \in [Slots -> Call \cup {None}], NEW c \in Slots, NEW left \in Call \cup {None},
           call' = [call EXCEPT ![c] = left]
    PROVE  /\ call' \in [Slots -> Call \cup {None}]
           /\ call'[c] = left
           /\ \A d \in Slots \ {c} : call'[d] = call[d]
OBVIOUS

LEMMA ServedCall ==
    ASSUME call \in [Slots -> Call \cup {None}], NEW c \in Slots, call[c] # None, NEW status \in Statuses
    PROVE  /\ [call[c] EXCEPT !.status = status] \in Call
           /\ [call[c] EXCEPT !.status = status].kind = call[c].kind
           /\ [call[c] EXCEPT !.status = status].goal = call[c].goal
           /\ [call[c] EXCEPT !.status = status].text = call[c].text
           /\ [call[c] EXCEPT !.status = status].status = status
           /\ [call EXCEPT ![c].status = status] = [call EXCEPT ![c] = [call[c] EXCEPT !.status = status]]
<1>1. call[c] \in Call
  OBVIOUS
<1> QED BY <1>1 DEF Call

LEMMA ListedCall ==
    ASSUME call \in [Slots -> Call \cup {None}], NEW c \in Slots, call[c] # None, NEW list \in List
    PROVE  LET served == [call[c] EXCEPT !.status = "ok", !.answer = list] IN
           /\ served \in Call
           /\ served.kind = call[c].kind /\ served.goal = call[c].goal /\ served.text = call[c].text
           /\ served.status = "ok" /\ served.answer = list
           /\ [call EXCEPT ![c].status = "ok", ![c].answer = list] = [call EXCEPT ![c] = served]
<1>1. call[c] \in Call
  OBVIOUS
<1> QED BY <1>1 DEF Call, Statuses

LEMMA ListInitInv == ListInit => ListInv
<1> SUFFICES ASSUME ListInit
             PROVE  ListInv
  OBVIOUS
<1>1. \E c \in Slots : /\ call = [d \in Slots |-> IF d = c THEN Asks("list", "mount", None, None) ELSE None]
  BY DEF ListInit, Mounting
<1>2. Asks("list", "mount", None, None) \in Call /\ Asks("list", "mount", None, None).status = "pending"
      /\ Asks("list", "mount", None, None).kind = "list"
  BY AskedType DEF Changes, Content
<1>3. rows \in Tables /\ shown \in List /\ shown.version = 0 /\ version = 0
  BY EmptyList DEF ListInit
<1>4. ListTypeOK
  <2>1. call \in [Slots -> Call \cup {None}]
    BY <1>1, <1>2
  <2>2. spinner \in BOOLEAN /\ excused \in BOOLEAN /\ stray \subseteq Call
    BY DEF ListInit
  <2>3. version \in 0..MaxChanges
    BY <1>3
  <2> QED BY <1>3, <2>1, <2>2, <2>3 DEF ListTypeOK
<1>5. \A c \in Slots : Proper(c)
  BY <1>1, <1>2 DEF Proper
<1> QED BY <1>3, <1>4, <1>5 DEF ListInv, Renewed

LEMMA Noted ==
    ASSUME NEW reason, Note(reason)
    PROVE  /\ excused' \in BOOLEAN
           /\ shown'.version # version' /\ (excused \/ reason) => excused'
BY DEF Note

\* The types and the properness of what the page and the table become.
LEMMA CallProper ==
    ASSUME ListInv, NEW c \in Slots, NEW left \in Call \cup {None},
           call' = [call EXCEPT ![c] = left], version' = version,
           left # None =>
               /\ left.kind # "list" => left.goal = left.kind
               /\ left.kind = "list" /\ left.status = "ok" => left.answer \in List /\ left.answer.version <= version
    PROVE  /\ call' \in [Slots -> Call \cup {None}]
           /\ call'[c] = left
           /\ \A d \in Slots \ {c} : call'[d] = call[d]
           /\ \A d \in Slots : Proper(d)'
<1>1. /\ call' \in [Slots -> Call \cup {None}]
      /\ call'[c] = left
      /\ \A d \in Slots \ {c} : call'[d] = call[d]
  BY CallMoves DEF ListInv, ListTypeOK
<1> QED BY <1>1 DEF ListInv, Proper

LEMMA SendKept ==
    ASSUME ListInv, NEW kind \in Changes, NEW id \in Ids \cup {None}, NEW text \in Content, Send(kind, id, text)
    PROVE  ListInv'
<1>1. PICK c \in Slots : call[c] = None /\ call' = [call EXCEPT ![c] = Asks(kind, kind, id, text)]
  BY DEF Send
<1>2. UNCHANGED <<rows, version, shown, spinner, stray, excused>>
  BY DEF Send
<1>3. Asks(kind, kind, id, text) \in Call /\ Asks(kind, kind, id, text).kind = kind
      /\ Asks(kind, kind, id, text).goal = kind /\ kind # "list"
  BY AskedType DEF Changes
<1>4. /\ call' \in [Slots -> Call \cup {None}]
      /\ \A d \in Slots \ {c} : call'[d] = call[d]
      /\ \A d \in Slots : Proper(d)'
  BY <1>1, <1>2, <1>3, CallProper
<1>5. \A d \in Slots : Renews(d) => Renews(d)'
  BY <1>1, <1>2, <1>4 DEF Renews, Made
<1>6. Renewed'
  BY <1>2, <1>5 DEF ListInv, Renewed
<1>7. ListTypeOK'
  BY <1>2, <1>4 DEF ListInv, ListTypeOK
<1> QED BY <1>2, <1>4, <1>6, <1>7 DEF ListInv

LEMMA MountKept ==
    ASSUME ListInv, MountList
    PROVE  ListInv'
<1>1. PICK c \in Slots :
        /\ call'[c] = Asks("list", "mount", None, None)
        /\ call' \in [Slots -> Call \cup {None}]
        /\ \A d \in Slots \ {c} : call'[d] = None
  BY MountedCalls DEF MountList
<1>2. Asks("list", "mount", None, None) # None /\ Asks("list", "mount", None, None).status = "pending"
      /\ Asks("list", "mount", None, None).kind = "list"
  BY AskedType DEF Changes, Content
<1>3. shown' = [rows |-> <<>>, version |-> 0] /\ UNCHANGED <<rows, version>> /\ spinner' = TRUE
      /\ stray' = stray \cup Orphans /\ Note(FALSE)
  BY DEF MountList
<1>4. Orphans \subseteq Call
  BY DEF Orphans, Waits, Waiting, ListInv, ListTypeOK
<1>5. shown' \in List /\ shown'.version = 0
  BY <1>3, EmptyList
<1>6. excused' \in BOOLEAN /\ spinner' \in BOOLEAN
  BY <1>3, Noted
<1>7. ListTypeOK'
  BY <1>1, <1>3, <1>4, <1>5, <1>6 DEF ListInv, ListTypeOK
<1>8. (\A d \in Slots : Proper(d)') /\ Renews(c)'
  BY <1>1, <1>2 DEF Proper, Renews
<1>9. shown'.version <= version'
  BY <1>3, <1>5 DEF ListInv, ListTypeOK
<1> QED BY <1>7, <1>8, <1>9 DEF ListInv, Renewed

LEMMA AnswerFits ==
    ASSUME ListInv, NEW c \in Slots, NEW ok \in BOOLEAN, Answered(c, ok)
    PROVE  /\ call[c] \in Call
           /\ stray' \subseteq Call
           /\ ok => call[c].status = "ok"
<1>1. call[c] \in Call
  BY DEF Answered, Over, ListInv, ListTypeOK
<1>2. stray' \subseteq Call
  BY <1>1 DEF Answered, ListInv, ListTypeOK
<1>3. ok => call[c].status = "ok"
  BY DEF Answered, Over
<1> QED BY <1>1, <1>2, <1>3

LEMMA ListReplyKept ==
    ASSUME ListInv, NEW c \in Slots, NEW ok \in BOOLEAN, ListReply(c, ok)
    PROVE  ListInv'
<1>1. /\ call[c].kind = "list" /\ call' = [call EXCEPT ![c] = None]
      /\ shown' = (IF ok THEN call[c].answer ELSE shown)
      /\ spinner' = FALSE /\ UNCHANGED <<rows, version>>
      /\ Note(~ok \/ shown'.version < shown.version)
  BY DEF ListReply
<1>2. call[c] \in Call /\ stray' \subseteq Call /\ (ok => call[c].status = "ok")
  BY AnswerFits DEF ListReply
<1>3. /\ call' \in [Slots -> Call \cup {None}]
      /\ call'[c] = None
      /\ \A d \in Slots \ {c} : call'[d] = call[d]
      /\ \A d \in Slots : Proper(d)'
  BY <1>1, CallProper
<1>4. shown' \in List /\ shown'.version <= version'
  BY <1>1, <1>2 DEF ListInv, ListTypeOK, Proper
<1>5. excused' \in BOOLEAN /\ spinner' \in BOOLEAN
  BY <1>1, Noted
<1>6. ListTypeOK'
  BY <1>1, <1>2, <1>3, <1>4, <1>5 DEF ListInv, ListTypeOK
<1>7. Renewed'
  <2>1. SUFFICES ASSUME shown'.version # version, ~excused'
                 PROVE  \E d \in Slots : Renews(d)'
    BY <1>1 DEF Renewed
  <2>2. ~excused /\ ok /\ ~(shown'.version < shown.version)
    BY <1>1, <2>1, Noted
  <2>3. shown.version \in Nat /\ shown'.version \in Nat /\ version \in Nat
    BY <1>4 DEF ListInv, ListTypeOK, List
  <2>4. shown.version # version
    BY <1>1, <1>4, <2>1, <2>2, <2>3 DEF ListInv
  <2>5. PICK d \in Slots : Renews(d)
    BY <2>2, <2>4 DEF ListInv, Renewed
  <2>6. ~Renews(c)
    BY <1>1, <1>2, <2>1, <2>2 DEF Renews, Made
  <2>7. d # c /\ call'[d] = call[d]
    BY <1>3, <2>5, <2>6
  <2> QED BY <1>1, <2>5, <2>7 DEF Renews, Made
<1> QED BY <1>3, <1>4, <1>6, <1>7 DEF ListInv

LEMMA ChangeReplyKept ==
    ASSUME ListInv, NEW c \in Slots, NEW ok \in BOOLEAN, ChangeReply(c, ok)
    PROVE  ListInv'
<1> DEFINE left == IF ok THEN Refetch(c) ELSE None
<1>1. /\ call[c].kind # "list" /\ call' = [call EXCEPT ![c] = left]
      /\ UNCHANGED <<rows, version, shown, spinner>>
      /\ Note(~ok /\ Made(c))
  BY DEF ChangeReply
<1>2. call[c] \in Call /\ stray' \subseteq Call /\ (ok => call[c].status = "ok")
  BY AnswerFits DEF ChangeReply
<1>3. /\ Refetch(c) \in Call /\ Refetch(c) # None
      /\ Refetch(c).kind = "list" /\ Refetch(c).status = "pending"
  BY <1>2, RefetchedCall
<1>4. /\ call' \in [Slots -> Call \cup {None}]
      /\ call'[c] = left
      /\ \A d \in Slots \ {c} : call'[d] = call[d]
      /\ \A d \in Slots : Proper(d)'
  BY <1>1, <1>3, CallProper
<1>5. excused' \in BOOLEAN
  BY <1>1, Noted
<1>6. ListTypeOK'
  BY <1>1, <1>2, <1>4, <1>5 DEF ListInv, ListTypeOK
<1>7. Renewed'
  <2>1. CASE ok
    <3>1. Renews(c)'
      BY <1>3, <1>4, <2>1 DEF Renews
    <3> QED BY <3>1 DEF Renewed
  <2>2. CASE ~ok
    <3>1. SUFFICES ASSUME shown'.version # version', ~excused'
                   PROVE  \E d \in Slots : Renews(d)'
      BY DEF Renewed
    <3>2. ~excused /\ ~Made(c)
      BY <1>1, <2>2, <3>1, Noted
    <3>3. PICK d \in Slots : Renews(d)
      BY <1>1, <3>1, <3>2 DEF ListInv, Renewed
    <3>4. d # c /\ call'[d] = call[d]
      BY <1>1, <1>4, <3>2, <3>3 DEF Renews
    <3> QED BY <1>1, <3>3, <3>4 DEF Renews, Made
  <2> QED BY <2>1, <2>2
<1> QED BY <1>1, <1>4, <1>6, <1>7 DEF ListInv

LEMMA ServeListKept ==
    ASSUME ListInv, NEW c \in Slots, ServeList(c)
    PROVE  ListInv'
<1> DEFINE list == [rows |-> rows, version |-> version]
           served == [call[c] EXCEPT !.status = "ok", !.answer = list]
<1>1. /\ call[c] # None /\ call[c].kind = "list"
      /\ call' = [call EXCEPT ![c].status = "ok", ![c].answer = list]
      /\ UNCHANGED <<rows, version, shown, spinner, stray, excused>>
  BY DEF ServeList, Waits, Waiting
<1>2. list \in List /\ list.version = version /\ version <= version
  BY DEF ListInv, ListTypeOK, List
<1>3. /\ served \in Call /\ served.kind = "list" /\ served.status = "ok" /\ served.answer = list
      /\ call' = [call EXCEPT ![c] = served]
  BY <1>1, <1>2, ListedCall DEF ListInv, ListTypeOK
<1>4. /\ call' \in [Slots -> Call \cup {None}]
      /\ call'[c] = served
      /\ \A d \in Slots \ {c} : call'[d] = call[d]
      /\ \A d \in Slots : Proper(d)'
  <2> HIDE DEF served, list
  <2> QED BY <1>1, <1>2, <1>3, CallProper
<1>5. Renews(c)'
  <2>1. call'[c] # None
    BY <1>3, <1>4
  <2> QED BY <1>1, <1>2, <1>3, <1>4, <2>1 DEF Renews
<1>6. ListTypeOK'
  BY <1>1, <1>4 DEF ListInv, ListTypeOK
<1> QED BY <1>1, <1>4, <1>5, <1>6 DEF ListInv, Renewed

LEMMA RefuseKept ==
    ASSUME ListInv, NEW c \in Slots, Refuse(c)
    PROVE  ListInv'
<1> DEFINE served == [call[c] EXCEPT !.status = "error"]
<1>1. /\ call[c] # None /\ call[c].status = "pending"
      /\ call' = [call EXCEPT ![c].status = "error"]
      /\ UNCHANGED <<rows, version, shown, spinner, stray, excused>>
  BY DEF Refuse, Waits, Waiting
<1>2. /\ served \in Call /\ served.kind = call[c].kind /\ served.goal = call[c].goal
      /\ served.status = "error" /\ call' = [call EXCEPT ![c] = served]
  BY <1>1, ServedCall DEF ListInv, ListTypeOK, Statuses
<1>3. /\ call' \in [Slots -> Call \cup {None}]
      /\ call'[c] = served
      /\ \A d \in Slots \ {c} : call'[d] = call[d]
      /\ \A d \in Slots : Proper(d)'
  <2>1. call[c].kind # "list" => call[c].goal = call[c].kind
    BY <1>1 DEF ListInv, Proper
  <2> HIDE DEF served
  <2> QED BY <1>1, <1>2, <2>1, CallProper
<1>4. \A d \in Slots : Renews(d) => Renews(d)'
  <2>1. Renews(c) => Renews(c)'
    BY <1>1, <1>2, <1>3 DEF Renews, Made
  <2> QED BY <1>1, <1>3, <2>1 DEF Renews, Made
<1>5. ListTypeOK'
  BY <1>1, <1>3 DEF ListInv, ListTypeOK
<1> QED BY <1>1, <1>3, <1>4, <1>5 DEF ListInv, Renewed

\* The table changes.
LEMMA TableChanges ==
    ASSUME ListInv, NEW table \in Tables, Changed(table)
    PROVE  /\ rows' \in Tables /\ version' \in 0..MaxChanges
           /\ shown.version <= version'
           /\ version < version'
           /\ \A d \in Slots : Proper(d) /\ call'[d] = call[d] => Proper(d)'
<1>1. version \in Nat /\ version' = version + 1 /\ version' <= MaxChanges /\ rows' = table
  BY DEF ListInv, ListTypeOK, Changed
<1>2. \A list \in List : list.version \in Nat
  BY DEF List
<1> QED BY <1>1, <1>2 DEF ListInv, ListTypeOK, Proper

LEMMA ServeKept ==
    ASSUME ListInv, NEW c \in Slots, Waits(c), call[c].kind # "list", NEW table \in Tables, Serve(c, table)
    PROVE  ListInv'
<1> DEFINE served == [call[c] EXCEPT !.status = "ok"]
<1>1. /\ call[c] # None
      /\ call' = [call EXCEPT ![c].status = "ok"]
      /\ UNCHANGED <<shown, spinner, stray>> /\ Note(FALSE) /\ Changed(table)
  BY DEF Serve, Waits, Waiting
<1>2. /\ served \in Call /\ served.kind = call[c].kind /\ served.goal = call[c].goal
      /\ served.status = "ok" /\ call' = [call EXCEPT ![c] = served]
  BY <1>1, ServedCall DEF ListInv, ListTypeOK, Statuses
<1>3. /\ call' \in [Slots -> Call \cup {None}]
      /\ call'[c] = served
      /\ \A d \in Slots \ {c} : call'[d] = call[d]
  BY <1>2, CallMoves DEF ListInv, ListTypeOK
<1>4. Proper(c)
  BY DEF ListInv
<1>5. Proper(c)' /\ Renews(c)'
  <2>1. call'[c] # None
    BY <1>2, <1>3
  <2> HIDE DEF served
  <2> QED BY <1>1, <1>2, <1>3, <1>4, <2>1 DEF Proper, Renews, Made
<1>6. \A d \in Slots : Proper(d)'
  BY <1>1, <1>3, <1>5, TableChanges DEF ListInv
<1>7. excused' \in BOOLEAN
  BY <1>1, Noted
<1>8. rows' \in Tables /\ version' \in 0..MaxChanges /\ shown.version <= version'
  BY <1>1, TableChanges
<1>9. ListTypeOK'
  BY <1>1, <1>3, <1>7, <1>8 DEF ListInv, ListTypeOK
<1> QED BY <1>1, <1>5, <1>6, <1>8, <1>9 DEF ListInv, Renewed

LEMMA ElsewhereKept ==
    ASSUME ListInv, NEW table \in Tables, Changed(table), stray' \subseteq stray,
           UNCHANGED <<shown, spinner, call>>, Note(TRUE)
    PROVE  ListInv'
<1>1. /\ rows' \in Tables /\ version' \in 0..MaxChanges /\ shown.version <= version'
      /\ \A d \in Slots : Proper(d)'
  BY TableChanges DEF ListInv
<1>2. excused' \in BOOLEAN /\ Renewed'
  BY Noted DEF Renewed
<1>3. ListTypeOK'
  BY <1>1, <1>2 DEF ListInv, ListTypeOK
<1> QED BY <1>1, <1>2, <1>3 DEF ListInv

LEMMA DropKept ==
    ASSUME ListInv, stray' \subseteq stray, UNCHANGED <<rows, version, shown, spinner, call, excused>>
    PROVE  ListInv'
<1>1. ListTypeOK'
  BY DEF ListInv, ListTypeOK
<1>2. (\A d \in Slots : Proper(d)') /\ Renewed'
  BY DEF ListInv, Proper, Renewed, Renews, Made
<1> QED BY <1>1, <1>2 DEF ListInv

\* What other administrators leave is a table of theirs.
LEMMA OthersTable ==
    ASSUME ListInv, OtherAdministrator
    PROVE  \E table \in Tables : Changed(table) /\ Len(rows) <= Len(table)
<1>1. rows \in Tables /\ Len(rows) \in Nat
  BY TablesAreSeqs DEF ListInv, ListTypeOK
<1>2. CASE \E text \in Texts : Changed(Inserted(text))
  <2>1. PICK text \in Texts : Changed(Inserted(text))
    BY <1>2
  <2>2. Inserted(text) \in Tables /\ Len(Inserted(text)) = Len(rows) + 1
    BY <1>1, <2>1, InsertedTable DEF Changed, Content
  <2> QED BY <1>1, <2>1, <2>2
<1>3. CASE \E id \in Stored : Changed(Deleted(id))
  <2>1. PICK id \in Stored : Changed(Deleted(id))
    BY <1>3
  <2>2. Deleted(id) \in Tables /\ Len(Deleted(id)) = Len(rows)
    BY <1>1, ExceptTable DEF Deleted, Content
  <2> QED BY <1>1, <2>1, <2>2
<1> QED BY <1>2, <1>3 DEF OtherAdministrator

LEMMA OthersKept ==
    ASSUME ListInv, OtherAdministrator
    PROVE  ListInv'
BY OthersTable, ElsewhereKept DEF OtherAdministrator

-----------------------------------------------------------------------------
(* The handlers under way, by what they are about. *)

LEMMA UnderAtFirst ==
    ASSUME ListInit, NEW goals, goals \subseteq Changes
    PROVE  Under(goals) = {}
<1>1. PICK c \in Slots : call = [d \in Slots |-> IF d = c THEN Asks("list", "mount", None, None) ELSE None]
  BY DEF ListInit, Mounting
<1>2. Asks("list", "mount", None, None).goal = "mount" /\ "mount" \notin goals
  BY AskedType DEF Changes, Content
<1> QED BY <1>1, <1>2 DEF Under

LEMMA UnderMounted ==
    ASSUME MountList, NEW goals, goals \subseteq Changes
    PROVE  Under(goals)' = {}
<1>1. PICK c \in Slots :
        /\ call'[c] = Asks("list", "mount", None, None)
        /\ \A d \in Slots \ {c} : call'[d] = None
  BY MountedCalls DEF MountList
<1>2. Asks("list", "mount", None, None).goal = "mount" /\ "mount" \notin goals
  BY AskedType DEF Changes, Content
<1> QED BY <1>1, <1>2 DEF Under

LEMMA UnderGains ==
    ASSUME ListInv, NEW kind \in Changes, NEW id \in Ids \cup {None}, NEW text \in Content, Send(kind, id, text)
    PROVE  \E c \in Slots : \A goals :
             /\ c \notin Under(goals)
             /\ Under(goals)' = Under(goals) \cup (IF kind \in goals THEN {c} ELSE {})
<1>1. PICK c \in Slots : call[c] = None /\ call' = [call EXCEPT ![c] = Asks(kind, kind, id, text)]
  BY DEF Send
<1>2. Asks(kind, kind, id, text) \in Call /\ Asks(kind, kind, id, text) # None
      /\ Asks(kind, kind, id, text).goal = kind
  BY AskedType DEF Changes
<1>3. /\ call'[c] = Asks(kind, kind, id, text)
      /\ \A d \in Slots \ {c} : call'[d] = call[d]
  BY <1>1, <1>2, CallMoves DEF ListInv, ListTypeOK
<1>4. ASSUME NEW goals
      PROVE  /\ c \notin Under(goals)
             /\ Under(goals)' = Under(goals) \cup (IF kind \in goals THEN {c} ELSE {})
  BY <1>1, <1>2, <1>3 DEF Under
<1> QED BY <1>4

LEMMA UnderLoses ==
    ASSUME ListInv, NEW c \in Slots, ChangeReply(c, FALSE) \/ \E ok \in BOOLEAN : ListReply(c, ok), NEW goals
    PROVE  /\ Under(goals)' = Under(goals) \ {c}
           /\ c \in Under(goals) <=> call[c].goal \in goals
           /\ ChangeReply(c, FALSE) => call[c].goal = call[c].kind
<1>1. call[c] # None /\ call' = [call EXCEPT ![c] = None]
  BY DEF ChangeReply, ListReply, Answered, Over
<1>2. /\ call'[c] = None
      /\ \A d \in Slots \ {c} : call'[d] = call[d]
  BY <1>1, CallMoves DEF ListInv, ListTypeOK
<1>3. ChangeReply(c, FALSE) => call[c].goal = call[c].kind
  BY <1>1 DEF ChangeReply, ListInv, Proper
<1> QED BY <1>1, <1>2, <1>3 DEF Under

LEMMA UnderStays ==
    ASSUME ListInv, NEW c \in Slots, NEW goals,
           ChangeReply(c, TRUE) \/ ServeList(c) \/ Refuse(c) \/ \E table : Serve(c, table) /\ Waits(c)
    PROVE  Under(goals)' = Under(goals)
<1>1. call[c] # None
  BY DEF ChangeReply, ServeList, Refuse, Answered, Over, Waits, Waiting
<1>2. call[c] \in Call
  BY <1>1 DEF ListInv, ListTypeOK
<1>3. \E left \in Call :
        /\ left # None /\ left.goal = call[c].goal
        /\ call' = [call EXCEPT ![c] = left]
  <2>1. CASE ChangeReply(c, TRUE)
    <3> QED BY <1>2, <2>1, RefetchedCall DEF ChangeReply
  <2>2. CASE ServeList(c)
    <3> DEFINE list == [rows |-> rows, version |-> version]
    <3>1. call' = [call EXCEPT ![c].status = "ok", ![c].answer = list]
      BY <2>2 DEF ServeList
    <3>2. list \in List
      BY DEF ListInv, ListTypeOK, List
    <3> DEFINE served == [call[c] EXCEPT !.status = "ok", !.answer = list]
    <3>3. /\ served \in Call /\ served.goal = call[c].goal
          /\ call' = [call EXCEPT ![c] = served]
      BY <1>1, <3>1, <3>2, ListedCall DEF ListInv, ListTypeOK
    <3> HIDE DEF served
    <3> QED BY <3>3, NoneIsNew
  <2>3. ASSUME NEW status \in {"ok", "error"}, call' = [call EXCEPT ![c].status = status]
        PROVE  \E left \in Call :
                 /\ left # None /\ left.goal = call[c].goal
                 /\ call' = [call EXCEPT ![c] = left]
    BY <1>1, <2>3, ServedCall DEF ListInv, ListTypeOK, Statuses
  <2> QED BY <2>1, <2>2, <2>3 DEF Refuse, Serve
<1>4. PICK left \in Call :
        /\ left # None /\ left.goal = call[c].goal
        /\ call' = [call EXCEPT ![c] = left]
  BY <1>3
<1>5. /\ call'[c] = left
      /\ \A d \in Slots \ {c} : call'[d] = call[d]
  BY <1>4, CallMoves DEF ListInv, ListTypeOK
<1> QED BY <1>1, <1>4, <1>5 DEF Under

Alone(goals) == \A c, d \in Under(goals) : c = d

-----------------------------------------------------------------------------
(* The domains. *)

DomainsInv ==
    /\ ListInv
    /\ DomainsTypeOK
    /\ Alone({"add"})

\* What the marks of the card say, in terms of Under.
DomainsMarks ==
    /\ newDomain \in Texts \cup {None} /\ adding \in BOOLEAN
    /\ deletingId \in Ids \cup {None}
    /\ adding <=> Under({"add"}) # {}
    /\ deletingId # None => Under({"delete"}) # {}
    /\ Alone({"add"})

LEMMA DomainsMarked == DomainsInv <=> ListInv /\ DomainsMarks
BY DEF DomainsInv, DomainsMarks, DomainsTypeOK, ListInv, Under

LEMMA DomainsMarkedNext == DomainsInv' <=> ListInv' /\ DomainsMarks'
BY DEF DomainsInv, DomainsMarks, DomainsTypeOK, ListInv, Under

LEMMA DomainsInitInv == ListInit /\ DomainsInit => DomainsInv
<1> SUFFICES ASSUME ListInit, DomainsInit
             PROVE  DomainsInv
  OBVIOUS
<1>1. ListInv
  BY ListInitInv
<1>2. Under({"add"}) = {}
  BY UnderAtFirst DEF Changes
<1> QED BY <1>1, <1>2, DomainsMarked DEF DomainsInit, DomainsMarks, Alone

LEMMA OfferedIds == ASSUME ListInv PROVE Offered \subseteq Ids
<1>1. shown.rows \in Tables
  BY DEF ListInv, ListTypeOK, List
<1>2. PICK n \in 0..MaxRows : shown.rows \in [1..n -> Texts \cup {None}]
  BY <1>1 DEF Tables
<1> QED BY <1>2 DEF Offered, Ids

LEMMA StoredIds == ASSUME ListInv PROVE Stored \subseteq Ids
<1>1. PICK n \in 0..MaxRows : rows \in [1..n -> Texts \cup {None}]
  BY DEF ListInv, ListTypeOK, Tables
<1> QED BY <1>1 DEF Stored, Ids

LEMMA OutcomeTable ==
    ASSUME ListInv, NEW a \in Call, Changed(Outcome(a))
    PROVE  Outcome(a) \in Tables
<1>1. CASE a.kind = "add"
  <2>1. a.text \in Content
    BY DEF Call, Content
  <2> QED BY <1>1, <2>1, InsertedTable DEF ListInv, ListTypeOK, Outcome, Changed
<1>2. CASE a.kind # "add"
  BY <1>2, ExceptTable DEF ListInv, ListTypeOK, Outcome, Deleted, Content
<1> QED BY <1>1, <1>2

LEMMA DomainsReplyKept ==
    ASSUME DomainsInv, NEW c \in Slots, DomainsReply(c)
    PROVE  DomainsInv'
<1>1. ListInv /\ DomainsMarks
  BY DomainsMarked
<1>2. CASE DomainsChanged(c)
  <2>1. ListInv'
    BY <1>1, <1>2, ChangeReplyKept DEF DomainsChanged
  <2>2. Under({"add"})' = Under({"add"}) /\ Under({"delete"})' = Under({"delete"})
    BY <1>1, <1>2, UnderStays DEF DomainsChanged
  <2>3. newDomain' \in Texts \cup {None} /\ UNCHANGED <<adding, deletingId>>
    BY <1>1, <1>2 DEF DomainsChanged, DomainsMarks
  <2> QED BY <1>1, <2>1, <2>2, <2>3, DomainsMarkedNext DEF DomainsMarks, Alone
<1>3. ASSUME ChangeReply(c, FALSE) \/ \E ok \in BOOLEAN : ListReply(c, ok),
             UNCHANGED newDomain, DomainsDone(call[c].goal)
      PROVE  DomainsInv'
  <2>1. ListInv'
    BY <1>1, <1>3, ChangeReplyKept, ListReplyKept
  <2>2. /\ Under({"add"})' = Under({"add"}) \ {c} /\ Under({"delete"})' = Under({"delete"}) \ {c}
        /\ c \in Under({"add"}) <=> call[c].goal = "add"
        /\ c \in Under({"delete"}) <=> call[c].goal = "delete"
    BY <1>1, <1>3, UnderLoses
  <2>3. Alone({"add"})' /\ (adding' <=> Under({"add"})' # {}) /\ adding' \in BOOLEAN
    BY <1>1, <1>3, <2>2 DEF DomainsMarks, Alone, DomainsDone
  <2>4. deletingId' \in Ids \cup {None} /\ (deletingId' # None => Under({"delete"})' # {})
    BY <1>1, <1>3, <2>2 DEF DomainsMarks, DomainsDone
  <2> QED BY <1>1, <1>3, <2>1, <2>3, <2>4, DomainsMarkedNext DEF DomainsMarks
<1>4. CASE DomainsFailed(c)
  <2>1. call[c].goal = call[c].kind
    BY <1>1, <1>4, UnderLoses DEF DomainsFailed
  <2> QED BY <1>3, <1>4, <2>1 DEF DomainsFailed
<1>5. CASE DomainsListed(c)
  BY <1>3, <1>5 DEF DomainsListed
<1> QED BY <1>2, <1>4, <1>5 DEF DomainsReply

LEMMA DomainsServeKept ==
    ASSUME DomainsInv, NEW c \in Slots, DomainsServe(c)
    PROVE  DomainsInv'
<1>1. ListInv /\ DomainsMarks /\ UNCHANGED domainsVars
  BY DomainsMarked DEF DomainsServe
<1>2. ServeList(c) \/ Refuse(c) \/ (Serve(c, Outcome(call[c])) /\ Waits(c) /\ call[c].kind # "list")
  BY DEF DomainsServe
<1>3. ListInv'
  <2>1. ASSUME Serve(c, Outcome(call[c])), Waits(c), call[c].kind # "list"
        PROVE  ListInv'
    <3>1. call[c] \in Call
      BY <1>1, <2>1 DEF Waits, Waiting, ListInv, ListTypeOK
    <3>2. Outcome(call[c]) \in Tables
      BY <1>1, <2>1, <3>1, OutcomeTable DEF Serve
    <3> QED BY <1>1, <2>1, <3>2, ServeKept
  <2> QED BY <1>1, <1>2, <2>1, ServeListKept, RefuseKept
<1>4. Under({"add"})' = Under({"add"}) /\ Under({"delete"})' = Under({"delete"})
  BY <1>1, <1>2, UnderStays
<1> QED BY <1>1, <1>3, <1>4, DomainsMarkedNext DEF DomainsMarks, Alone, domainsVars

LEMMA DomainsKept ==
    ASSUME DomainsInv, DomainsNext
    PROVE  DomainsInv'
<1>1. ListInv /\ DomainsMarks
  BY DomainsMarked
<1>2. ASSUME ListInv', UNCHANGED <<call, adding, deletingId>>, newDomain' \in Texts \cup {None}
      PROVE  DomainsInv'
  BY <1>1, <1>2, DomainsMarkedNext DEF DomainsMarks, Alone, Under
<1>3. CASE DomainsMount
  <2>1. ListInv' /\ Under({"add"})' = {}
    BY <1>1, <1>3, MountKept, UnderMounted DEF DomainsMount, Changes
  <2> QED BY <1>3, <2>1, DomainsMarkedNext DEF DomainsMarks, DomainsMount, Alone
<1>4. CASE EnterDomain
  <2>1. ListInv'
    BY <1>1, <1>4 DEF EnterDomain, listVars, ListInv, ListTypeOK, Proper, Renewed, Renews, Made
  <2> QED BY <1>2, <1>4, <2>1 DEF EnterDomain, listVars
<1>5. CASE AddDomain
  <2>1. newDomain \in Content /\ "add" \in Changes /\ Send("add", None, newDomain)
    BY <1>1, <1>5 DEF DomainsMarks, Content, Changes, AddDomain
  <2>2. ListInv'
    BY <1>1, <2>1, SendKept
  <2>3. PICK c \in Slots : \A goals :
          /\ c \notin Under(goals)
          /\ Under(goals)' = Under(goals) \cup (IF "add" \in goals THEN {c} ELSE {})
    BY <1>1, <2>1, UnderGains
  <2>4. Under({"add"})' = {c} /\ Under({"delete"})' = Under({"delete"})
    BY <1>1, <1>5, <2>3 DEF DomainsMarks, AddDomain
  <2> QED BY <1>1, <1>5, <2>2, <2>4, DomainsMarkedNext DEF DomainsMarks, AddDomain, Alone
<1>6. ASSUME NEW i \in Offered, DeleteDomain(i)
      PROVE  DomainsInv'
  <2>1. i \in Ids /\ None \in Content /\ "delete" \in Changes /\ Send("delete", i, None)
    BY <1>1, <1>6, OfferedIds DEF Content, Changes, DeleteDomain
  <2>2. ListInv'
    BY <1>1, <2>1, SendKept
  <2>3. PICK c \in Slots : \A goals :
          /\ c \notin Under(goals)
          /\ Under(goals)' = Under(goals) \cup (IF "delete" \in goals THEN {c} ELSE {})
    BY <1>1, <2>1, UnderGains
  <2>4. c \in Under({"delete"})' /\ Under({"add"})' = Under({"add"})
    BY <2>3
  <2> QED BY <1>1, <1>6, <2>1, <2>2, <2>4, DomainsMarkedNext DEF DomainsMarks, DeleteDomain, Alone
<1>7. CASE DomainsStray
  <2>1. UNCHANGED domainsVars
    BY <1>7 DEF DomainsStray
  <2>2. CASE DropStray
    <3>1. ListInv' /\ UNCHANGED call
      BY <1>1, <2>2, DropKept DEF DropStray
    <3> QED BY <1>1, <1>2, <2>1, <3>1 DEF domainsVars, DomainsMarks
  <2>3. ASSUME NEW s \in stray, ServeStray(s, Outcome(s))
        PROVE  DomainsInv'
    <3>1. s \in Call
      BY <1>1 DEF ListInv, ListTypeOK
    <3>2. Outcome(s) \in Tables
      BY <1>1, <2>3, <3>1, OutcomeTable DEF ServeStray
    <3>3. ListInv' /\ UNCHANGED call
      BY <1>1, <2>3, <3>2, ElsewhereKept DEF ServeStray
    <3> QED BY <1>1, <1>2, <2>1, <3>3 DEF domainsVars, DomainsMarks
  <2> QED BY <1>7, <2>2, <2>3 DEF DomainsStray
<1>8. CASE OtherAdministrator /\ UNCHANGED domainsVars
  <2>1. ListInv' /\ UNCHANGED call
    BY <1>1, <1>8, OthersKept DEF OtherAdministrator
  <2> QED BY <1>1, <1>2, <1>8, <2>1 DEF domainsVars, DomainsMarks
<1> QED BY <1>3, <1>4, <1>5, <1>6, <1>7, <1>8, DomainsReplyKept, DomainsServeKept DEF DomainsNext

-----------------------------------------------------------------------------
(* The settings.  The switch shows the mode, or a status that does is still to come, or a
   click that the server has agreed to is still to move it. *)

SwitchKnows ==
    "only" \in doubtful \/
        /\ loadCall # None /\ loadCall.answer # None => loadCall.answer.only = settings.only
        /\ loadCall = None /\ ~(saveCall # None /\ saveCall.status = "ok") => copy.only = settings.only
        /\ saveCall # None /\ saveCall.status = "ok" => saveCall.wish.only = settings.only

(* The control card is the row but for what was edited, or has not got it yet; so is what
   a save under way would write. *)

ControlKnows ==
    /\ loadCall # None =>
         /\ copy = Defaults /\ saveCall = None
         /\ loadCall.answer # None => \A f \in Control \ doubtful : loadCall.answer[f] = settings[f]
    /\ saveCall # None =>
         /\ saveCall.meant \subseteq touched
         /\ saveCall.status = "pending" =>
              \A f \in Control \ (doubtful \cup saveCall.meant) : saveCall.wish[f] = settings[f]
    /\ loadCall = None => \A f \in Control \ (doubtful \cup touched) : copy[f] = settings[f]

SettingsInv ==
    /\ SettingsTypeOK
    /\ loadCall # None /\ loadCall.status = "ok" => loadCall.answer # None
    /\ cached \notin {None, settings} => overlap

LEMMA WrittenValues ==
    ASSUME settings \in Values, NEW wish \in Values, NEW fields
    PROVE  /\ Written(wish, fields) \in Values
           /\ \A f \in Fields : Written(wish, fields)[f] = IF f \in fields THEN wish[f] ELSE settings[f]
BY DEF Written, Fields, Values

LEMMA TakenValues ==
    ASSUME copy \in Values, NEW answer \in Values, NEW fields
    PROVE  /\ Taken(answer, fields) \in Values
           /\ \A f \in Fields : Taken(answer, fields)[f] =
                IF f \in fields /\ (f = "ends" => answer.ends # None) THEN answer[f] ELSE copy[f]
BY DEF Taken, Fields, Values

LEMMA LoadingType == Loading \in Loads /\ Loading # None /\ Loading.status = "pending" /\ Defaults \in Values
<1>1. Loading \in Loads /\ Loading.status = "pending" /\ Defaults \in Values
  BY DEF Loading, Loads, Statuses, Defaults, Values
<1> QED BY <1>1

LEMMA SettingsInitInv == SettingsInit => SettingsInv
BY LoadingType DEF SettingsInit, SettingsInv, SettingsTypeOK

\* A row stored in the cache is wrong only if the fill overlapped a write.
LEMMA Filled ==
    ASSUME NEW row \in Values, Fill(row)
    PROVE  /\ cached' \in Values \cup {None} /\ overlap' \in BOOLEAN
           /\ cached' \notin {None, settings} => overlap'
<1>1. cached' = row /\ (overlap' <=> row # settings) /\ overlap' \in BOOLEAN
  <2>1. cached' = row /\ overlap' = (row # settings)
    BY DEF Fill
  <2>2. (row # settings) \in BOOLEAN
    OBVIOUS
  <2> QED BY <2>1, <2>2, Zenon
<1> QED BY <1>1

\* What the server does to a status call under way.
LEMMA LoadServed ==
    ASSUME SettingsInv, NEW fields \in {Control, Switch}, ServeLoad(fields)
    PROVE  /\ SettingsInv'
           /\ loadCall # None /\ loadCall' # None /\ UNCHANGED <<settings, copy, saveCall, touched>>
           /\ doubtful \subseteq doubtful'
           /\ loadCall'.answer # None =>
                \/ loadCall.answer # None /\ loadCall'.answer = loadCall.answer
                \/ loadCall'.answer \in Values /\ \A f \in fields \ doubtful' : loadCall'.answer[f] = settings[f]
<1>1. /\ settings \in Values /\ copy \in Values /\ cached \in Values \cup {None}
      /\ held \in [Readers -> Values \cup {None}] /\ overlap \in BOOLEAN
      /\ loadCall \in Loads \cup {None} /\ saveCall \in Saves \cup {None}
      /\ late \subseteq Values /\ touched \subseteq Fields /\ doubtful \subseteq Fields
      /\ loadCall # None /\ loadCall.status = "ok" => loadCall.answer # None
      /\ cached \notin {None, settings} => overlap
      /\ fields \subseteq Fields
  BY DEF SettingsInv, SettingsTypeOK, Control, Switch, Fields
<1>2. loadCall \in Loads /\ loadCall # None /\ loadCall.status = "pending"
  BY <1>1 DEF ServeLoad, LoadHit, LoadMiss, LoadFill, LoadError, Waiting
<1>3. CASE LoadHit(fields)
  <2>1. /\ cached # None /\ loadCall' = [status |-> "ok", answer |-> cached]
        /\ doubtful' = (IF overlap THEN doubtful \cup {f \in fields : cached[f] # settings[f]} ELSE doubtful)
        /\ UNCHANGED <<settings, cached, held, overlap, copy, saveCall, late, touched>>
    BY <1>3 DEF LoadHit, cache
  <2>2. loadCall' \in Loads /\ loadCall'.answer = cached /\ loadCall' # None
    BY <1>1, <2>1, NoneIsNoCall DEF Loads, Statuses
  <2>3. doubtful' \subseteq Fields /\ doubtful \subseteq doubtful'
    BY <1>1, <2>1
  <2>4. \A f \in fields \ doubtful' : cached[f] = settings[f]
    BY <1>1, <2>1
  <2> QED BY <1>1, <1>2, <2>1, <2>2, <2>3, <2>4 DEF SettingsInv, SettingsTypeOK
<1>4. CASE LoadMiss
  <2>1. /\ loadCall' = [loadCall EXCEPT !.answer = settings]
        /\ UNCHANGED <<settings, cached, held, overlap, copy, saveCall, late, touched, doubtful>>
    BY <1>4 DEF LoadMiss, cache
  <2>2. /\ loadCall' \in Loads /\ loadCall'.answer = settings /\ loadCall' # None
        /\ settings # None
    BY <1>1, <1>2, <2>1, NoneIsNoCall, NoneIsNoRow DEF Loads
  <2> QED BY <1>1, <1>2, <2>1, <2>2 DEF SettingsInv, SettingsTypeOK
<1>5. CASE LoadFill
  <2>1. /\ loadCall' = [loadCall EXCEPT !.status = "ok"] /\ loadCall.answer # None
        /\ UNCHANGED <<settings, held, copy, saveCall, late, touched, doubtful>>
        /\ \/ Fill(loadCall.answer)
           \/ UNCHANGED <<cached, overlap>>
    BY <1>5 DEF LoadFill
  <2>2. /\ loadCall' \in Loads /\ loadCall'.answer = loadCall.answer /\ loadCall' # None
        /\ loadCall.answer \in Values
    BY <1>2, <2>1, NoneIsNoCall DEF Loads, Statuses
  <2>3. /\ cached' \in Values \cup {None} /\ overlap' \in BOOLEAN
        /\ cached' \notin {None, settings} => overlap'
    <3>1. CASE Fill(loadCall.answer)
      BY <2>2, <3>1, Filled
    <3>2. CASE UNCHANGED <<cached, overlap>>
      BY <1>1, <3>2
    <3> QED BY <2>1, <3>1, <3>2
  <2> QED BY <1>1, <1>2, <2>1, <2>2, <2>3 DEF SettingsInv, SettingsTypeOK
<1>6. CASE LoadError
  <2>1. /\ loadCall' = [loadCall EXCEPT !.status = "error"] /\ loadCall.answer = None
        /\ UNCHANGED <<settings, cached, held, overlap, copy, saveCall, late, touched, doubtful>>
    BY <1>6 DEF LoadError, cache
  <2>2. /\ loadCall' \in Loads /\ loadCall'.answer = None /\ loadCall'.status = "error" /\ loadCall' # None
    BY <1>2, <2>1, NoneIsNoCall DEF Loads, Statuses
  <2> QED BY <1>1, <1>2, <2>1, <2>2 DEF SettingsInv, SettingsTypeOK
<1> QED BY <1>3, <1>4, <1>5, <1>6 DEF ServeLoad

\* What an update does to the row and its cached copy.
LEMMA RowUpdated ==
    ASSUME settings \in Values, cached \in Values \cup {None}, overlap \in BOOLEAN, NEW fields,
           NEW wish \in Values, Update(wish, fields)
    PROVE  /\ settings' \in Values /\ cached' \in Values \cup {None} /\ overlap' \in BOOLEAN /\ held' = held
           /\ cached' \notin {None, settings'} => overlap'
           /\ \A f \in Fields : settings'[f] = IF f \in fields THEN wish[f] ELSE settings[f]
<1>1. settings' = Written(wish, fields) /\ Invalidated /\ held' = held
  BY DEF Update
<1>2. /\ cached' \in Values \cup {None} /\ overlap' \in BOOLEAN
      /\ cached' \notin {None, settings'} => overlap'
  <2>1. CASE cached' = None /\ overlap' = FALSE
    BY <2>1
  <2>2. CASE cached' = cached /\ overlap' = TRUE
    BY <2>2
  <2> QED BY <1>1, <2>1, <2>2 DEF Invalidated
<1> QED BY <1>1, <1>2, WrittenValues

\* The other readers, and Redis.
LEMMA CacheMoved ==
    ASSUME SettingsInv, RedisRestart \/ \E r \in Readers : OtherMiss(r) \/ OtherFill(r)
    PROVE  SettingsInv' /\ UNCHANGED <<settings, copy, loadCall, saveCall, late, touched, doubtful>>
<1>1. /\ settings \in Values /\ cached \in Values \cup {None}
      /\ held \in [Readers -> Values \cup {None}] /\ overlap \in BOOLEAN
      /\ cached \notin {None, settings} => overlap
  BY DEF SettingsInv, SettingsTypeOK
<1>2. UNCHANGED <<settings, copy, loadCall, saveCall, late, touched, doubtful>>
  BY DEF RedisRestart, OtherMiss, OtherFill
<1>3. /\ cached' \in Values \cup {None} /\ held' \in [Readers -> Values \cup {None}] /\ overlap' \in BOOLEAN
      /\ cached' \notin {None, settings} => overlap'
  <2>1. CASE RedisRestart
    BY <1>1, <2>1 DEF RedisRestart
  <2>2. ASSUME NEW r \in Readers, OtherMiss(r)
        PROVE  /\ cached' \in Values \cup {None} /\ held' \in [Readers -> Values \cup {None}]
               /\ overlap' \in BOOLEAN /\ (cached' \notin {None, settings} => overlap')
    BY <1>1, <2>2 DEF OtherMiss
  <2>3. ASSUME NEW r \in Readers, OtherFill(r)
        PROVE  /\ cached' \in Values \cup {None} /\ held' \in [Readers -> Values \cup {None}]
               /\ overlap' \in BOOLEAN /\ (cached' \notin {None, settings} => overlap')
    <3>1. held[r] \in Values /\ held' \in [Readers -> Values \cup {None}]
      BY <1>1, <2>3 DEF OtherFill
    <3>2. CASE Fill(held[r])
      BY <3>1, <3>2, Filled
    <3>3. CASE UNCHANGED <<cached, overlap>>
      BY <1>1, <3>1, <3>3
    <3> QED BY <2>3, <3>2, <3>1, <3>3 DEF OtherFill
  <2> QED BY <2>1, <2>2, <2>3
<1> QED BY <1>1, <1>2, <1>3 DEF SettingsInv, SettingsTypeOK

LEMMA SettingsTyped ==
    ASSUME SettingsInv, NEW fields \in {Control, Switch}, SettingsNext(fields)
    PROVE  SettingsInv'
<1>1. fields \subseteq Fields
  BY DEF Control, Switch, Fields
<1>2. /\ settings \in Values /\ copy \in Values
      /\ loadCall \in Loads \cup {None} /\ saveCall \in Saves \cup {None}
      /\ late \subseteq Values /\ touched \subseteq Fields /\ doubtful \subseteq Fields
      /\ loadCall # None /\ loadCall.status = "ok" => loadCall.answer # None
      /\ cached \in Values \cup {None} /\ held \in [Readers -> Values \cup {None}] /\ overlap \in BOOLEAN
      /\ cached \notin {None, settings} => overlap
  BY DEF SettingsInv, SettingsTypeOK
<1>3. Abandoned \subseteq Values
  BY <1>2 DEF Abandoned, Waiting, Saves
<1>4. CASE SettingsMount
  BY <1>2, <1>3, <1>4, LoadingType DEF SettingsMount, SettingsInv, SettingsTypeOK, cache
<1>5. ASSUME NEW wish \in Values, NEW meant \in SUBSET Fields, Put(wish, meant)
      PROVE  SettingsInv'
  <2>1. [status |-> "pending", wish |-> wish, meant |-> meant] \in Saves
    BY <1>5 DEF Saves, Statuses
  <2> QED BY <1>2, <1>5, <2>1 DEF Put, SettingsInv, SettingsTypeOK, cache
<1>6. CASE ToggleMode
  <2>1. [copy EXCEPT !.only = ~@] \in Values /\ Switch \in SUBSET Fields
    BY <1>2 DEF Values, Switch, Fields
  <2> QED BY <1>5, <1>6, <2>1 DEF ToggleMode
<1>7. CASE Edit
  <2>1. copy' \in Values /\ touched' \subseteq Fields
    BY <1>2, <1>7 DEF Edit, Values, Fields
  <2> QED BY <1>2, <1>7, <2>1 DEF Edit, SettingsInv, SettingsTypeOK, cache
<1>8. CASE Save
  BY <1>2, <1>5, <1>8 DEF Save
<1>9. CASE LoadReply(fields)
  <2>1. ASSUME Over(loadCall, TRUE)
        PROVE  Taken(loadCall.answer, fields) \in Values
    <3>1. loadCall.answer \in Values
      BY <1>2, <2>1 DEF Over, Loads
    <3> QED BY <1>2, <3>1, TakenValues
  <2>2. copy' \in Values /\ doubtful' \subseteq Fields
    BY <1>1, <1>2, <1>9, <2>1 DEF LoadReply
  <2> QED BY <1>2, <1>9, <2>2 DEF LoadReply, SettingsInv, SettingsTypeOK, cache
<1>10. CASE SaveReply(fields)
  <2>1. PICK ok \in BOOLEAN :
         /\ Over(saveCall, ok)
         /\ copy' = (IF fields = Switch THEN [copy EXCEPT !.only = Moved(ok, saveCall.wish)] ELSE copy)
         /\ doubtful' = (IF ~ok /\ saveCall.status = "ok" THEN doubtful \cup (fields \cap Switch) ELSE doubtful)
    BY <1>10 DEF SaveReply
  <2>2. saveCall.wish \in Values
    BY <1>2, <2>1 DEF Over, Saves
  <2>3. Moved(ok, saveCall.wish) \in BOOLEAN
    BY <1>2, <2>2 DEF Moved, Values
  <2>4. copy' \in Values
    BY <1>2, <2>1, <2>3 DEF Values
  <2> QED BY <1>1, <1>2, <1>3, <1>10, <2>1, <2>4 DEF SaveReply, SettingsInv, SettingsTypeOK, cache
<1>11. CASE ServeLoad(fields)
  BY <1>11, LoadServed
<1>12. CASE ServeSave(fields)
  <2>1. saveCall \in Saves
    BY <1>2, <1>12 DEF ServeSave, Waiting
  <2>2. saveCall' \in Saves /\ saveCall.wish \in Values
    BY <1>12, <2>1 DEF ServeSave, Saves, Statuses
  <2>3. UNCHANGED <<copy, loadCall, late, touched>> /\ doubtful' \subseteq Fields
    BY <1>1, <1>2, <1>12 DEF ServeSave, Overtaken
  <2>4. CASE Update(saveCall.wish, fields)
    BY <1>2, <2>2, <2>3, <2>4, RowUpdated DEF SettingsInv, SettingsTypeOK
  <2>5. CASE UNCHANGED <<settings, cache>>
    BY <1>2, <2>2, <2>3, <2>5 DEF SettingsInv, SettingsTypeOK, cache
  <2> QED BY <1>12, <2>4, <2>5 DEF ServeSave
<1>13. CASE ServeLate(fields)
  <2>1. PICK wish \in late :
         /\ late' = late \ {wish}
         /\ \/ UNCHANGED <<settings, cache, doubtful>>
            \/ Update(wish, fields) /\ doubtful' = doubtful \cup fields
    BY <1>13 DEF ServeLate
  <2>2. UNCHANGED <<copy, loadCall, saveCall, touched>> /\ late' \subseteq Values /\ wish \in Values
        /\ doubtful' \subseteq Fields
    BY <1>1, <1>2, <1>13, <2>1 DEF ServeLate
  <2>3. CASE Update(wish, fields)
    BY <1>2, <2>2, <2>3, RowUpdated DEF SettingsInv, SettingsTypeOK
  <2>4. CASE UNCHANGED <<settings, cache>>
    BY <1>2, <2>2, <2>4 DEF SettingsInv, SettingsTypeOK, cache
  <2> QED BY <2>1, <2>3, <2>4
<1>14. CASE SettingsElsewhere(fields)
  <2>1. PICK wish \in Values : Update(wish, fields)
    BY <1>14 DEF SettingsElsewhere
  <2>2. UNCHANGED <<copy, loadCall, saveCall, late, touched>> /\ doubtful' \subseteq Fields
    BY <1>2, <1>14 DEF SettingsElsewhere
  <2> QED BY <1>2, <2>1, <2>2, RowUpdated DEF SettingsInv, SettingsTypeOK
<1>15. CASE RedisRestart \/ \E r \in Readers : OtherMiss(r) \/ OtherFill(r)
  BY <1>15, CacheMoved
<1> QED
  BY <1>4, <1>6, <1>7, <1>8, <1>9, <1>10, <1>11, <1>12, <1>13, <1>14, <1>15 DEF SettingsNext, SettingsReply

LEMMA SwitchStep ==
    ASSUME SettingsInv, SwitchKnows, SettingsNext(Switch)
    PROVE  SwitchKnows'
<1>1. /\ settings \in Values /\ copy \in Values /\ saveCall \in Saves \cup {None}
      /\ loadCall \in Loads \cup {None} /\ cached \in Values \cup {None} /\ overlap \in BOOLEAN
      /\ late \subseteq Values
      /\ loadCall # None /\ loadCall.status = "ok" => loadCall.answer # None
  BY DEF SettingsInv, SettingsTypeOK
<1>2. CASE SettingsMount
  <2>1. loadCall' = Loading /\ Loading # None /\ Loading.answer = None /\ saveCall' = None
    BY <1>2, LoadingType DEF SettingsMount, Loading
  <2> QED BY <2>1 DEF SwitchKnows
<1>3. CASE ToggleMode
  <2>1. /\ UNCHANGED <<settings, copy, loadCall, doubtful>> /\ saveCall = None
        /\ saveCall'.status = "pending"
    BY <1>3 DEF ToggleMode, Put
  <2> QED BY <2>1 DEF SwitchKnows
<1>4. CASE LoadReply(Switch)
  <2>1. "only" \in Switch /\ "only" \in Fields /\ loadCall # None /\ loadCall' = None
        /\ UNCHANGED <<settings, saveCall>>
    BY <1>4 DEF Switch, Fields, LoadReply, Over
  <2>2. CASE Over(loadCall, TRUE) /\ copy' = Taken(loadCall.answer, Switch) /\ doubtful' = doubtful
    <3>1. loadCall.answer \in Values /\ loadCall.answer # None
      BY <1>1, <2>1, <2>2 DEF Over, Loads
    <3>2. copy'["only"] = loadCall.answer["only"]
      BY <1>1, <2>1, <2>2, <3>1, TakenValues
    <3> QED BY <2>1, <2>2, <3>1, <3>2 DEF SwitchKnows
  <2>3. CASE doubtful' = doubtful \cup Switch
    BY <2>1, <2>3 DEF SwitchKnows
  <2> QED BY <1>4, <2>2, <2>3 DEF LoadReply
<1>5. CASE SaveReply(Switch)
  <2>1. PICK ok \in BOOLEAN :
         /\ Over(saveCall, ok)
         /\ copy' = [copy EXCEPT !.only = Moved(ok, saveCall.wish)]
         /\ doubtful' = (IF ~ok /\ saveCall.status = "ok" THEN doubtful \cup (Switch \cap Switch) ELSE doubtful)
    BY <1>5 DEF SaveReply
  <2>2. "only" \in Switch /\ saveCall # None /\ (ok => saveCall.status = "ok") /\ UNCHANGED <<settings, loadCall>>
    BY <1>5, <2>1 DEF Switch, Over, SaveReply
  <2>3. copy'.only = (IF ok THEN saveCall.wish.only ELSE copy.only) /\ saveCall' = None
    BY <1>1, <1>5, <2>1 DEF Moved, Values, SaveReply
  <2> QED BY <2>1, <2>2, <2>3 DEF SwitchKnows
<1>6. CASE ServeLoad(Switch)
  <2>1. "only" \in Switch /\ Switch \in {Control, Switch}
    BY DEF Switch
  <2>2. /\ loadCall # None /\ loadCall' # None /\ UNCHANGED <<settings, copy, saveCall>>
        /\ doubtful \subseteq doubtful'
        /\ loadCall'.answer # None =>
             \/ loadCall.answer # None /\ loadCall'.answer = loadCall.answer
             \/ loadCall'.answer \in Values /\ \A f \in Switch \ doubtful' : loadCall'.answer[f] = settings[f]
    BY <1>6, <2>1, LoadServed
  <2> QED BY <2>1, <2>2 DEF SwitchKnows
<1>7. CASE ServeSave(Switch)
  <2>1. saveCall \in Saves /\ saveCall # None /\ saveCall.status = "pending" /\ saveCall.wish \in Values
        /\ UNCHANGED <<copy, loadCall>> /\ "only" \in Switch /\ "only" \in Fields
    BY <1>1, <1>7 DEF ServeSave, Waiting, Saves, Switch, Fields
  <2>2. CASE /\ saveCall' = [saveCall EXCEPT !.status = "ok"]
             /\ Update(saveCall.wish, Switch)
             /\ doubtful' = doubtful \cup Overtaken(Switch)
    <3>1. saveCall' \in Saves /\ saveCall'.status = "ok" /\ saveCall'.wish = saveCall.wish
      BY <2>1, <2>2 DEF Saves, Statuses
    <3>2. settings'["only"] = saveCall.wish["only"]
      BY <1>1, <2>1, <2>2, RowUpdated
    <3>3. loadCall # None /\ loadCall.answer # None => "only" \in doubtful'
      BY <2>1, <2>2 DEF Overtaken
    <3> QED BY <2>1, <2>2, <3>1, <3>2, <3>3 DEF SwitchKnows
  <2>3. CASE saveCall' = [saveCall EXCEPT !.status = "error"] /\ UNCHANGED <<settings, cache, doubtful>>
    <3>1. saveCall'.status = "error"
      BY <2>1, <2>3 DEF Saves
    <3> QED BY <2>1, <2>3, <3>1 DEF SwitchKnows
  <2> QED BY <1>7, <2>2, <2>3 DEF ServeSave
<1>8. CASE ServeLate(Switch)
  <2>1. "only" \in Switch
    BY DEF Switch
  <2> QED BY <1>8, <2>1 DEF ServeLate, SwitchKnows
<1>9. CASE SettingsElsewhere(Switch)
  <2>1. "only" \in Fields
    BY DEF Fields
  <2> QED BY <1>9, <2>1 DEF SettingsElsewhere, SwitchKnows
<1>10. CASE RedisRestart \/ \E r \in Readers : OtherMiss(r) \/ OtherFill(r)
  BY <1>10, CacheMoved DEF SwitchKnows
<1> QED BY <1>2, <1>3, <1>4, <1>5, <1>6, <1>7, <1>8, <1>9, <1>10 DEF SettingsNext, SettingsReply

LEMMA ControlStep ==
    ASSUME SettingsInv, ControlKnows, SettingsNext(Control)
    PROVE  ControlKnows'
<1>1. /\ settings \in Values /\ copy \in Values /\ saveCall \in Saves \cup {None}
      /\ loadCall \in Loads \cup {None}
      /\ loadCall # None /\ loadCall.status = "ok" => loadCall.answer # None
      /\ cached \in Values \cup {None} /\ overlap \in BOOLEAN /\ late \subseteq Values
  BY DEF SettingsInv, SettingsTypeOK
<1>2. Control # Switch /\ Control \cap Switch = {} /\ Control \subseteq Fields
  BY DEF Control, Switch, Fields
<1>3. CASE SettingsMount
  <2>1. loadCall' # None /\ loadCall'.answer = None /\ copy' = Defaults /\ saveCall' = None
    BY <1>3, LoadingType DEF SettingsMount, Loading
  <2> QED BY <2>1 DEF ControlKnows
<1>4. CASE Edit
  <2>1. loadCall = None /\ UNCHANGED <<settings, loadCall, saveCall, doubtful>> /\ touched \subseteq touched'
    BY <1>4 DEF Edit, Operable
  <2>2. \A f \in Control \ touched' : copy'[f] = copy[f]
    BY <1>1, <1>4 DEF Edit, Values, Control
  <2> QED BY <2>1, <2>2 DEF ControlKnows
<1>5. CASE Save
  <2>1. /\ loadCall = None /\ UNCHANGED <<settings, copy, loadCall, touched, doubtful>>
        /\ saveCall'.wish = copy /\ saveCall'.meant = touched
    BY <1>5 DEF Save, Operable, Put
  <2> QED BY <2>1 DEF ControlKnows
<1>6. CASE LoadReply(Control)
  <2>1. /\ loadCall # None /\ loadCall' = None /\ copy = Defaults /\ saveCall = None
        /\ UNCHANGED <<settings, saveCall, touched>>
    BY <1>6 DEF LoadReply, Over, ControlKnows
  <2>2. ASSUME Over(loadCall, TRUE), copy' = Taken(loadCall.answer, Control), doubtful \subseteq doubtful',
               NEW f \in Control \ doubtful'
        PROVE  copy'[f] = settings[f]
    <3>1. loadCall.answer \in Values /\ loadCall.answer[f] = settings[f]
      BY <1>1, <2>1, <2>2 DEF Over, ControlKnows, Loads
    <3>2. copy'[f] = IF f = "ends" => loadCall.answer.ends # None THEN loadCall.answer[f] ELSE copy[f]
      BY <1>1, <1>2, <2>2, <3>1, TakenValues
    <3>3. copy["ends"] = None
      BY <2>1 DEF Defaults
    <3>4. loadCall.answer.ends = loadCall.answer["ends"]
      BY <3>1 DEF Values
    <3> QED BY <3>1, <3>2, <3>3, <3>4
  <2>3. CASE Over(loadCall, FALSE) /\ doubtful' = doubtful \cup Control
    BY <2>1, <2>3 DEF ControlKnows
  <2> QED BY <1>6, <2>1, <2>2, <2>3 DEF LoadReply, ControlKnows
<1>7. CASE SaveReply(Control)
  <2>1. UNCHANGED <<settings, copy, loadCall, touched>> /\ saveCall' = None /\ doubtful \subseteq doubtful'
    BY <1>2, <1>7 DEF SaveReply
  <2>2. saveCall # None
    BY <1>7 DEF SaveReply, Over
  <2> QED BY <2>1, <2>2 DEF ControlKnows
<1>8. CASE ServeLoad(Control)
  <2>1. /\ loadCall # None /\ loadCall' # None /\ UNCHANGED <<settings, copy, saveCall, touched>>
        /\ doubtful \subseteq doubtful'
        /\ loadCall'.answer # None =>
             \/ loadCall.answer # None /\ loadCall'.answer = loadCall.answer
             \/ loadCall'.answer \in Values /\ \A f \in Control \ doubtful' : loadCall'.answer[f] = settings[f]
    BY <1>8, LoadServed
  <2>2. copy = Defaults /\ saveCall = None
    BY <2>1 DEF ControlKnows
  <2> QED BY <2>1, <2>2 DEF ControlKnows
<1>9. CASE ServeSave(Control)
  <2>1. /\ saveCall \in Saves /\ saveCall # None /\ saveCall.status = "pending" /\ saveCall.wish \in Values
        /\ UNCHANGED <<copy, loadCall, touched>> /\ doubtful \subseteq doubtful' /\ loadCall = None
    BY <1>1, <1>9 DEF ServeSave, Waiting, Saves, ControlKnows
  <2>2. saveCall'.status # "pending" /\ saveCall'.meant = saveCall.meant
    BY <1>9, <2>1 DEF ServeSave, Saves
  <2>3. \A f \in Control \ (doubtful \cup saveCall.meant) : settings'[f] = settings[f]
    <3>1. CASE Update(saveCall.wish, Control)
      BY <1>1, <1>2, <2>1, <3>1, RowUpdated DEF ControlKnows
    <3>2. CASE UNCHANGED settings
      BY <2>1, <3>2 DEF ControlKnows
    <3> QED BY <1>9, <3>1, <3>2 DEF ServeSave
  <2> QED BY <2>1, <2>2, <2>3 DEF ControlKnows
<1>10. CASE ServeLate(Control)
  <2>1. UNCHANGED <<copy, loadCall, saveCall, touched>> /\ doubtful \subseteq doubtful'
        /\ \A f \in Control \ doubtful' : settings'[f] = settings[f]
    BY <1>10 DEF ServeLate
  <2> QED BY <2>1 DEF ControlKnows
<1>11. CASE SettingsElsewhere(Control)
  <2>1. UNCHANGED <<copy, loadCall, saveCall, touched>> /\ doubtful \subseteq doubtful'
        /\ \A f \in Control \ doubtful' : settings'[f] = settings[f]
    BY <1>2, <1>11 DEF SettingsElsewhere
  <2> QED BY <2>1 DEF ControlKnows
<1>12. CASE RedisRestart \/ \E r \in Readers : OtherMiss(r) \/ OtherFill(r)
  BY <1>12, CacheMoved DEF ControlKnows
<1> QED BY <1>2, <1>3, <1>4, <1>5, <1>6, <1>7, <1>8, <1>9, <1>10, <1>11, <1>12 DEF SettingsNext, SettingsReply

-----------------------------------------------------------------------------
(* The candidates: the marks of the page, and the rows made from the add form, of which the
   table has as many at least. *)

RosterMarks ==
    /\ form \in Texts \cup {None} /\ cropping \in BOOLEAN
    /\ edit \in [id : Ids, text : Texts] \cup {None}
    /\ doomed \in Ids \cup {None}
    /\ formBusy \in BOOLEAN /\ deleting \in BOOLEAN
    /\ typed \in 0..MaxTexts
    /\ unsure \subseteq Texts
    /\ formBusy <=> Under({"add", "update"}) # {}
    /\ deleting <=> Under({"delete"}) # {}
    /\ Alone({"add", "update"}) /\ Alone({"delete"})

MadeInv == made \in [Texts -> Nat] /\ \A x \in Texts : made[x] <= Len(rows)

\* Requests to add a candidate are those of the add form.
AddsAsked ==
    /\ \A c \in Slots :
         call[c] # None /\ call[c].kind = "add" =>
             /\ call[c].text \in Texts
             /\ call[c].status = "pending" => call[c] = Asks("add", "add", None, call[c].text)
    /\ \A s \in stray : s.kind # "list" /\ (s.kind = "add" => s = Asks("add", "add", None, s.text))

RosterInv == ListInv /\ RosterMarks /\ MadeInv /\ AddsAsked

LEMMA RosterTyped == RosterInv => RosterTypeOK
<1> SUFFICES ASSUME RosterInv
             PROVE  RosterTypeOK
  OBVIOUS
<1>1. Len(rows) \in Nat /\ Len(rows) <= MaxRows
  BY TablesAreSeqs DEF RosterInv, ListInv, ListTypeOK
<1>2. \A x \in Texts : made[x] \in 0..MaxRows
  BY <1>1 DEF RosterInv, MadeInv
<1>3. made \in [Texts -> 0..MaxRows]
  BY <1>2 DEF RosterInv, MadeInv
<1> QED BY <1>3 DEF RosterInv, RosterMarks, RosterTypeOK, ListInv

LEMMA RosterInitInv == ListInit /\ RosterInit => RosterInv
<1> SUFFICES ASSUME ListInit, RosterInit
             PROVE  RosterInv
  OBVIOUS
<1>1. ListInv
  BY ListInitInv
<1>2. Under({"add", "update"}) = {} /\ Under({"delete"}) = {}
  BY UnderAtFirst DEF Changes
<1>3. RosterMarks
  <2>1. typed \in 0..MaxTexts /\ unsure \subseteq Texts /\ form = None /\ edit = None /\ doomed = None
    BY DEF RosterInit
  <2>2. formBusy = FALSE /\ deleting = FALSE /\ cropping = FALSE
    BY DEF RosterInit
  <2>3. Alone({"add", "update"}) /\ Alone({"delete"})
    BY <1>2 DEF Alone
  <2>4. (formBusy <=> Under({"add", "update"}) # {}) /\ (deleting <=> Under({"delete"}) # {})
    BY <1>2, <2>2
  <2> QED BY <2>1, <2>2, <2>3, <2>4 DEF RosterMarks
<1>4. MadeInv
  BY DEF RosterInit, MadeInv, ListInit
<1>5. AddsAsked
  <2>1. Asks("list", "mount", None, None).kind = "list"
    BY AskedType DEF Changes, Content
  <2> QED BY <2>1 DEF ListInit, Mounting, AddsAsked
<1> QED BY <1>1, <1>3, <1>4, <1>5 DEF RosterInv

\* The marks of busy handlers, when a handler begins, ends, or goes on.
Marks ==
    /\ formBusy \in BOOLEAN /\ deleting \in BOOLEAN
    /\ formBusy <=> Under({"add", "update"}) # {}
    /\ deleting <=> Under({"delete"}) # {}
    /\ Alone({"add", "update"}) /\ Alone({"delete"})

LEMMA BusyEnds ==
    ASSUME ListInv, Marks, NEW c \in Slots, ChangeReply(c, FALSE) \/ \E ok \in BOOLEAN : ListReply(c, ok),
           Busy(call[c].goal, FALSE)
    PROVE  Marks'
<1>1. /\ Under({"add", "update"})' = Under({"add", "update"}) \ {c}
      /\ c \in Under({"add", "update"}) <=> call[c].goal \in {"add", "update"}
      /\ Under({"delete"})' = Under({"delete"}) \ {c}
      /\ c \in Under({"delete"}) <=> call[c].goal \in {"delete"}
  BY UnderLoses
<1>2. /\ formBusy' \in BOOLEAN /\ (formBusy' <=> Under({"add", "update"})' # {})
      /\ Alone({"add", "update"})'
  <2>1. CASE call[c].goal \in {"add", "update"}
    <3>1. formBusy' = FALSE /\ Under({"add", "update"})' = {}
      BY <1>1, <2>1 DEF Busy, Marks, Alone
    <3> QED BY <3>1 DEF Alone
  <2>2. CASE call[c].goal \notin {"add", "update"}
    <3>1. formBusy' = formBusy /\ Under({"add", "update"})' = Under({"add", "update"})
      BY <1>1, <2>2 DEF Busy
    <3> QED BY <3>1 DEF Alone, Marks
  <2> QED BY <2>1, <2>2
<1>3. deleting' \in BOOLEAN /\ (deleting' <=> Under({"delete"})' # {}) /\ Alone({"delete"})'
  <2>1. CASE call[c].goal = "delete"
    <3>1. deleting' = FALSE /\ Under({"delete"})' = {}
      BY <1>1, <2>1 DEF Busy, Marks, Alone
    <3> QED BY <3>1 DEF Alone
  <2>2. CASE call[c].goal # "delete"
    <3>1. deleting' = deleting /\ Under({"delete"})' = Under({"delete"})
      BY <1>1, <2>2 DEF Busy
    <3> QED BY <3>1 DEF Alone, Marks
  <2> QED BY <2>1, <2>2
<1> QED BY <1>2, <1>3 DEF Marks

LEMMA BusyStays ==
    ASSUME Marks, UNCHANGED <<formBusy, deleting>>,
           \A goals : Under(goals)' = Under(goals)
    PROVE  Marks'
BY DEF Marks, Alone

LEMMA BusyBegins ==
    ASSUME ListInv, Marks, NEW kind \in Changes, NEW id \in Ids \cup {None}, NEW text \in Content,
           Send(kind, id, text),
           IF kind = "delete" THEN ~deleting /\ deleting' = TRUE /\ formBusy' = formBusy
                              ELSE ~formBusy /\ formBusy' = TRUE /\ deleting' = deleting
    PROVE  Marks'
<1>1. PICK c \in Slots : \A goals :
        /\ c \notin Under(goals)
        /\ Under(goals)' = Under(goals) \cup (IF kind \in goals THEN {c} ELSE {})
  BY UnderGains
<1>2. CASE kind = "delete"
  <2>1. Under({"delete"})' = {c} /\ Under({"add", "update"})' = Under({"add", "update"})
    BY <1>1, <1>2 DEF Marks
  <2> QED BY <1>2, <2>1 DEF Marks, Alone
<1>3. CASE kind # "delete"
  <2>1. kind \in {"add", "update"}
    BY <1>3 DEF Changes
  <2>2. Under({"add", "update"})' = {c} /\ Under({"delete"})' = Under({"delete"})
    BY <1>1, <1>3, <2>1 DEF Marks
  <2> QED BY <1>3, <2>2 DEF Marks, Alone
<1> QED BY <1>2, <1>3

\* What a change of the page makes of the table and of the rows counted for its text.
LEMMA EffectTable ==
    ASSUME ListInv, MadeInv, NEW a \in Call, Changed(Effect(a)), a.kind \in Changes
    PROVE  /\ Effect(a) \in Tables
           /\ Count(a) => /\ MadeInv'
                          /\ \A x \in Texts :
                               made'[x] = IF a.kind = "add" /\ a.text = x THEN made[x] + 1 ELSE made[x]
<1>1. rows \in Tables /\ Len(rows) \in Nat /\ a.text \in Content
  BY TablesAreSeqs DEF ListInv, ListTypeOK, Call, Content
<1>2. made \in [Texts -> Nat] /\ rows' = Effect(a)
  BY DEF MadeInv, Changed
<1>3. Count(a) => /\ made' \in [Texts -> Nat]
                  /\ \A x \in Texts :
                       made'[x] = IF a.kind = "add" /\ a.text = x THEN made[x] + 1 ELSE made[x]
  <2>1. CASE a.kind = "add"
    <3>1. SUFFICES ASSUME Count(a)
                   PROVE  /\ made' \in [Texts -> Nat]
                          /\ \A x \in Texts : made'[x] = IF a.text = x THEN made[x] + 1 ELSE made[x]
      BY <2>1
    <3>2. made' = [made EXCEPT ![a.text] = @ + 1]
      BY <2>1, <3>1 DEF Count
    <3>3. made' = [x \in Texts |-> IF x = a.text THEN made[x] + 1 ELSE made[x]]
      BY <1>2, <3>2
    <3>4. \A x \in Texts : made[x] \in Nat
      BY <1>2
    <3> QED BY <3>3, <3>4
  <2>2. CASE a.kind # "add"
    BY <1>2, <2>2 DEF Count
  <2> QED BY <2>1, <2>2
<1>4. CASE a.kind = "add"
  <2>1. Effect(a) = Inserted(a.text)
    BY <1>4 DEF Effect
  <2>2. Effect(a) \in Tables /\ Len(Effect(a)) = Len(rows) + 1
    BY <1>1, <2>1, InsertedTable DEF Changed
  <2> QED BY <1>1, <1>2, <1>3, <2>2 DEF MadeInv
<1>5. CASE a.kind # "add"
  <2>1. Effect(a) = Updated(a.id, a.text) \/ Effect(a) = Deleted(a.id)
    BY <1>5 DEF Effect, Changes
  <2>2. Effect(a) \in Tables /\ Len(Effect(a)) = Len(rows)
    <3>1. Effect(a) = [rows EXCEPT ![a.id] = a.text] \/ Effect(a) = [rows EXCEPT ![a.id] = None]
      BY <2>1 DEF Updated, Deleted
    <3>2. None \in Content
      BY DEF Content
    <3>3. \A text \in Content : /\ [rows EXCEPT ![a.id] = text] \in Tables
                               /\ Len([rows EXCEPT ![a.id] = text]) = Len(rows)
      BY <1>1, ExceptTable
    <3> QED BY <1>1, <3>1, <3>2, <3>3
  <2> QED BY <1>1, <1>2, <1>3, <1>5, <2>2 DEF MadeInv
<1> QED BY <1>4, <1>5

LEMMA MarksOfRoster ==
    RosterMarks <=> /\ form \in Texts \cup {None} /\ cropping \in BOOLEAN
                    /\ edit \in [id : Ids, text : Texts] \cup {None}
                    /\ doomed \in Ids \cup {None}
                    /\ typed \in 0..MaxTexts
                    /\ unsure \subseteq Texts
                    /\ Marks
BY DEF RosterMarks, Marks

LEMMA MarksOfRosterNext ==
    RosterMarks' <=> /\ form' \in Texts \cup {None} /\ cropping' \in BOOLEAN
                     /\ edit' \in [id : Ids, text : Texts] \cup {None}
                     /\ doomed' \in Ids \cup {None}
                     /\ typed' \in 0..MaxTexts
                     /\ unsure' \subseteq Texts
                     /\ Marks'
BY DEF RosterMarks, Marks

LEMMA TextTyped == NewText /\ typed \in 0..MaxTexts => typed' \in Texts /\ typed' \in 0..MaxTexts /\ typed' = typed + 1
BY DEF NewText, Texts

LEMMA AddsMoved ==
    ASSUME ListInv, AddsAsked, NEW c \in Slots, NEW left \in Call \cup {None}, call' = [call EXCEPT ![c] = left],
           left # None /\ left.kind = "add" =>
               /\ left.text \in Texts
               /\ left.status = "pending" => left = Asks("add", "add", None, left.text),
           stray' \subseteq stray \cup (IF Waits(c) /\ call[c].kind # "list" THEN {call[c]} ELSE {})
    PROVE  AddsAsked'
<1>1. /\ call'[c] = left
      /\ \A d \in Slots \ {c} : call'[d] = call[d]
  BY CallMoves DEF ListInv, ListTypeOK
<1> QED BY <1>1 DEF AddsAsked, Waits, Waiting

LEMMA RosterReplyKept ==
    ASSUME RosterInv, NEW c \in Slots, RosterReply(c)
    PROVE  RosterInv'
<1>1. ListInv /\ RosterMarks /\ MadeInv /\ Marks /\ AddsAsked
  BY MarksOfRoster DEF RosterInv
<1>2. ASSUME UNCHANGED <<rows, made>>
      PROVE  MadeInv'
  BY <1>1, <1>2 DEF MadeInv
<1>3. CASE RosterChanged(c)
  <2>1. ListInv' /\ MadeInv'
    BY <1>1, <1>2, <1>3, ChangeReplyKept DEF RosterChanged, ChangeReply
  <2>2. \A goals : Under(goals)' = Under(goals)
    BY <1>1, <1>3, UnderStays DEF RosterChanged
  <2>3. Marks'
    BY <1>1, <1>3, <2>2, BusyStays DEF RosterChanged
  <2>4. AddsAsked'
    <3> DEFINE left == Refetch(c)
    <3>1. call' = [call EXCEPT ![c] = left] /\ stray' = stray
      BY <1>3 DEF RosterChanged, ChangeReply, Answered, Over, Waits, Waiting
    <3>2. call[c] \in Call
      BY <1>1, <1>3, AnswerFits DEF RosterChanged, ChangeReply
    <3>4. left \in Call /\ left.kind = "list"
      BY <3>2, RefetchedCall
    <3> HIDE DEF left
    <3> QED BY <1>1, <3>1, <3>4, AddsMoved
  <2> QED BY <1>1, <1>3, <2>1, <2>3, <2>4, MarksOfRoster, MarksOfRosterNext DEF RosterInv, RosterChanged
<1>4. CASE RosterFailed(c)
  <2>1. ListInv' /\ MadeInv'
    BY <1>1, <1>2, <1>4, ChangeReplyKept DEF RosterFailed, ChangeReply
  <2>2. call[c].goal = call[c].kind /\ call[c] \in Call
    BY <1>1, <1>4, UnderLoses, AnswerFits DEF RosterFailed, ChangeReply
  <2>3. Marks'
    BY <1>1, <1>4, <2>2, BusyEnds DEF RosterFailed, Failure
  <2>4. unsure' \subseteq Texts
    <3>1. CASE call[c].text = None
      <4>1. call[c].kind # "add"
        BY <1>1, <1>4, <2>2, <3>1 DEF RosterFailed, ChangeReply, Answered, Over, AddsAsked
      <4> QED BY <1>1, <1>4, <4>1 DEF RosterFailed, RosterMarks
    <3>2. CASE call[c].text # None
      BY <1>1, <1>4, <2>2, <3>2 DEF RosterFailed, RosterMarks, Call
    <3> QED BY <3>1, <3>2
  <2>5. AddsAsked'
    BY <1>1, <1>4, AddsMoved DEF RosterFailed, ChangeReply, Answered
  <2> QED BY <1>1, <1>4, <2>1, <2>3, <2>4, <2>5, MarksOfRoster, MarksOfRosterNext DEF RosterInv, RosterFailed
<1>5. CASE RosterListed(c)
  <2>1. ListInv' /\ MadeInv'
    BY <1>1, <1>2, <1>5, ListReplyKept DEF RosterListed, ListReply
  <2>2. Marks'
    BY <1>1, <1>5, BusyEnds DEF RosterListed
  <2>3. UNCHANGED <<edit, doomed, typed, unsure>> /\ form' \in Texts \cup {None} /\ cropping' \in BOOLEAN
    BY <1>1, <1>5 DEF RosterListed, RosterMarks
  <2>4. AddsAsked'
    BY <1>1, <1>5, AddsMoved DEF RosterListed, ListReply, Answered
  <2> QED BY <1>1, <2>1, <2>2, <2>3, <2>4, MarksOfRoster, MarksOfRosterNext DEF RosterInv
<1> QED BY <1>3, <1>4, <1>5 DEF RosterReply

LEMMA RosterServeKept ==
    ASSUME RosterInv, NEW c \in Slots, RosterServe(c)
    PROVE  RosterInv'
<1>1. ListInv /\ RosterMarks /\ MadeInv /\ Marks /\ AddsAsked
  BY MarksOfRoster DEF RosterInv
<1>2. UNCHANGED <<form, cropping, edit, doomed, formBusy, deleting, typed, unsure>>
  BY DEF RosterServe
<1>3. Waits(c) /\ call[c] # None /\ call[c] \in Call /\ call[c].status = "pending"
  BY <1>1 DEF RosterServe, ServeList, Waits, Waiting, ListInv, ListTypeOK
<1>4. ASSUME ListInv', MadeInv', AddsAsked', \A goals : Under(goals)' = Under(goals)
      PROVE  RosterInv'
  <2>1. Marks'
    BY <1>1, <1>2, <1>4, BusyStays
  <2> QED BY <1>1, <1>2, <1>4, <2>1, MarksOfRoster, MarksOfRosterNext DEF RosterInv
<1>5. CASE ServeList(c) /\ UNCHANGED made
  <2> DEFINE list == [rows |-> rows, version |-> version]
             served == [call[c] EXCEPT !.status = "ok", !.answer = list]
  <2>1. ListInv' /\ MadeInv' /\ \A goals : Under(goals)' = Under(goals)
    BY <1>1, <1>5, ServeListKept, UnderStays DEF ServeList, MadeInv
  <2>2. list \in List
    BY <1>1 DEF ListInv, ListTypeOK, List
  <2>3. call' = [call EXCEPT ![c].status = "ok", ![c].answer = list] /\ call[c].kind = "list" /\ stray' = stray
    BY <1>5 DEF ServeList
  <2>4. served \in Call /\ served.kind = "list" /\ call' = [call EXCEPT ![c] = served]
    <3> HIDE DEF list
    <3> QED BY <1>1, <1>3, <2>2, <2>3, ListedCall DEF ListInv, ListTypeOK
  <2>5. AddsAsked'
    <3> HIDE DEF served
    <3> QED BY <1>1, <2>3, <2>4, AddsMoved
  <2> QED BY <1>4, <2>1, <2>5
<1>6. ASSUME NEW status \in {"ok", "error"}, call' = [call EXCEPT ![c].status = status], stray' = stray
      PROVE  AddsAsked'
  <2> DEFINE served == [call[c] EXCEPT !.status = status]
  <2>1. /\ served \in Call /\ served.kind = call[c].kind /\ served.text = call[c].text
        /\ served.status # "pending" /\ call' = [call EXCEPT ![c] = served]
    BY <1>1, <1>3, <1>6, ServedCall DEF ListInv, ListTypeOK, Statuses
  <2>2. call[c].kind = "add" => call[c].text \in Texts
    BY <1>1, <1>3 DEF AddsAsked
  <2> HIDE DEF served
  <2> QED BY <1>1, <1>6, <2>1, <2>2, AddsMoved
<1>7. CASE Refuse(c) /\ UNCHANGED made
  <2>1. ListInv' /\ MadeInv' /\ (\A goals : Under(goals)' = Under(goals)) /\ AddsAsked'
    BY <1>1, <1>6, <1>7, RefuseKept, UnderStays DEF Refuse, MadeInv
  <2> QED BY <1>4, <2>1
<1>8. CASE call[c].kind # "list" /\ Serve(c, Effect(call[c])) /\ Count(call[c])
  <2>1. call[c].kind \in Changes
    BY <1>3, <1>8 DEF Call
  <2>2. Effect(call[c]) \in Tables /\ MadeInv'
    BY <1>1, <1>3, <1>8, <2>1, EffectTable DEF Serve
  <2>3. ListInv' /\ \A goals : Under(goals)' = Under(goals)
    BY <1>1, <1>3, <1>8, <2>2, ServeKept, UnderStays
  <2>4. AddsAsked'
    BY <1>6, <1>8 DEF Serve
  <2> QED BY <1>4, <2>2, <2>3, <2>4
<1> QED BY <1>5, <1>7, <1>8 DEF RosterServe

LEMMA RosterStrayKept ==
    ASSUME RosterInv, RosterStray \/ (OtherAdministrator /\ UNCHANGED rosterVars)
    PROVE  RosterInv'
<1>1. ListInv /\ RosterMarks /\ MadeInv /\ Marks /\ AddsAsked
  BY MarksOfRoster DEF RosterInv
<1>2. /\ UNCHANGED <<form, cropping, edit, doomed, formBusy, deleting, typed, unsure>>
      /\ UNCHANGED call /\ stray' \subseteq stray
  BY DEF RosterStray, rosterVars, DropStray, ServeStray, OtherAdministrator
<1>3. AddsAsked'
  BY <1>1, <1>2 DEF AddsAsked
<1>4. Marks'
  <2>1. \A goals : Under(goals)' = Under(goals)
    BY <1>2 DEF Under
  <2> QED BY <1>1, <1>2, <2>1, BusyStays
<1>5. CASE DropStray /\ UNCHANGED made
  <2>1. ListInv' /\ MadeInv'
    BY <1>1, <1>2, <1>5, DropKept DEF DropStray, MadeInv
  <2> QED BY <1>1, <1>2, <1>3, <1>4, <2>1, MarksOfRoster, MarksOfRosterNext DEF RosterInv
<1>6. ASSUME NEW s \in stray, Accepts(s), ServeStray(s, Effect(s)), Count(s)
      PROVE  RosterInv'
  <2>1. s \in Call /\ s.kind \in Changes
    <3>1. s \in Call
      BY <1>1 DEF ListInv, ListTypeOK
    <3> QED BY <1>1, <3>1 DEF AddsAsked, Call
  <2>2. Effect(s) \in Tables /\ MadeInv'
    BY <1>1, <1>6, <2>1, EffectTable DEF ServeStray
  <2>3. ListInv'
    BY <1>1, <1>2, <1>6, <2>2, ElsewhereKept DEF ServeStray
  <2> QED BY <1>1, <1>2, <1>3, <1>4, <2>2, <2>3, MarksOfRoster, MarksOfRosterNext DEF RosterInv
<1>7. CASE OtherAdministrator /\ UNCHANGED rosterVars
  <2>1. ListInv'
    BY <1>1, <1>7, OthersKept
  <2>2. PICK table \in Tables : Changed(table) /\ Len(rows) <= Len(table)
    BY <1>1, <1>7, OthersTable
  <2>3. Len(rows) \in Nat /\ Len(table) \in Nat /\ rows' = table /\ UNCHANGED made
    BY <1>1, <1>7, <2>2, TablesAreSeqs DEF ListInv, ListTypeOK, Changed, rosterVars
  <2>4. MadeInv'
    BY <1>1, <2>2, <2>3 DEF MadeInv
  <2> QED BY <1>1, <1>2, <1>3, <1>4, <2>1, <2>4, MarksOfRoster, MarksOfRosterNext DEF RosterInv
<1> QED BY <1>5, <1>6, <1>7 DEF RosterStray

LEMMA RosterSendKept ==
    ASSUME RosterInv, NEW kind \in Changes, NEW id \in Ids \cup {None}, NEW text \in Content,
           Send(kind, id, text),
           kind = "add" => id = None /\ text \in Texts,
           IF kind = "delete" THEN ~deleting /\ deleting' = TRUE /\ formBusy' = formBusy
                              ELSE ~formBusy /\ formBusy' = TRUE /\ deleting' = deleting,
           UNCHANGED <<form, cropping, edit, doomed, typed, made, unsure>>
    PROVE  RosterInv'
<1>1. ListInv /\ RosterMarks /\ MadeInv /\ Marks /\ AddsAsked
  BY MarksOfRoster DEF RosterInv
<1>2. ListInv' /\ Marks'
  BY <1>1, SendKept, BusyBegins
<1>3. MadeInv'
  BY <1>1 DEF MadeInv, Send
<1>4. AddsAsked'
  <2> DEFINE left == Asks(kind, kind, id, text)
  <2>1. PICK c \in Slots : call' = [call EXCEPT ![c] = left] /\ stray' = stray
    BY DEF Send
  <2>2. left \in Call /\ left.kind = kind /\ left.text = text
    BY AskedType
  <2>3. left.kind = "add" => left = Asks("add", "add", None, left.text)
    BY <2>2
  <2> HIDE DEF left
  <2> QED BY <1>1, <2>1, <2>2, <2>3, AddsMoved
<1> QED BY <1>1, <1>2, <1>3, <1>4, MarksOfRoster, MarksOfRosterNext DEF RosterInv

LEMMA RosterMountKept ==
    ASSUME RosterInv, RosterMount
    PROVE  RosterInv'
<1>1. ListInv /\ RosterMarks /\ MadeInv /\ AddsAsked
  BY DEF RosterInv
<1>2. MountList /\ FreshPage /\ UNCHANGED <<typed, made, unsure>>
  BY DEF RosterMount
<1>3. ListInv' /\ Under({"add", "update"})' = {} /\ Under({"delete"})' = {}
  BY <1>1, <1>2, MountKept, UnderMounted DEF Changes
<1>4. MadeInv'
  BY <1>1, <1>2 DEF MadeInv, MountList
<1>5. Marks'
  BY <1>2, <1>3 DEF Marks, FreshPage, Alone
<1>6. AddsAsked'
  <2>1. PICK c \in Slots :
          /\ call'[c] = Asks("list", "mount", None, None)
          /\ \A d \in Slots \ {c} : call'[d] = None
    BY <1>2, MountedCalls DEF MountList
  <2>2. Asks("list", "mount", None, None).kind = "list"
    BY AskedType DEF Changes, Content
  <2>3. stray' = stray \cup Orphans
    BY <1>2 DEF MountList
  <2>4. \A s \in Orphans : s.kind # "list" /\ (s.kind = "add" => s = Asks("add", "add", None, s.text))
    BY <1>1 DEF Orphans, Waits, Waiting, AddsAsked
  <2> QED BY <1>1, <2>1, <2>2, <2>3, <2>4 DEF AddsAsked
<1> QED BY <1>1, <1>2, <1>3, <1>4, <1>5, <1>6, MarksOfRoster, MarksOfRosterNext DEF RosterInv, FreshPage

LEMMA RosterKept ==
    ASSUME RosterInv, RosterNext
    PROVE  RosterInv'
<1>1. ListInv /\ RosterMarks /\ MadeInv /\ Marks /\ AddsAsked
  BY MarksOfRoster DEF RosterInv
<1>2. /\ form \in Texts \cup {None} /\ cropping \in BOOLEAN
      /\ edit \in [id : Ids, text : Texts] \cup {None}
      /\ doomed \in Ids \cup {None} /\ typed \in 0..MaxTexts
  BY <1>1 DEF RosterMarks
<1>3. ASSUME UNCHANGED <<listVars, formBusy, deleting, made, unsure>>,
             form' \in Texts \cup {None}, cropping' \in BOOLEAN,
             edit' \in [id : Ids, text : Texts] \cup {None}, doomed' \in Ids \cup {None},
             typed' \in 0..MaxTexts
      PROVE  RosterInv'
  <2>1. ListInv' /\ MadeInv' /\ AddsAsked'
    BY <1>1, <1>3 DEF listVars, ListInv, ListTypeOK, Proper, Renewed, Renews, Made, MadeInv, AddsAsked
  <2>2. \A goals : Under(goals)' = Under(goals)
    BY <1>3 DEF listVars, Under
  <2>3. Marks'
    BY <1>1, <1>3, <2>2, BusyStays
  <2> QED BY <1>1, <1>3, <2>1, <2>3, MarksOfRoster, MarksOfRosterNext DEF RosterInv
<1>4. CASE Type
  BY <1>2, <1>3, <1>4, TextTyped DEF Type
<1>5. CASE ChooseImage \/ EndCrop \/ CancelEdit \/ CancelDelete
  BY <1>2, <1>3, <1>5 DEF ChooseImage, EndCrop, CancelEdit, CancelDelete
<1>6. CASE SubmitAdd
  <2>1. form \in Texts /\ form \in Content /\ "add" \in Changes /\ None \in Ids \cup {None}
    BY <1>2, <1>6 DEF SubmitAdd, Content, Changes
  <2> QED BY <1>6, <2>1, RosterSendKept DEF SubmitAdd, Ready
<1>7. CASE SubmitEdit
  <2>1. edit.id \in Ids /\ edit.text \in Content /\ "update" \in Changes
    BY <1>2, <1>7 DEF SubmitEdit, Content, Changes
  <2> QED BY <1>7, <2>1, RosterSendKept DEF SubmitEdit, Ready
<1>8. CASE ConfirmDelete
  <2>1. doomed \in Ids /\ None \in Content /\ "delete" \in Changes
    BY <1>2, <1>8 DEF ConfirmDelete, Content, Changes
  <2> QED BY <1>8, <2>1, RosterSendKept DEF ConfirmDelete
<1>9. ASSUME NEW i \in Offered, OpenEdit(i) \/ AskDelete(i)
      PROVE  RosterInv'
  <2>1. i \in Ids
    BY <1>1, OfferedIds
  <2>2. CASE OpenEdit(i)
    <3>1. typed' \in Texts /\ typed' \in 0..MaxTexts
      BY <1>2, <2>2, TextTyped DEF OpenEdit
    <3>2. edit' \in [id : Ids, text : Texts]
      BY <2>1, <2>2, <3>1 DEF OpenEdit
    <3> QED BY <1>2, <1>3, <2>2, <3>1, <3>2 DEF OpenEdit
  <2>3. CASE AskDelete(i)
    BY <1>2, <1>3, <2>1, <2>3 DEF AskDelete
  <2> QED BY <1>9, <2>2, <2>3
<1> QED BY <1>4, <1>5, <1>6, <1>7, <1>8, <1>9, RosterMountKept, RosterReplyKept, RosterServeKept,
           RosterStrayKept DEF RosterNext

-----------------------------------------------------------------------------
(* A text of the add form becomes one row: until it is inserted, a request that carries it
   is under way or lost but not both, and once it is, the form forgets it as soon as the
   handler that is at work ends. *)

Pends(c, x) == call[c] # None /\ call[c].kind = "add" /\ call[c].text = x /\ call[c].status = "pending"
Pending(x)  == \E c \in Slots : Pends(c, x)
Strayed(x)  == \E s \in stray : s.kind = "add" /\ s.text = x

Finishes(c, x) ==
    call[c] # None /\ call[c].goal = "add" /\ (call[c].kind = "list" \/ (call[c].status = "ok" /\ call[c].text = x))
Finishing(x) == \E c \in Slots : Finishes(c, x)

Once(x) ==
    /\ made[x] <= 1
    /\ made[x] = 1 => ~Pending(x) /\ ~Strayed(x) /\ (form = x => Finishing(x))
    /\ Strayed(x) => form # x /\ ~Pending(x)
    /\ x > typed => made[x] = 0 /\ ~Pending(x) /\ ~Strayed(x) /\ form # x

OnceInv == \A x \in Texts \ unsure : Once(x)

LEMMA OnceFrame ==
    ASSUME NEW x \in Texts, Once(x), typed \in Nat, typed' \in Nat, typed <= typed', made'[x] = made[x],
           Pending(x)' => Pending(x), Strayed(x)' => Strayed(x),
           form' = x => form = x /\ (Finishing(x) => Finishing(x)')
    PROVE  Once(x)'
<1>1. x \in Nat /\ (x > typed' => x > typed)
  BY DEF Texts
<1> QED BY <1>1 DEF Once

LEMMA OnceMoved ==
    ASSUME ListInv, NEW c \in Slots, NEW left \in Call \cup {None}, call' = [call EXCEPT ![c] = left],
           NEW x \in Texts
    PROVE  /\ Pending(x)' => \/ Pending(x)
                             \/ left # None /\ left.kind = "add" /\ left.text = x /\ left.status = "pending"
           /\ Finishing(x) => Finishing(x)' \/ Finishes(c, x)
           /\ left # None /\ left.goal = "add" /\ (left.kind = "list" \/ (left.status = "ok" /\ left.text = x))
                => Finishing(x)'
<1>1. /\ call'[c] = left
      /\ \A d \in Slots \ {c} : call'[d] = call[d]
  BY CallMoves DEF ListInv, ListTypeOK
<1>2. \A d \in Slots \ {c} : (Pends(d, x)' <=> Pends(d, x)) /\ (Finishes(d, x)' <=> Finishes(d, x))
  BY <1>1 DEF Pends, Finishes
<1>3. Pends(c, x)' => left # None /\ left.kind = "add" /\ left.text = x /\ left.status = "pending"
  BY <1>1 DEF Pends
<1>4. left # None /\ left.goal = "add" /\ (left.kind = "list" \/ (left.status = "ok" /\ left.text = x))
        => Finishes(c, x)'
  BY <1>1 DEF Finishes
<1> QED BY <1>2, <1>3, <1>4 DEF Pending, Finishing

LEMMA OnceReplied ==
    ASSUME RosterInv, OnceInv, NEW c \in Slots, RosterReply(c)
    PROVE  OnceInv'
<1>1. ListInv /\ typed \in Nat /\ UNCHANGED <<typed, made>> /\ call[c] # None /\ call[c] \in Call
  <2>1. typed' = typed /\ made' = made /\ call[c] # None
    BY DEF RosterReply, RosterChanged, RosterFailed, RosterListed, ChangeReply, ListReply, Answered, Over
  <2> QED BY <2>1 DEF RosterInv, RosterMarks, ListInv, ListTypeOK
<1>2. SUFFICES ASSUME NEW x \in Texts \ unsure'
               PROVE  Once(x)'
  BY DEF OnceInv
<1>3. unsure \subseteq unsure' /\ Once(x)
  <2>1. unsure \subseteq unsure'
    BY DEF RosterReply, RosterChanged, RosterFailed, RosterListed
  <2> QED BY <1>2, <2>1 DEF OnceInv
<1>4. CASE RosterChanged(c)
  <2>1. /\ call' = [call EXCEPT ![c] = Refetch(c)] /\ stray' = stray /\ form' = form
        /\ Refetch(c) \in Call /\ Refetch(c) # None
        /\ Refetch(c).kind = "list" /\ Refetch(c).goal = call[c].goal
    BY <1>1, <1>4, RefetchedCall DEF RosterChanged, ChangeReply, Answered, Over, Waits, Waiting
  <2>2. /\ Pending(x)' => Pending(x)
        /\ Finishing(x) => Finishing(x)' \/ Finishes(c, x)
        /\ Refetch(c).goal = "add" => Finishing(x)'
    BY <1>1, <2>1, OnceMoved
  <2>3. Finishes(c, x) => Refetch(c).goal = "add"
    BY <2>1 DEF Finishes
  <2>4. Strayed(x)' => Strayed(x)
    BY <2>1 DEF Strayed
  <2> QED BY <1>1, <1>3, <2>1, <2>2, <2>3, <2>4, OnceFrame
<1>5. CASE RosterFailed(c)
  <2>1. /\ call' = [call EXCEPT ![c] = None] /\ form' = form /\ call[c].kind # "list"
        /\ call[c].kind = "add" /\ call[c].status # "error" => call[c].text \in unsure'
        /\ stray' \subseteq stray \cup (IF Waits(c) THEN {call[c]} ELSE {})
    BY <1>5 DEF RosterFailed, ChangeReply, Answered
  <2>2. call[c].goal = call[c].kind
    BY <1>1, <2>1 DEF ListInv, Proper
  <2>3. /\ Pending(x)' => Pending(x)
        /\ Finishing(x) => Finishing(x)' \/ Finishes(c, x)
    BY <1>1, <2>1, OnceMoved
  <2>4. ~Finishes(c, x)
    BY <1>2, <2>1, <2>2 DEF Finishes
  <2>5. Strayed(x)' => Strayed(x)
    BY <1>2, <2>1 DEF Strayed, Waits, Waiting
  <2> QED BY <1>1, <1>3, <2>1, <2>3, <2>4, <2>5, OnceFrame
<1>6. CASE RosterListed(c)
  <2>1. /\ call' = [call EXCEPT ![c] = None] /\ stray' = stray
        /\ form' = (IF call[c].goal = "add" THEN None ELSE form)
    BY <1>6 DEF RosterListed, ListReply, Answered
  <2>2. /\ Pending(x)' => Pending(x)
        /\ Finishing(x) => Finishing(x)' \/ Finishes(c, x)
    BY <1>1, <2>1, OnceMoved
  <2>3. form' = x => form = x /\ (Finishing(x) => Finishing(x)')
    BY <1>2, <2>1, <2>2 DEF Finishes
  <2>4. Strayed(x)' => Strayed(x)
    BY <2>1 DEF Strayed
  <2> QED BY <1>1, <1>3, <2>2, <2>3, <2>4, OnceFrame
<1> QED BY <1>4, <1>5, <1>6 DEF RosterReply

LEMMA OnceServed ==
    ASSUME RosterInv, OnceInv, NEW c \in Slots, RosterServe(c)
    PROVE  OnceInv'
<1>1. /\ ListInv /\ MadeInv /\ typed \in Nat /\ UNCHANGED <<form, typed, unsure, stray>>
      /\ call[c] # None /\ call[c] \in Call /\ call[c].status = "pending" /\ Waits(c)
      /\ call[c].kind # "list" => call[c].goal = call[c].kind
  <2>1. UNCHANGED <<form, typed, unsure, stray>> /\ Waits(c)
    BY DEF RosterServe, ServeList, Refuse, Serve
  <2> QED BY <2>1 DEF RosterInv, RosterMarks, ListInv, ListTypeOK, Proper, Waits, Waiting
<1>2. SUFFICES ASSUME NEW x \in Texts \ unsure
               PROVE  Once(x)'
  BY <1>1 DEF OnceInv
<1>3. Once(x) /\ (Strayed(x)' <=> Strayed(x))
  BY <1>1 DEF OnceInv, Strayed
<1>4. ASSUME NEW left \in Call, left # None, call' = [call EXCEPT ![c] = left],
             left.kind = call[c].kind, left.goal = call[c].goal, left.status # "pending",
             made'[x] = made[x]
      PROVE  Once(x)'
  <2>1. /\ Pending(x)' => Pending(x)
        /\ Finishing(x) => Finishing(x)' \/ Finishes(c, x)
        /\ left.goal = "add" /\ left.kind = "list" => Finishing(x)'
    BY <1>1, <1>4, OnceMoved
  <2>2. Finishes(c, x) => left.goal = "add" /\ left.kind = "list"
    BY <1>1, <1>4 DEF Finishes
  <2> QED BY <1>1, <1>3, <1>4, <2>1, <2>2, OnceFrame
<1>5. CASE ServeList(c) /\ UNCHANGED made
  <2> DEFINE list == [rows |-> rows, version |-> version]
             served == [call[c] EXCEPT !.status = "ok", !.answer = list]
  <2>1. list \in List
    BY <1>1 DEF ListInv, ListTypeOK, List
  <2>2. call' = [call EXCEPT ![c].status = "ok", ![c].answer = list]
    BY <1>5 DEF ServeList
  <2>3. /\ served \in Call /\ served.kind = call[c].kind /\ served.goal = call[c].goal
        /\ served.status = "ok" /\ call' = [call EXCEPT ![c] = served]
    <3> HIDE DEF list
    <3> QED BY <1>1, <2>1, <2>2, ListedCall DEF ListInv, ListTypeOK
  <2> HIDE DEF served
  <2> QED BY <1>4, <1>5, <2>3
<1>6. ASSUME NEW status \in {"ok", "error"}, call' = [call EXCEPT ![c].status = status]
      PROVE  \E left \in Call :
               /\ left # None /\ call' = [call EXCEPT ![c] = left]
               /\ left.kind = call[c].kind /\ left.goal = call[c].goal /\ left.text = call[c].text
               /\ left.status = status
  BY <1>1, <1>6, ServedCall DEF ListInv, ListTypeOK, Statuses
<1>7. CASE Refuse(c) /\ UNCHANGED made
  <2>1. call' = [call EXCEPT ![c].status = "error"] /\ made'[x] = made[x]
    BY <1>7 DEF Refuse
  <2> QED BY <1>4, <1>6, <2>1
<1>8. CASE call[c].kind # "list" /\ Serve(c, Effect(call[c])) /\ Count(call[c])
  <2>1. call[c].kind \in Changes
    BY <1>1, <1>8 DEF Call
  <2>2. made'[x] = (IF call[c].kind = "add" /\ call[c].text = x THEN made[x] + 1 ELSE made[x])
    BY <1>1, <1>2, <1>8, <2>1, EffectTable DEF Serve
  <2>3. call' = [call EXCEPT ![c].status = "ok"]
    BY <1>8 DEF Serve
  <2>4. PICK left \in Call :
               /\ left # None /\ call' = [call EXCEPT ![c] = left]
               /\ left.kind = call[c].kind /\ left.goal = call[c].goal /\ left.text = call[c].text
               /\ left.status = "ok"
    BY <1>6, <2>3
  <2>5. CASE ~(call[c].kind = "add" /\ call[c].text = x)
    BY <1>4, <2>2, <2>4, <2>5
  <2>6. CASE call[c].kind = "add" /\ call[c].text = x
    <3>1. Pending(x) /\ Pends(c, x)
      BY <1>1, <2>6 DEF Pending, Pends
    <3>2. made[x] \in Nat /\ x \in Nat
      BY <1>1, <1>2 DEF MadeInv, Texts
    <3>3. made'[x] = 1 /\ ~Strayed(x) /\ ~(x > typed)
      BY <1>3, <2>2, <2>6, <3>1, <3>2 DEF Once
    <3>4. Finishing(x)'
      BY <1>1, <2>4, <2>6, OnceMoved
    <3>5. ~Pending(x)'
      <4>1. SUFFICES ASSUME NEW d \in Slots, Pends(d, x)'
                     PROVE  FALSE
        BY DEF Pending
      <4>2. /\ call'[c] = left
            /\ \A e \in Slots \ {c} : call'[e] = call[e]
        BY <1>1, <2>4, CallMoves DEF ListInv, ListTypeOK
      <4>3. d # c /\ call[d] # None /\ call[d].kind = "add"
        BY <2>4, <4>1, <4>2 DEF Pends
      <4>4. c \in Under({"add", "update"}) /\ d \in Under({"add", "update"})
        BY <1>1, <2>6, <4>3 DEF Under, ListInv, Proper
      <4> QED BY <4>3, <4>4 DEF RosterInv, RosterMarks, Alone
    <3> QED BY <1>1, <1>3, <3>3, <3>4, <3>5 DEF Once
  <2> QED BY <2>5, <2>6
<1> QED BY <1>5, <1>7, <1>8 DEF RosterServe

LEMMA OnceStrayed ==
    ASSUME RosterInv, OnceInv, RosterStray \/ (OtherAdministrator /\ UNCHANGED rosterVars)
    PROVE  OnceInv'
<1>1. /\ ListInv /\ MadeInv /\ AddsAsked /\ typed \in Nat
      /\ UNCHANGED <<form, typed, unsure, call>> /\ stray' \subseteq stray
  <2>1. UNCHANGED <<form, typed, unsure, call>> /\ stray' \subseteq stray
    BY DEF RosterStray, rosterVars, DropStray, ServeStray, OtherAdministrator
  <2>2. typed \in 0..MaxTexts
    BY DEF RosterInv, RosterMarks
  <2> QED BY <2>1, <2>2 DEF RosterInv
<1>2. SUFFICES ASSUME NEW x \in Texts \ unsure
               PROVE  Once(x)'
  BY <1>1 DEF OnceInv
<1>3. /\ Once(x) /\ (Strayed(x)' => Strayed(x))
      /\ (Pending(x)' <=> Pending(x)) /\ (Finishing(x)' <=> Finishing(x))
  BY <1>1 DEF OnceInv, Strayed, Pending, Pends, Finishing, Finishes
<1>4. ASSUME made'[x] = made[x]
      PROVE  Once(x)'
  BY <1>1, <1>3, <1>4, OnceFrame
<1>5. CASE UNCHANGED made
  BY <1>4, <1>5
<1>6. ASSUME NEW s \in stray, ServeStray(s, Effect(s)), Count(s)
      PROVE  Once(x)'
  <2>1. s \in Call /\ s.kind \in Changes
    <3>1. s \in Call
      BY <1>1 DEF ListInv, ListTypeOK
    <3> QED BY <1>1, <3>1 DEF AddsAsked, Call
  <2>2. made'[x] = (IF s.kind = "add" /\ s.text = x THEN made[x] + 1 ELSE made[x])
    BY <1>1, <1>2, <1>6, <2>1, EffectTable DEF ServeStray
  <2>3. CASE ~(s.kind = "add" /\ s.text = x)
    BY <1>4, <2>2, <2>3
  <2>4. CASE s.kind = "add" /\ s.text = x
    <3>1. Strayed(x)
      BY <2>4 DEF Strayed
    <3>2. made[x] \in Nat /\ x \in Nat
      BY <1>1, <1>2 DEF MadeInv, Texts
    <3>3. made'[x] = 1 /\ ~Pending(x) /\ form # x /\ ~(x > typed)
      BY <1>3, <2>2, <2>4, <3>1, <3>2 DEF Once
    <3>4. ~Strayed(x)'
      <4>1. stray' = stray \ {s}
        BY <1>6 DEF ServeStray
      <4>2. \A t \in stray : t.kind = "add" /\ t.text = x => t = s
        BY <1>1, <2>4 DEF AddsAsked
      <4> QED BY <4>1, <4>2 DEF Strayed
    <3> QED BY <1>1, <1>3, <3>3, <3>4 DEF Once
  <2> QED BY <2>3, <2>4
<1> QED BY <1>5, <1>6 DEF RosterStray, rosterVars

LEMMA OnceMounted ==
    ASSUME RosterInv, OnceInv, RosterMount
    PROVE  OnceInv'
<1>1. /\ ListInv /\ typed \in Nat /\ MountList /\ form' = None
      /\ UNCHANGED <<typed, made, unsure>> /\ stray' = stray \cup Orphans
  <2>1. /\ MountList /\ form' = None
        /\ UNCHANGED <<typed, made, unsure>> /\ stray' = stray \cup Orphans
    BY DEF RosterMount, FreshPage, MountList
  <2>2. typed \in 0..MaxTexts
    BY DEF RosterInv, RosterMarks
  <2> QED BY <2>1, <2>2 DEF RosterInv
<1>2. SUFFICES ASSUME NEW x \in Texts \ unsure
               PROVE  Once(x)'
  BY <1>1 DEF OnceInv
<1>3. Once(x) /\ form' # x
  BY <1>1, <1>2 DEF OnceInv
<1>4. ~Pending(x)'
  <2>1. PICK c \in Slots :
          /\ call'[c] = Asks("list", "mount", None, None)
          /\ \A d \in Slots \ {c} : call'[d] = None
    BY <1>1, MountedCalls DEF MountList
  <2>2. Asks("list", "mount", None, None).kind = "list"
    BY AskedType DEF Changes, Content
  <2> QED BY <2>1, <2>2 DEF Pending, Pends
<1>5. Strayed(x)' => Strayed(x) \/ Pending(x)
  BY <1>1 DEF Strayed, Orphans, Waits, Waiting, Pending, Pends
<1> QED BY <1>1, <1>3, <1>4, <1>5 DEF Once

LEMMA OnceSent ==
    ASSUME RosterInv, OnceInv, NEW kind \in Changes, NEW id \in Ids \cup {None}, NEW text \in Content,
           Send(kind, id, text), kind = "add" => form = text /\ ~formBusy,
           UNCHANGED <<form, typed, made, unsure>>
    PROVE  OnceInv'
<1>1. ListInv /\ MadeInv /\ typed \in Nat
  BY DEF RosterInv, RosterMarks
<1>2. SUFFICES ASSUME NEW x \in Texts \ unsure
               PROVE  Once(x)'
  BY DEF OnceInv
<1> DEFINE left == Asks(kind, kind, id, text)
<1>3. PICK c \in Slots : call[c] = None /\ call' = [call EXCEPT ![c] = left] /\ stray' = stray
  BY DEF Send
<1>4. left \in Call /\ left.kind = kind /\ left.text = text
  BY AskedType
<1>5. /\ Once(x) /\ (Strayed(x)' <=> Strayed(x)) /\ ~Finishes(c, x)
  BY <1>2, <1>3 DEF OnceInv, Strayed, Finishes
<1>6. /\ Pending(x)' => Pending(x) \/ (kind = "add" /\ text = x)
      /\ Finishing(x) => Finishing(x)'
  <2> HIDE DEF left
  <2>1. /\ Pending(x)' => \/ Pending(x)
                          \/ left # None /\ left.kind = "add" /\ left.text = x /\ left.status = "pending"
        /\ Finishing(x) => Finishing(x)' \/ Finishes(c, x)
    BY <1>1, <1>3, <1>4, OnceMoved
  <2> QED BY <1>4, <1>5, <2>1
<1>7. CASE ~(kind = "add" /\ text = x)
  BY <1>1, <1>5, <1>6, <1>7, OnceFrame
<1>8. CASE kind = "add" /\ text = x
  <2>1. Under({"add", "update"}) = {} /\ form = x
    BY <1>8 DEF RosterInv, RosterMarks
  <2>2. ~Finishing(x)
    BY <2>1 DEF Finishing, Finishes, Under
  <2>3. made[x] \in Nat /\ x \in Nat
    BY <1>1, <1>2 DEF MadeInv, Texts
  <2>4. made[x] = 0 /\ ~Strayed(x) /\ ~(x > typed)
    BY <1>5, <2>1, <2>2, <2>3 DEF Once
  <2> QED BY <1>5, <2>4 DEF Once
<1> QED BY <1>7, <1>8

LEMMA OnceKept ==
    ASSUME RosterInv, OnceInv, RosterNext
    PROVE  OnceInv'
<1>1. /\ typed \in Nat /\ typed \in 0..MaxTexts /\ form \in Texts \cup {None}
      /\ edit \in [id : Ids, text : Texts] \cup {None} /\ doomed \in Ids \cup {None} /\ ListInv
  BY DEF RosterInv, RosterMarks
<1>2. ASSUME UNCHANGED <<call, stray, made, unsure>>, typed' = typed \/ NewText,
             form' = form \/ (form' = typed' /\ NewText)
      PROVE  OnceInv'
  <2>1. typed' \in Nat /\ typed <= typed' /\ (NewText => typed < typed')
    BY <1>1, <1>2 DEF NewText
  <2>2. SUFFICES ASSUME NEW x \in Texts \ unsure
                 PROVE  Once(x)'
    BY <1>2 DEF OnceInv
  <2>3. /\ Once(x) /\ (Strayed(x)' <=> Strayed(x))
        /\ (Pending(x)' <=> Pending(x)) /\ (Finishing(x)' <=> Finishing(x))
    BY <1>2, <2>2 DEF OnceInv, Strayed, Pending, Pends, Finishing, Finishes
  <2>4. CASE form' = x => form = x
    BY <1>1, <1>2, <2>1, <2>3, <2>4, OnceFrame
  <2>5. CASE form' = x /\ form # x
    <3>1. x > typed /\ ~(x > typed') /\ x \in Nat
      BY <1>1, <1>2, <2>1, <2>5 DEF Texts
    <3>2. made[x] = 0 /\ ~Strayed(x) /\ ~Pending(x)
      BY <2>3, <3>1 DEF Once
    <3> QED BY <1>2, <2>3, <3>1, <3>2 DEF Once
  <2> QED BY <2>4, <2>5
<1>3. CASE Type \/ ChooseImage \/ EndCrop \/ CancelEdit \/ CancelDelete \/ \E i \in Offered : OpenEdit(i) \/ AskDelete(i)
  BY <1>2, <1>3 DEF Type, ChooseImage, EndCrop, CancelEdit, CancelDelete, OpenEdit, AskDelete, listVars
<1>4. CASE SubmitAdd
  <2>1. form \in Content /\ "add" \in Changes /\ None \in Ids \cup {None}
    BY <1>1 DEF Content, Changes
  <2> QED BY <1>4, <2>1, OnceSent DEF SubmitAdd, Ready
<1>5. CASE SubmitEdit
  <2>1. edit.id \in Ids /\ edit.text \in Content /\ "update" \in Changes /\ "update" # "add"
    BY <1>1, <1>5 DEF SubmitEdit, Content, Changes
  <2> QED BY <1>5, <2>1, OnceSent DEF SubmitEdit
<1>6. CASE ConfirmDelete
  <2>1. doomed \in Ids /\ None \in Content /\ "delete" \in Changes /\ "delete" # "add"
    BY <1>1, <1>6 DEF ConfirmDelete, Content, Changes
  <2> QED BY <1>6, <2>1, OnceSent DEF ConfirmDelete
<1> QED BY <1>3, <1>4, <1>5, <1>6, OnceMounted, OnceReplied, OnceServed, OnceStrayed DEF RosterNext

-----------------------------------------------------------------------------
(* The dashboard. *)

PageInv ==
    /\ card \in Cards
    /\ ListInv
    /\ card = "candidates" => RosterInv /\ OnceInv
    /\ card # "candidates" => made = [x \in Texts |-> 0]
    /\ card = "domains" => DomainsInv
    /\ card \in {"control", "mode"} => SettingsInv /\ shown.version = version
    /\ card = "control" => ControlKnows
    /\ card = "mode" => SwitchKnows

LEMMA PageInit == Init => PageInv
<1> SUFFICES ASSUME Init
             PROVE  PageInv
  OBVIOUS
<1>1. card \in Cards /\ ListInv /\ RosterInv /\ DomainsInv /\ SettingsInv
  BY ListInitInv, RosterInitInv, DomainsInitInv, SettingsInitInv DEF Init
<1>2. made = [x \in Texts |-> 0] /\ form = None /\ stray = {} /\ typed = 0 /\ unsure = {}
      /\ shown.version = version
  BY DEF Init, RosterInit, ListInit
<1>3. OnceInv
  <2>1. Asks("list", "mount", None, None).kind = "list"
    BY AskedType DEF Changes, Content
  <2>2. \A x \in Texts : ~Pending(x)
    BY <2>1 DEF Init, ListInit, Mounting, Pending, Pends
  <2>3. \A x \in Texts : made[x] = 0 /\ ~Strayed(x) /\ form # x
    BY <1>2 DEF Strayed
  <2> QED BY <2>2, <2>3 DEF OnceInv, Once
<1>4. ControlKnows /\ SwitchKnows
  <2>1. loadCall = Loading /\ Loading.answer = None /\ copy = Defaults /\ saveCall = None
    BY DEF Init, SettingsInit, Loading
  <2> QED BY <2>1, LoadingType DEF ControlKnows, SwitchKnows
<1> QED BY <1>1, <1>2, <1>3, <1>4 DEF PageInv

LEMMA PageNext == PageInv /\ [Next]_vars => PageInv'
<1> SUFFICES ASSUME PageInv, [Next]_vars
             PROVE  PageInv'
  OBVIOUS
<1> USE DEF Cards
<1>1. CASE Candidates
  <2>1. RosterInv' /\ OnceInv' /\ card = "candidates" /\ card' = card
    BY <1>1, RosterKept, OnceKept DEF Candidates, PageInv
  <2> QED BY <2>1 DEF PageInv, RosterInv
<1>2. CASE Domains
  <2>1. DomainsInv' /\ card = "domains" /\ card' = card /\ made' = made
    BY <1>2, DomainsKept DEF Domains, PageInv, rosterVars
  <2> QED BY <2>1 DEF PageInv, DomainsInv
<1>3. CASE VotingSettings
  <2>1. ListInv' /\ card' = card /\ made' = made /\ shown' = shown /\ version' = version
    BY <1>3 DEF VotingSettings, PageInv, listVars, rosterVars, ListInv, ListTypeOK, Proper, Renewed, Renews, Made
  <2>2. CASE card = "control"
    <3>1. SettingsOf = Control /\ Control \in {Control, Switch}
      BY <2>2 DEF SettingsOf
    <3>2. SettingsInv' /\ ControlKnows'
      BY <1>3, <2>2, <3>1, SettingsTyped, ControlStep DEF VotingSettings, PageInv
    <3> QED BY <2>1, <2>2, <3>2 DEF PageInv
  <2>3. CASE card = "mode"
    <3>1. SettingsOf = Switch /\ Switch \in {Control, Switch}
      BY <2>3 DEF SettingsOf
    <3>2. SettingsInv' /\ SwitchKnows'
      BY <1>3, <2>3, <3>1, SettingsTyped, SwitchStep DEF VotingSettings, PageInv
    <3> QED BY <2>1, <2>3, <3>2 DEF PageInv
  <2> QED BY <1>3, <2>2, <2>3 DEF VotingSettings
<1>4. CASE UNCHANGED vars
  <2>1. UNCHANGED <<card, rows, version, shown, spinner, call, stray, excused, form, cropping, edit, doomed, formBusy,
                    deleting, typed, made, unsure, newDomain, adding, deletingId>>
    BY <1>4 DEF vars, listVars, rosterVars, domainsVars
  <2>2. UNCHANGED <<settings, cached, held, overlap, copy, loadCall, saveCall, late, touched, doubtful>>
    BY <1>4 DEF vars, settingsVars, cache
  <2>3. ListInv'
    BY <2>1 DEF PageInv, ListInv, ListTypeOK, Proper, Renewed, Renews, Made
  <2>4. RosterInv => RosterInv'
    BY <2>1, <2>3 DEF RosterInv, RosterMarks, MadeInv, AddsAsked, Under, Alone
  <2>5. OnceInv => OnceInv'
    BY <2>1 DEF OnceInv, Once, Pending, Pends, Strayed, Finishing, Finishes
  <2>6. DomainsInv => DomainsInv'
    BY <2>1, <2>3 DEF DomainsInv, DomainsTypeOK, ListInv, Alone, Under
  <2>7. SettingsInv => SettingsInv'
    BY <2>2 DEF SettingsInv, SettingsTypeOK
  <2>8. (ControlKnows => ControlKnows') /\ (SwitchKnows => SwitchKnows')
    BY <2>2 DEF ControlKnows, SwitchKnows
  <2> QED BY <2>1, <2>3, <2>4, <2>5, <2>6, <2>7, <2>8 DEF PageInv
<1> QED BY <1>1, <1>2, <1>3, <1>4 DEF Next

LEMMA PageHolds == Spec => []PageInv
BY PageInit, PageNext, PTL DEF Spec

\* Types of the four parts, with what busy marks say: the add and edit forms, a deletion
\* and the domain input are busy exactly while a handler of theirs runs (formLoading,
\* deleteLoading, domainAddLoading), so that none of them stays disabled.
THEOREM TypesHold == Spec => []TypeOK
<1>1. PageInv => TypeOK
  BY RosterTyped DEF PageInv, TypeOK, Cards, DomainsInv, SettingsInv
<1> QED BY <1>1, PageHolds, PTL

\* When nothing is under way the page shows the table, but for the known reasons
\* (fetchCandidates and fetchDomains after every change that the server agreed to).
THEOREM ListsRenewed == Spec => []ShownIsStored
<1>1. PageInv => ShownIsStored
  BY DEF PageInv, ListInv, Renewed, Renews, Quiet, ShownIsStored
<1> QED BY <1>1, PageHolds, PTL

\* What was typed into the add form once becomes two candidates only if a submission of it
\* got no answer (handleAdd, handleSubmit and the busy mark between them).
THEOREM AddedOnce == Spec => []OneRowPerText
<1>1. ASSUME PageInv, NEW x \in Texts, made[x] > 1
      PROVE  x \in unsure
  <2>1. card = "candidates"
    BY <1>1 DEF PageInv
  <2>2. made[x] \in Nat
    BY <1>1, <2>1 DEF PageInv, RosterInv, MadeInv
  <2> QED BY <1>1, <2>1, <2>2 DEF PageInv, OnceInv, Once
<1>2. PageInv => OneRowPerText
  BY <1>1 DEF OneRowPerText
<1> QED BY <1>2, PageHolds, PTL

\* When nothing is under way the switch of EmailDomainsCard shows the mode, but for the
\* known reasons (handleToggleMode moves it when the server has agreed).
THEOREM SwitchTold == Spec => []SwitchShowsMode
<1>1. PageInv => SwitchShowsMode
  BY DEF PageInv, SwitchKnows, SwitchShowsMode
<1> QED BY <1>1, PageHolds, PTL

\* A save of VotingControlCard writes the opening and the deadline both, and changes what
\* was not edited only if the page could not know better.
THEOREM UntouchedKept == Spec => SaveKeepsUntouched
<1> DEFINE Kept == \A f \in Control :
                     /\ Waiting(saveCall) /\ saveCall' # None /\ saveCall'.status = "ok"
                     /\ settings'[f] # settings[f]
                     => f \in saveCall.meant \cup doubtful
<1>1. PageInv /\ [Next]_vars => [Kept]_settingsVars
  <2> SUFFICES ASSUME PageInv, [Next]_vars, NEW f \in Control,
                      Waiting(saveCall), saveCall' # None, saveCall'.status = "ok", settings'[f] # settings[f]
               PROVE  f \in saveCall.meant \cup doubtful
    OBVIOUS
  <2>1. VotingSettings
    BY DEF Next, Candidates, Domains, vars, settingsVars
  <2>2. /\ SettingsInv /\ saveCall # None /\ saveCall.status = "pending" /\ settings \in Values
        /\ saveCall \in Saves
    BY <2>1 DEF VotingSettings, PageInv, Waiting, SettingsInv, SettingsTypeOK
  <2>3. SettingsNext(SettingsOf) /\ SettingsOf \in {Control, Switch}
    BY <2>1 DEF VotingSettings, SettingsOf
  <2>4. ServeSave(SettingsOf)
    <3>1. ~ServeLoad(SettingsOf)
      BY <2>2, <2>3, LoadServed
    <3>2. ~(RedisRestart \/ \E r \in Readers : OtherMiss(r) \/ OtherFill(r))
      BY <2>2, CacheMoved
    <3> QED BY <2>2, <2>3, <3>1, <3>2 DEF SettingsNext, SettingsReply, SettingsMount, ToggleMode, Put, Edit, Save,
                                          LoadReply, SaveReply, ServeLate, SettingsElsewhere
  <2>5. saveCall.wish \in Values /\ f \in Fields
    BY <2>2 DEF Saves, Control, Fields
  <2>6. settings'[f] = (IF f \in SettingsOf THEN saveCall.wish[f] ELSE settings[f])
    <3>1. Update(saveCall.wish, SettingsOf)
      BY <2>2, <2>4 DEF ServeSave
    <3>2. cached \in Values \cup {None} /\ overlap \in BOOLEAN
      BY <2>2 DEF SettingsInv, SettingsTypeOK
    <3> QED BY <2>2, <2>5, <3>1, <3>2, RowUpdated
  <2>7. f \in SettingsOf /\ card = "control"
    BY <2>1, <2>6 DEF VotingSettings, SettingsOf, Control, Switch
  <2>8. ControlKnows
    BY <2>7 DEF PageInv
  <2> QED BY <2>2, <2>6, <2>7, <2>8 DEF ControlKnows
<1> QED BY <1>1, PageHolds, PTL DEF Spec, SaveKeepsUntouched

=============================================================================
