------------------------------- MODULE ListCard -------------------------------
(***************************************************************************)
(* What the two lists of the administrator's dashboard (candidates and     *)
(* e-mail domains) have in common: a table on the server, the copy on the  *)
(* page, which is fetched when the page is mounted and again after every   *)
(* change, and the HTTP calls in between.                                  *)
(***************************************************************************)
EXTENDS DashboardCalls, Naturals, Sequences

CONSTANTS
    Slots,          \* bound of the model: HTTP calls in flight
    MaxRows,        \* bound of the model: rows ever inserted
    MaxTexts,       \* bound of the model: contents of rows
    MaxChanges      \* bound of the model: changes of the table

ASSUME ListBounds == MaxRows \in Nat /\ MaxTexts \in Nat /\ MaxChanges \in Nat

VARIABLES
    rows,       \* the table: id -> content, or None once deleted
    version,    \* how often it changed
    shown,      \* the list on the page: [rows, version]
    spinner,    \* whether the page still waits for its first list
    call,       \* slot -> HTTP call of the page, or None
    stray,      \* changes under way that no page waits for any more
    excused     \* history: the list is outdated, for one of the known reasons

listVars == <<rows, version, shown, spinner, call, stray, excused>>

Texts  == 1..MaxTexts
Ids    == 1..MaxRows
Tables == UNION {[1..n -> Texts \cup {None}] : n \in 0..MaxRows}
List   == [rows : Tables, version : 0..MaxChanges]

Changes == {"add", "update", "delete"}

\* goal: what the handler that makes the call is about; answer: a list, if that was asked.
Call == [kind : Changes \cup {"list"}, goal : Changes \cup {"mount"}, id : Ids \cup {None},
         text : Texts \cup {None}, status : Statuses, answer : List \cup {None}]

ASSUME NoneIsNew == None \notin Texts \cup Call

-----------------------------------------------------------------------------
(* Mutated form: a change is not followed by a new list. *)
NoRefetch(c) == None

-----------------------------------------------------------------------------
(* The page. *)

Asks(kind, goal, id, text) ==
    [kind |-> kind, goal |-> goal, id |-> id, text |-> text, status |-> "pending", answer |-> None]

Mounting == {[d \in Slots |-> IF d = c THEN Asks("list", "mount", None, None) ELSE None] : c \in Slots}

ListInit ==
    /\ rows = <<>>
    /\ version = 0
    /\ shown = [rows |-> <<>>, version |-> 0]
    /\ spinner = TRUE
    /\ call \in Mounting
    /\ stray = {}
    /\ excused = FALSE

Offered == {i \in DOMAIN shown.rows : shown.rows[i] # None}

Note(reason) == excused' = (shown'.version # version' /\ (excused \/ reason))

Send(kind, id, text) ==
    /\ \E c \in Slots : call[c] = None /\ call' = [call EXCEPT ![c] = Asks(kind, kind, id, text)]
    /\ UNCHANGED <<rows, version, shown, spinner, stray, excused>>

Waits(c) == Waiting(call[c])

\* The changes of the page that the server may still make when it is gone.
Orphans == {call[c] : c \in {d \in Slots : Waits(d) /\ call[d].kind # "list"}}

\* The page is left, or loaded again.
MountList ==
    /\ shown' = [rows |-> <<>>, version |-> 0]
    /\ spinner' = TRUE
    /\ call' \in Mounting
    /\ stray' = stray \cup Orphans
    /\ UNCHANGED <<rows, version>>
    /\ Note(FALSE)

-----------------------------------------------------------------------------
(* The continuations. *)

Answered(c, ok) ==
    /\ Over(call[c], ok)
    /\ stray' = IF Waits(c) /\ call[c].kind # "list" THEN stray \cup {call[c]} ELSE stray

Made(c) == call[c].kind # "list" /\ call[c].status = "ok"

\* fetchCandidates, fetchDomains: a failure leaves the old list.
ListReply(c, ok) ==
    /\ Answered(c, ok) /\ call[c].kind = "list"
    /\ shown' = IF ok THEN call[c].answer ELSE shown
    /\ spinner' = FALSE
    /\ call' = [call EXCEPT ![c] = None]
    /\ UNCHANGED <<rows, version>>
    /\ Note(~ok \/ shown'.version < shown.version)

Refetch(c) == Asks("list", call[c].goal, None, None)

\* A change that succeeded is followed by a new list, within the same handler.
ChangeReply(c, ok) ==
    /\ Answered(c, ok) /\ call[c].kind # "list"
    /\ call' = [call EXCEPT ![c] = IF ok THEN Refetch(c) ELSE None]
    /\ UNCHANGED <<rows, version, shown, spinner>>
    /\ Note(~ok /\ Made(c))

-----------------------------------------------------------------------------
(* The server. *)

Stored == {i \in DOMAIN rows : rows[i] # None}

\* The table after a change, for the requests that it accepts.
Inserted(text) == Append(rows, text)
Updated(id, text) == [rows EXCEPT ![id] = text]
Deleted(id) == [rows EXCEPT ![id] = None]

Changed(table) ==
    /\ Len(table) <= MaxRows /\ version < MaxChanges
    /\ rows' = table
    /\ version' = version + 1

ServeList(c) ==
    /\ Waits(c) /\ call[c].kind = "list"
    /\ call' = [call EXCEPT ![c].status = "ok", ![c].answer = [rows |-> rows, version |-> version]]
    /\ UNCHANGED <<rows, version, shown, spinner, stray, excused>>

Refuse(c) ==
    /\ Waits(c)
    /\ call' = [call EXCEPT ![c].status = "error"]
    /\ UNCHANGED <<rows, version, shown, spinner, stray, excused>>

Serve(c, table) ==
    /\ Changed(table)
    /\ call' = [call EXCEPT ![c].status = "ok"]
    /\ UNCHANGED <<shown, spinner, stray>>
    /\ Note(FALSE)

ServeStray(s, table) ==
    /\ Changed(table)
    /\ stray' = stray \ {s}
    /\ UNCHANGED <<shown, spinner, call>>
    /\ Note(TRUE)

DropStray ==
    /\ \E s \in stray : stray' = stray \ {s}
    /\ UNCHANGED <<rows, version, shown, spinner, call, excused>>

OtherAdministrator ==
    /\ Elsewhere
    /\ \/ \E text \in Texts : (\A i \in Stored : rows[i] # text) /\ Changed(Inserted(text))
       \/ \E id \in Stored : Changed(Deleted(id))
    /\ UNCHANGED <<shown, spinner, call, stray>>
    /\ Note(TRUE)

-----------------------------------------------------------------------------
(* Properties. *)

ListTypeOK ==
    /\ rows \in Tables /\ version \in 0..MaxChanges
    /\ shown \in List /\ spinner \in BOOLEAN /\ excused \in BOOLEAN
    /\ call \in [Slots -> Call \cup {None}]
    /\ stray \subseteq Call

Quiet == \A c \in Slots : call[c] = None

\* When nothing is under way, the page shows the table as it is, unless a list failed to
\* come or was overtaken by an older one, a change was not answered, or somebody else
\* changed the table (fetchCandidates, fetchDomains after every change).
ShownIsStored == Quiet /\ shown.version # version => excused

=============================================================================
