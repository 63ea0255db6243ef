----------------------------- MODULE SettingsCards -----------------------------
(***************************************************************************)
(* The voting settings on the administrator's dashboard.  They are edited  *)
(* in two places that share nothing but the row on the server:             *)
(* VotingControlCard edits a copy and saves it, and the switch of          *)
(* EmailDomainsCard sends its new position at once.  Either copy is read   *)
(* once, when the page is mounted, from the copy in Redis if there is one. *)
(* The cache is that of VotingSettings; an update writes the row and       *)
(* deletes the cached copy in one step here: whoever is answered with it   *)
(* between the two was answered before.                                    *)
(***************************************************************************)
EXTENDS Naturals, FiniteSets, DashboardCalls

CONSTANTS
    Deadlines,      \* bound of the model: the moments one can pick
    MaxLate,        \* bound of the model: saves under way that no page waits for
    Readers         \* other requests that read the settings: voters, publishers

VARIABLES
    settings,   \* the row
    cached,     \* Redis voting:settings, or None
    held,       \* reader -> the row it found when the cache had nothing, and is going
                \* to store, or None
    overlap,    \* history: the cache was filled from a row older than the table's,
                \* or a deletion of it was lost, since it was last right
    copy,       \* what the page shows of it
    loadCall,   \* GET /api/voting-status, or None; the spinner turns as long
    saveCall,   \* PUT of the settings or of the mode, or None; the button is
                \* disabled as long (votingLoading, modeLoading)
    late,       \* wishes under way that no page waits for any more
    touched,    \* history: what was edited on this page
    doubtful    \* history: what the page may show wrongly, for one of the known reasons

cache        == <<cached, held, overlap>>
settingsVars == <<settings, cache, copy, loadCall, saveCall, late, touched, doubtful>>

Values  == [open : BOOLEAN, ends : Deadlines \cup {None}, only : BOOLEAN]
Fields  == {"open", "ends", "only"}
Control == {"open", "ends"}
Switch  == {"only"}

\* answer: the row or the cached copy that GetStatus found; wish: the values sent; meant: those of them that were edited.
Loads == [status : Statuses, answer : Values \cup {None}]
Saves == [status : Statuses, wish : Values, meant : SUBSET Fields]

ASSUME NoneIsNoCall == None \notin Loads \cup Saves
ASSUME NoneIsNoRow  == None \notin Values
ASSUME MaxLateType  == MaxLate \in Nat

-----------------------------------------------------------------------------
(* Mutated forms: the card is operable while it loads, and the switch moves whatever
   the answer. *)
OperableAtOnce      == TRUE
MoveAnyway(ok, wish) == wish.only

-----------------------------------------------------------------------------
Defaults == [open |-> TRUE, ends |-> None, only |-> FALSE]
Loading  == [status |-> "pending", answer |-> None]

\* The row of earlier sessions is any.
SettingsInit ==
    /\ settings \in Values
    /\ cached = None /\ held = [r \in Readers |-> None] /\ overlap = FALSE
    /\ copy = Defaults
    /\ loadCall = Loading
    /\ saveCall = None
    /\ late = {} /\ touched = {} /\ doubtful = {}

Abandoned == IF Waiting(saveCall) THEN late \cup {saveCall.wish} ELSE late

\* The page is left, or loaded again.
SettingsMount ==
    /\ Cardinality(Abandoned) <= MaxLate
    /\ copy' = Defaults
    /\ loadCall' = Loading
    /\ saveCall' = None
    /\ late' = Abandoned
    /\ touched' = {} /\ doubtful' = {}
    /\ UNCHANGED <<settings, cache>>

-----------------------------------------------------------------------------
(* The administrator. *)

Operable == loadCall = None

\* The toggle and the date picker, also while a save is under way.
Edit ==
    /\ Operable
    /\ \/ copy' = [copy EXCEPT !.open = ~@] /\ touched' = touched \cup {"open"}
       \/ \E t \in (Deadlines \cup {None}) \ {copy.ends} :
            copy' = [copy EXCEPT !.ends = t] /\ touched' = touched \cup {"ends"}
    /\ UNCHANGED <<settings, cache, loadCall, saveCall, late, doubtful>>

Put(wish, meant) ==
    /\ saveCall = None
    /\ saveCall' = [status |-> "pending", wish |-> wish, meant |-> meant]
    /\ UNCHANGED <<settings, cache, copy, loadCall, late, touched, doubtful>>

Save == Operable /\ Put(copy, touched)

\* The switch does not wait for the status.
ToggleMode == Put([copy EXCEPT !.only = ~@], Switch)

-----------------------------------------------------------------------------
(* The continuations. *)

\* A status without a deadline leaves the one on the page.
Taken(answer, fields) ==
    [f \in Fields |-> IF f \in fields /\ (f = "ends" => answer.ends # None) THEN answer[f] ELSE copy[f]]

\* A failure keeps the defaults, which the administrator can go on from.
LoadReply(fields) ==
    /\ \/ Over(loadCall, TRUE)
          /\ copy' = Taken(loadCall.answer, fields)
          /\ doubtful' = doubtful
       \/ Over(loadCall, FALSE)
          /\ copy' = copy
          /\ doubtful' = doubtful \cup fields
    /\ loadCall' = None
    /\ UNCHANGED <<settings, cache, saveCall, late, touched>>

Moved(ok, wish) == IF ok THEN wish.only ELSE copy.only

\* handleSave leaves the copy as it is; handleToggleMode moves the switch when the
\* server has agreed.
SaveReply(fields) ==
    /\ Cardinality(Abandoned) <= MaxLate
    /\ \E ok \in BOOLEAN :
         /\ Over(saveCall, ok)
         /\ copy' = IF fields = Switch THEN [copy EXCEPT !.only = Moved(ok, saveCall.wish)] ELSE copy
         /\ doubtful' = IF ~ok /\ saveCall.status = "ok" THEN doubtful \cup (fields \cap Switch) ELSE doubtful
    /\ saveCall' = None
    /\ late' = Abandoned
    /\ UNCHANGED <<settings, cache, loadCall, touched>>

-----------------------------------------------------------------------------
(* The server: GetVotingStatus, UpdateVotingSettings, UpdateDomainMode. *)

Written(wish, fields) == [f \in Fields |-> IF f \in fields THEN wish[f] ELSE settings[f]]

\* GetStatus answers with the cached copy, if there is one, without looking at the row.
LoadHit(fields) ==
    /\ Waiting(loadCall) /\ loadCall.answer = None /\ cached # None
    /\ loadCall' = [status |-> "ok", answer |-> cached]
    /\ doubtful' = IF overlap THEN doubtful \cup {f \in fields : cached[f] # settings[f]} ELSE doubtful
    /\ UNCHANGED <<settings, cache, copy, saveCall, late, touched>>

\* A miss, or an error of Redis: the row is read.
LoadMiss ==
    /\ Waiting(loadCall) /\ loadCall.answer = None
    /\ cached = None \/ CallFaults
    /\ loadCall' = [loadCall EXCEPT !.answer = settings]
    /\ UNCHANGED <<settings, cache, copy, saveCall, late, touched, doubtful>>

Fill(row) == cached' = row /\ overlap' = (row # settings)

\* It is stored, whatever became of the row meanwhile, before the answer.
LoadFill ==
    /\ Waiting(loadCall) /\ loadCall.answer # None
    /\ \/ Fill(loadCall.answer)
       \/ CallFaults /\ UNCHANGED <<cached, overlap>>
    /\ loadCall' = [loadCall EXCEPT !.status = "ok"]
    /\ UNCHANGED <<settings, held, copy, saveCall, late, touched, doubtful>>

LoadError ==
    /\ CallFaults /\ Waiting(loadCall) /\ loadCall.answer = None
    /\ loadCall' = [loadCall EXCEPT !.status = "error"]
    /\ UNCHANGED <<settings, cache, copy, saveCall, late, touched, doubtful>>

ServeLoad(fields) == LoadHit(fields) \/ LoadMiss \/ LoadFill \/ LoadError

\* The gates of the voter endpoints and the payloads of the hub read the settings too.
OtherMiss(r) ==
    /\ held[r] = None
    /\ cached = None \/ CallFaults
    /\ held' = [held EXCEPT ![r] = settings]
    /\ UNCHANGED <<settings, cached, overlap, copy, loadCall, saveCall, late, touched, doubtful>>

OtherFill(r) ==
    /\ held[r] # None
    /\ \/ Fill(held[r])
       \/ CallFaults /\ UNCHANGED <<cached, overlap>>
    /\ held' = [held EXCEPT ![r] = None]
    /\ UNCHANGED <<settings, copy, loadCall, saveCall, late, touched, doubtful>>

RedisRestart ==
    /\ CallFaults
    /\ cached' = None /\ overlap' = FALSE
    /\ UNCHANGED <<settings, held, copy, loadCall, saveCall, late, touched, doubtful>>

\* The deletion that follows a write; its failure is only logged.
Invalidated ==
    \/ cached' = None /\ overlap' = FALSE
    \/ CallFaults /\ UNCHANGED cached /\ overlap' = TRUE

Update(wish, fields) == settings' = Written(wish, fields) /\ Invalidated /\ UNCHANGED held

\* A click takes effect while an older status is on its way.
Overtaken(fields) == IF loadCall # None /\ loadCall.answer # None THEN fields \cap Switch ELSE {}

ServeSave(fields) ==
    /\ Waiting(saveCall)
    /\ \/ /\ saveCall' = [saveCall EXCEPT !.status = "ok"]
          /\ Update(saveCall.wish, fields)
          /\ doubtful' = doubtful \cup Overtaken(fields)
       \/ CallFaults /\ saveCall' = [saveCall EXCEPT !.status = "error"] /\ UNCHANGED <<settings, cache, doubtful>>
    /\ UNCHANGED <<copy, loadCall, late, touched>>

ServeLate(fields) ==
    /\ \E wish \in late :
         /\ late' = late \ {wish}
         /\ \/ UNCHANGED <<settings, cache, doubtful>>
            \/ Update(wish, fields) /\ doubtful' = doubtful \cup fields
    /\ UNCHANGED <<copy, loadCall, saveCall, touched>>

SettingsElsewhere(fields) ==
    /\ Elsewhere
    /\ \E wish \in Values : Update(wish, fields)
    /\ doubtful' = doubtful \cup {f \in Fields : settings'[f] # settings[f]}
    /\ UNCHANGED <<copy, loadCall, saveCall, late, touched>>

-----------------------------------------------------------------------------
SettingsReply(fields) == LoadReply(fields) \/ SaveReply(fields)

SettingsNext(fields) ==
    \/ SettingsMount
    \/ IF fields = Switch THEN ToggleMode ELSE Edit \/ Save
    \/ SettingsReply(fields)
    \/ ServeLoad(fields) \/ ServeSave(fields) \/ ServeLate(fields)
    \/ RedisRestart
    \/ \E r \in Readers : OtherMiss(r) \/ OtherFill(r)
    \/ SettingsElsewhere(fields)

-----------------------------------------------------------------------------
(* Properties. *)

SettingsTypeOK ==
    /\ settings \in Values /\ copy \in Values
    /\ cached \in Values \cup {None} /\ held \in [Readers -> Values \cup {None}] /\ overlap \in BOOLEAN
    /\ loadCall \in Loads \cup {None} /\ saveCall \in Saves \cup {None}
    /\ late \subseteq Values /\ touched \subseteq Fields /\ doubtful \subseteq Fields

\* A save that the server carries out changes the opening or the deadline only if that
\* was edited on the page, or the page could not know better: the status failed to load or
\* came from a cached copy that a straddling fill or a lost deletion had left behind, or
\* somebody else changed the settings, or a save of an earlier page arrived late
\* (VotingControlCard writes both columns with every save).
SaveKeepsUntouched ==
    [][\A f \in Control :
         /\ Waiting(saveCall) /\ saveCall' # None /\ saveCall'.status = "ok"
         /\ settings'[f] # settings[f]
         => f \in saveCall.meant \cup doubtful]_settingsVars

=============================================================================
