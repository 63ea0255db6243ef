------------------------------ MODULE RosterCard ------------------------------
(***************************************************************************)
(* The candidates on the administrator's dashboard: the list, the form     *)
(* that adds one, the dialogs that edit and delete one, and the endpoints  *)
(* behind them.  The candidates here have no votes: what votes do to a     *)
(* deletion is the subject of VoteFlow.                                    *)
(***************************************************************************)
EXTENDS ListCard

VARIABLES
    form,       \* the add form: its text, or None while it has no name
    cropping,   \* whether a picture is being cropped in it
    edit,       \* EditCandidateModal: [id, text], or None
    doomed,     \* DeleteConfirmModal: a candidate, or None
    formBusy,   \* formLoading, of the add form and of the edit dialog
    deleting,   \* deleteLoading
    typed,      \* how many texts were typed: each is a new one
    made,       \* history: text -> the rows inserted for it from the add form
    unsure      \* history: the texts whose submission got no answer

rosterVars == <<form, cropping, edit, doomed, formBusy, deleting, typed, made, unsure>>

-----------------------------------------------------------------------------
(* Mutated forms: the form can be submitted while it is busy, and a failing call
   leaves it so. *)
AlwaysReady           == TRUE
BusyAfterFailure(goal) == goal \in {"add", "update"}

-----------------------------------------------------------------------------
FreshPage ==
    /\ form' = None /\ cropping' = FALSE
    /\ edit' = None /\ doomed' = None
    /\ formBusy' = FALSE /\ deleting' = FALSE

RosterInit ==
    /\ form = None /\ cropping = FALSE
    /\ edit = None /\ doomed = None
    /\ formBusy = FALSE /\ deleting = FALSE
    /\ typed = 0
    /\ made = [x \in Texts |-> 0]
    /\ unsure = {}

RosterMount == MountList /\ FreshPage /\ UNCHANGED <<typed, made, unsure>>

-----------------------------------------------------------------------------
(* The administrator.  The inputs are never disabled. *)

NewText == typed < MaxTexts /\ typed' = typed + 1

\* Name, description and picture of the add form are one text.
Type ==
    /\ NewText
    /\ form' = typed'
    /\ UNCHANGED <<listVars, cropping, edit, doomed, formBusy, deleting, made, unsure>>

\* While a picture is being cropped there is no input to choose another.
ChooseImage ==
    /\ ~cropping /\ cropping' = TRUE
    /\ UNCHANGED <<listVars, form, edit, doomed, formBusy, deleting, typed, made, unsure>>

\* The crop is applied or cancelled.
EndCrop ==
    /\ cropping /\ cropping' = FALSE
    /\ UNCHANGED <<listVars, form, edit, doomed, formBusy, deleting, typed, made, unsure>>

Ready == ~formBusy

SubmitAdd ==
    /\ Ready /\ form # None /\ ~cropping
    /\ Send("add", None, form)
    /\ formBusy' = TRUE
    /\ UNCHANGED <<form, cropping, edit, doomed, deleting, typed, made, unsure>>

OpenEdit(i) ==
    /\ edit = None /\ doomed = None
    /\ NewText
    /\ edit' = [id |-> i, text |-> typed']
    /\ UNCHANGED <<listVars, form, cropping, doomed, formBusy, deleting, made, unsure>>

\* Possible while the update is under way.
CancelEdit ==
    /\ edit # None /\ edit' = None
    /\ UNCHANGED <<listVars, form, cropping, doomed, formBusy, deleting, typed, made, unsure>>

SubmitEdit ==
    /\ Ready /\ edit # None
    /\ Send("update", edit.id, edit.text)
    /\ formBusy' = TRUE
    /\ UNCHANGED <<form, cropping, edit, doomed, deleting, typed, made, unsure>>

AskDelete(i) ==
    /\ edit = None /\ doomed = None
    /\ doomed' = i
    /\ UNCHANGED <<listVars, form, cropping, edit, formBusy, deleting, typed, made, unsure>>

CancelDelete ==
    /\ doomed # None /\ ~deleting
    /\ doomed' = None
    /\ UNCHANGED <<listVars, form, cropping, edit, formBusy, deleting, typed, made, unsure>>

ConfirmDelete ==
    /\ doomed # None /\ ~deleting
    /\ Send("delete", doomed, None)
    /\ deleting' = TRUE
    /\ UNCHANGED <<form, cropping, edit, doomed, formBusy, typed, made, unsure>>

-----------------------------------------------------------------------------
(* The continuations: handleAdd, handleUpdate, handleDelete, handleSubmit of the form. *)

Failure(goal) == FALSE

\* What is busy for this goal stays so or not; a goal of the other kind touches nothing.
Busy(goal, stays) ==
    /\ formBusy' = IF goal \in {"add", "update"} THEN stays ELSE formBusy
    /\ deleting' = IF goal = "delete" THEN stays ELSE deleting

\* The change was made: its dialog closes, whichever candidate it shows by now.
RosterChanged(c) ==
    /\ ChangeReply(c, TRUE)
    /\ edit' = IF call[c].kind = "update" THEN None ELSE edit
    /\ doomed' = IF call[c].kind = "delete" THEN None ELSE doomed
    /\ UNCHANGED <<form, cropping, formBusy, deleting, typed, made, unsure>>

RosterFailed(c) ==
    /\ ChangeReply(c, FALSE)
    /\ Busy(call[c].kind, Failure(call[c].kind))
    /\ unsure' = IF call[c].kind = "add" /\ call[c].status # "error" THEN unsure \cup {call[c].text} ELSE unsure
    /\ UNCHANGED <<form, cropping, edit, doomed, typed, made>>

\* The end of the handler; the add form is emptied, whatever was typed meanwhile.
RosterListed(c) ==
    /\ \E ok \in BOOLEAN : ListReply(c, ok)
    /\ Busy(call[c].goal, FALSE)
    /\ form' = IF call[c].goal = "add" THEN None ELSE form
    /\ cropping' = (cropping /\ call[c].goal # "add")
    /\ UNCHANGED <<edit, doomed, typed, made, unsure>>

RosterReply(c) == RosterChanged(c) \/ RosterFailed(c) \/ RosterListed(c)

-----------------------------------------------------------------------------
(* The server: InsertCandidate, UpdateCandidate, DeleteCandidate. *)

Accepts(a) == a.kind = "add" \/ a.id \in Stored

Effect(a) == CASE a.kind = "add" -> Inserted(a.text)
               [] a.kind = "update" -> Updated(a.id, a.text)
               [] a.kind = "delete" -> Deleted(a.id)

Count(a) == made' = IF a.kind = "add" THEN [made EXCEPT ![a.text] = @ + 1] ELSE made

RosterServe(c) ==
    /\ \/ ServeList(c) /\ UNCHANGED made
       \/ /\ Waits(c) /\ call[c].kind # "list" /\ Accepts(call[c])
          /\ Serve(c, Effect(call[c])) /\ Count(call[c])
       \/ /\ Waits(c) /\ (CallFaults \/ (call[c].kind # "list" /\ ~Accepts(call[c])))
          /\ Refuse(c) /\ UNCHANGED made
    /\ UNCHANGED <<form, cropping, edit, doomed, formBusy, deleting, typed, unsure>>

RosterStray ==
    /\ \/ DropStray /\ UNCHANGED made
       \/ \E s \in stray : Accepts(s) /\ ServeStray(s, Effect(s)) /\ Count(s)
    /\ UNCHANGED <<form, cropping, edit, doomed, formBusy, deleting, typed, unsure>>

-----------------------------------------------------------------------------
RosterNext ==
    \/ RosterMount
    \/ Type \/ ChooseImage \/ EndCrop \/ SubmitAdd \/ CancelEdit \/ SubmitEdit \/ CancelDelete \/ ConfirmDelete
    \/ \E i \in Offered : OpenEdit(i) \/ AskDelete(i)
    \/ \E c \in Slots : RosterReply(c) \/ RosterServe(c)
    \/ RosterStray
    \/ OtherAdministrator /\ UNCHANGED rosterVars

-----------------------------------------------------------------------------
(* Properties. *)

Under(goals) == {c \in Slots : call[c] # None /\ call[c].goal \in goals}

\* Types; the form and the deletion are busy exactly while one handler of theirs runs.
RosterTypeOK ==
    /\ ListTypeOK
    /\ form \in Texts \cup {None} /\ cropping \in BOOLEAN
    /\ edit \in [id : Ids, text : Texts] \cup {None}
    /\ doomed \in Ids \cup {None}
    /\ formBusy \in BOOLEAN /\ deleting \in BOOLEAN
    /\ typed \in 0..MaxTexts
    /\ made \in [Texts -> 0..MaxRows] /\ unsure \subseteq Texts
    /\ formBusy <=> Under({"add", "update"}) # {}
    /\ deleting <=> Under({"delete"}) # {}

\* What was typed into the add form once becomes two candidates only if a submission of it
\* got no answer, so that the administrator had to submit it again (handleAdd, handleSubmit).
OneRowPerText == \A x \in Texts : made[x] > 1 => x \in unsure

=============================================================================
